\* Three pickups on up to three pages, one completed and billed.  Electronic waste:
\* its safety check keeps some of the pickups from ever being scheduled.
SPECIFICATION ReadersSpec
CONSTANTS
    HouseholdId = {h1}
    PickupId = {p1, p2, p3}
    PaymentId = {q1}
    ProofId = {u1}
    Types = {"electronic"}
    PickupDate = {d1}
    FilterHousehold = {h1}
    FilterStatus = {NoFilter, "scheduled"}
    PerPage = {1, 2}
    NoFilter = NoFilter
    NoRow = NoRow
    Null = Null
SYMMETRY ReadersSymmetry
INVARIANTS
    WalkIsComplete
    HistoryIsConsistent
    SummariesAgree
