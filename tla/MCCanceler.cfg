\* BR-04 as a liveness property, and BR-01 with one request at a time: two pickups that
\* expire at different times, failing cycles and crashes.  No symmetry, because one
\* property is a liveness one.
SPECIFICATION FairSpec
CONSTANTS
    HouseholdId = {h1}
    PickupId = {p1, p2}
    PaymentId = {q1}
    ProofId = {u1}
    Types = {"organic"}
    PickupDate = {d1}
    Request = {r1}
    Faults = {"dbError", "crash"}
    NoRow = NoRow
    Null = Null
PROPERTIES
    ExpiredIsHandled
    NoPickupWhilePaymentPending
