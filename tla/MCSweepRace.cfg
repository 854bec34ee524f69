\* BR-04: a pickup scheduled between the two statements of a cycle.
SPECIFICATION Spec
CONSTANTS
    HouseholdId = {h1}
    PickupId = {p1}
    PaymentId = {q1}
    ProofId = {u1}
    Types = {"organic"}
    PickupDate = {d1}
    Request = {r1}
    Faults = {}
    NoRow = NoRow
    Null = Null
SYMMETRY Symmetry
PROPERTIES
    CancelerSparesScheduled
