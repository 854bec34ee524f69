\* BR-01 with two concurrent requests.
SPECIFICATION Spec
CONSTANTS
    HouseholdId = {h1}
    PickupId = {p1, p2}
    PaymentId = {q1}
    ProofId = {u1}
    Types = {"paper"}
    PickupDate = {d1}
    Request = {r1, r2}
    Faults = {}
    NoRow = NoRow
    Null = Null
SYMMETRY Symmetry
PROPERTIES
    NoPickupWhilePaymentPending
