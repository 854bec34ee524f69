\* Three concurrent requests on two electronic pickups of one household, no failures.
SPECIFICATION Spec
CONSTANTS
    HouseholdId = {h1}
    PickupId = {p1, p2}
    PaymentId = {q1, q2}
    ProofId = {u1, u2}
    Types = {"electronic"}
    PickupDate = {d1}
    Request = {r1, r2, r3}
    Faults = {}
    NoRow = NoRow
    Null = Null
SYMMETRY Symmetry
INVARIANTS
    ReferentialIntegrity
    BilledOnce
    PaidProofStored
    NoStrayObject
    ElectronicIsSafe
PROPERTIES
    EarlyBillBlocksCompletion
