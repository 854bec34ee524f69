\* A confirmation whose reply is lost.
SPECIFICATION Spec
CONSTANTS
    HouseholdId = {h1}
    PickupId = {p1}
    PaymentId = {q1}
    ProofId = {u1}
    Types = {"paper"}
    PickupDate = {d1}
    Request = {r1}
    Faults = {"lostReply"}
    NoRow = NoRow
    Null = Null
SYMMETRY Symmetry
INVARIANTS
    PaidProofStored
