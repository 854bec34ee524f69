\* Every failure: lost replies, failed calls, crashes.  Two households: whose payment is it?
SPECIFICATION Spec
CONSTANTS
    HouseholdId = {h1, h2}
    PickupId = {p1}
    PaymentId = {q1}
    ProofId = {u1, u2}
    Types = {"organic"}
    PickupDate = {d1, d2}
    Request = {r1, r2}
    Faults = {"dbError", "s3Error", "lostReply", "crash"}
    NoRow = NoRow
    Null = Null
SYMMETRY Symmetry
INVARIANTS
    IInv
    TypeOK
    CompletedHasPayment
    AckedRepliesHold
    PaymentMatchesPickup
PROPERTIES
    ImplementsContract
    StrayObjectsStayStray
