\* Three sessions on two connections, two pickups of one household.
SPECIFICATION TxSpec
CONSTANTS
    HouseholdId = {h1}
    PickupId = {p1, p2}
    PaymentId = {q1}
    ProofId = {u1}
    Types = {"organic"}
    PickupDate = {d1}
    Session = {s1, s2, s3}
    MaxOpenConns = 2
    NoRow = NoRow
    Null = Null
INVARIANTS
    TxTypeOK
    ChecksStillHold
    DeadlockNeedsDelete
PROPERTIES
    ImplementsContract
SYMMETRY TxSymmetry
CHECK_DEADLOCK FALSE
