\* One pickup, no confirmations, more requests than connections.  No symmetry, because
\* the property is a liveness one.
SPECIFICATION FairTxSpec
CONSTANTS
    HouseholdId = {h1}
    PickupId = {p1}
    PaymentId = {q1}
    ProofId = {}
    Types = {"organic"}
    PickupDate = {d1}
    Session = {s1, s2, s3}
    MaxOpenConns = 2
    NoRow = NoRow
    Null = Null
PROPERTIES
    TransactionsEnd
CHECK_DEADLOCK FALSE
