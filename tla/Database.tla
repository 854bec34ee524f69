------------------------------ MODULE Database ------------------------------
(***************************************************************************)
(* The three PostgreSQL tables with the constraints the migrations put on  *)
(* them, and the SQL statements of internal/repository as operators over   *)
(* the tables.                                                             *)
(*                                                                         *)
(* Grain: the pool runs each statement in a transaction of its own at the  *)
(* default level, READ COMMITTED.  An UPDATE re-evaluates its WHERE clause *)
(* on the newest committed row once it holds the row's lock, an INSERT     *)
(* waits for the competing entry of a unique index and for the rows its    *)
(* foreign keys name, so each of these statements takes effect at one      *)
(* instant.  What is read by one statement may be stale at the next: that  *)
(* is where the interleavings are.                                         *)
(***************************************************************************)
EXTENDS WasteDomain, FiniteSets

CONSTANTS
    HouseholdId,    \* primary keys the database may generate for households
    PickupId,       \* ... for waste_pickups
    PaymentId,      \* ... for payments
    ProofId,        \* UUIDs the service may generate for uploaded proofs
    Types,          \* the waste types requests ask for
    PickupDate,     \* dates a pickup may be scheduled at
    NoRow,          \* no row with this primary key
    Null            \* SQL NULL

ASSUME TypesAssumption == Types \subseteq WasteType

VARIABLES
    households,     \* the rows of households (a set of keys: no other column matters)
    pickups,        \* waste_pickups: primary key -> row or NoRow
    payments,       \* payments: primary key -> row or NoRow
    issued          \* every UUID generated so far; gen_random_uuid never repeats

tables == <<households, pickups, payments>>
db     == <<households, pickups, payments, issued>>

\* An object key: fmt.Sprintf("%s/proof_%s", paymentID, uuid).
ProofKey == PaymentId \X ProofId

PickupRow == [household : HouseholdId, type : WasteType, status : PickupStatus,
              safety : BOOLEAN, date : PickupDate \cup {Null}]

PaymentRow == [household : HouseholdId, waste : PickupId, amount : Nat,
               status : PaymentStatus, proof : ProofKey \cup {Null}]

ASSUME NoRowAssumption == NoRow \notin PickupRow \cup PaymentRow
ASSUME NullAssumption  == Null \notin PickupDate \cup ProofKey

DbTypeOK ==
    /\ households \subseteq HouseholdId
    /\ pickups \in [PickupId -> PickupRow \cup {NoRow}]
    /\ payments \in [PaymentId -> PaymentRow \cup {NoRow}]
    /\ issued \subseteq HouseholdId \cup PickupId \cup PaymentId \cup ProofId

\* A freshly migrated database.
DbInit ==
    /\ households = {}
    /\ pickups = [p \in PickupId |-> NoRow]
    /\ payments = [q \in PaymentId |-> NoRow]
    /\ issued = {}

PickupExists(p)  == pickups[p] # NoRow
PaymentExists(q) == payments[q] # NoRow

(***************************************************************************)
(* waste_pickups                                                           *)
(***************************************************************************)
\* WHERE id = p AND status IN S.
PickupIn(p, S) == PickupExists(p) /\ pickups[p].status \in S

\* UPDATE waste_pickups SET status = s on the rows P.
WithStatus(P, s) ==
    [p \in PickupId |->
        IF p \in P THEN [pickups[p] EXCEPT !.status = s] ELSE pickups[p]]

\* SELECT EXISTS(... FROM payments WHERE household_id = h AND status = 'pending').
HasPendingPaymentForHousehold(h) ==
    \E q \in PaymentId : /\ PaymentExists(q)
                         /\ payments[q].household = h
                         /\ payments[q].status = "pending"

PickupInsertErrorWithoutForeignKey(h) == "none"    \* mutant: trusts the validator

\* INSERT INTO waste_pickups: the foreign key, then the row under a new key p.
PickupInsertError(h) == IF h \in households THEN "none" ELSE "notFound"

InsertPickup(p, h, type, safety) ==
    /\ p \in PickupId \ issued
    /\ issued' = issued \cup {p}
    /\ pickups' = [pickups EXCEPT ![p] =
                     [household |-> h, type |-> type, status |-> "pending",
                      safety |-> safety, date |-> Null]]

ScheduleMatchesAnyStatus(p) == PickupExists(p)      \* mutant: WHERE id only

\* UPDATE ... SET status = 'scheduled', pickup_date = d WHERE status = 'pending':
\* the rows affected, and the table afterwards.
ScheduleMatches(p) == PickupIn(p, {"pending"})

Scheduled(p, d) ==
    [pickups EXCEPT ![p] = [@ EXCEPT !.status = "scheduled", !.date = d]]

CompleteMatchesAnyStatus(p) == PickupExists(p)      \* mutant: WHERE id only

\* UpdateStatus(..., PickupStatusCompleted, tx): the prior status it insists on.
CompleteMatches(p) == PickupIn(p, {"scheduled"})

\* CancelIfCancellable: rows its UPDATE matches.
CancelMatches(p) == PickupIn(p, Cancellable)

\* BulkCancel: of the ids handed to it, the rows its UPDATE matches.
BulkCancelMatches(ids) == {p \in ids : PickupIn(p, Cancellable)}

(***************************************************************************)
(* payments                                                                *)
(***************************************************************************)
\* The row both services build: the price comes from the pickup's type.
NewPayment(h, w, type) ==
    [household |-> h, waste |-> w, amount |-> PaymentAmounts[type],
     status |-> "pending", proof |-> Null]

PaymentClashOnPickupOnly(row) ==                    \* mutant: no partial index
    \E q \in PaymentId : PaymentExists(q) /\ payments[q].waste = row.waste

PaymentClashOnHouseholdOnly(row) ==                 \* mutant: waste_id not unique
    \E q \in PaymentId : /\ PaymentExists(q)
                         /\ payments[q].household = row.household
                         /\ payments[q].status = "pending"

\* UNIQUE(waste_id), and the partial unique index on the household of pending rows.
PaymentClash(row) ==
    \E q \in PaymentId :
        /\ PaymentExists(q)
        /\ \/ payments[q].waste = row.waste
           \/ payments[q].household = row.household /\ payments[q].status = "pending"

\* INSERT INTO payments, as mapPaymentCreateErr reports it: unique indexes are
\* checked while the row goes in, foreign keys at the end of the statement.
PaymentInsertError(row) ==
    IF PaymentClash(row) THEN "conflict"
    ELSE IF row.household \notin households \/ ~PickupExists(row.waste)
    THEN "notFound"
    ELSE "none"

InsertPayment(q, row) ==
    /\ q \in PaymentId \ issued
    /\ issued' = issued \cup {q}
    /\ payments' = [payments EXCEPT ![q] = row]

\* UPDATE payments SET status = 'paid', proof_file_url = key WHERE status = 'pending'.
ConfirmMatches(q) == PaymentExists(q) /\ payments[q].status = "pending"

PaidByProofId(q, key) ==                            \* mutant: key without its prefix
    [payments EXCEPT ![q] = [@ EXCEPT !.status = "paid", !.proof = key[2]]]

Paid(q, key) ==
    [payments EXCEPT ![q] = [@ EXCEPT !.status = "paid", !.proof = key]]

(***************************************************************************)
(* households: DELETE cascades to the pickups and the payments.            *)
(***************************************************************************)
PickupsWithout(h) ==
    [p \in PickupId |->
        IF PickupExists(p) /\ pickups[p].household = h THEN NoRow ELSE pickups[p]]

\* A payment goes with its household, and with its pickup.
PaymentsWithout(h) ==
    [q \in PaymentId |->
        IF /\ PaymentExists(q)
           /\ \/ payments[q].household = h
              \/ /\ PickupExists(payments[q].waste)
                 /\ pickups[payments[q].waste].household = h
        THEN NoRow ELSE payments[q]]

=============================================================================
