--------------------------- MODULE WasteCollection ---------------------------
(***************************************************************************)
(* The running system: API requests of every service, the organic canceler *)
(* and process crashes, interleaved over one database and one bucket.      *)
(***************************************************************************)
EXTENDS PickupService, PaymentService, OrganicCanceler, BusinessRules

vars == <<households, pickups, payments, issued, req, acked, objects, aged, found>>

Init == DbInit /\ ReqInit /\ CancelerInit /\ objects = {}

\* The process dies and restarts: every request in flight and the worker's
\* cycle are gone without a reply, what was committed or stored remains.
Crash ==
    /\ "crash" \in Faults
    /\ req' = [r \in Request |-> Idle]
    /\ found' = {}
    /\ UNCHANGED <<db, acked, objects, aged>>

PickupRequest == \E r \in Request :
    PickupServiceStep(r) /\ UNCHANGED <<objects, aged, found>>

PaymentRequest == \E r \in Request :
    PaymentServiceStep(r) /\ UNCHANGED <<aged, found>>

HouseholdRequest ==
    HouseholdServiceStep /\ UNCHANGED <<req, acked, objects, aged, found>>

Canceler == OrganicCancelerStep /\ UNCHANGED <<req, acked, objects>>

Clock == (\E p \in PickupId : Age(p)) /\ UNCHANGED <<req, acked, objects>>

Next ==
    \/ PickupRequest
    \/ PaymentRequest
    \/ HouseholdRequest
    \/ Canceler
    \/ Clock
    \/ Crash

Spec == Init /\ [][Next]_vars

\* The ticker keeps firing while the process runs, and restarts with it.  A cycle
\* may fail any number of times, but not for ever: the database comes back.
CancelerFairness ==
    LET Alone(A) == A /\ UNCHANGED <<req, acked, objects>> IN
    WF_vars(Alone(FindExpiredOrganic)) /\ SF_vars(Alone(BulkCancel))

FairSpec == Spec /\ CancelerFairness

RequestState == {Idle} \cup PickupCall \cup PaymentCall

\* Every table, request and history variable keeps its type.
TypeOK ==
    /\ DbTypeOK
    /\ CancelerTypeOK
    /\ req \in [Request -> RequestState]
    /\ acked \subseteq Ack
    /\ objects \subseteq ProofKey

(***************************************************************************)
(* Safety                                                                  *)
(***************************************************************************)
\* What a 2xx reply told a client stays true until the household is deleted: the
\* date it scheduled is the row's date, a canceled pickup stays canceled, a
\* completed one stays completed, a confirmed payment keeps the client's proof.
Holds(ack) ==
    IF ack.op = "confirm"
    THEN PaymentExists(ack.payment) =>
            /\ payments[ack.payment].status = "paid"
            /\ payments[ack.payment].proof = ack.proof
    ELSE LET row == pickups[ack.pickup] IN
         row # NoRow =>
            CASE ack.op = "schedule" -> row.status # "pending" /\ row.date = ack.date
              [] ack.op = "complete" -> row.status = "completed"
              [] ack.op = "cancel"   -> row.status = "canceled"

AckedRepliesHold == \A ack \in acked : Holds(ack)

\* A paid payment's proof is in the bucket.  It is the deletion after a failed
\* confirmation, concurrent with a successful one, that could take it away.
PaidProofStored ==
    \A q \in PaymentId :
        PaymentExists(q) /\ payments[q].status = "paid" => payments[q].proof \in objects

\* The upload that an in-flight confirmation still accounts for.
Handled(key) == \E r \in Request :
    req[r].at \in {"confirm.update", "confirm.cleanup"} /\ req[r].key = key

\* Without S3 failures, lost replies and crashes the only object nobody refers to
\* is one left behind by the deletion of its payment's household.
NoStrayObject ==
    \A key \in objects :
        \/ Handled(key)
        \/ ~PaymentExists(key[1])
        \/ payments[key[1]].proof = key

(***************************************************************************)
(* What a step may never do                                                *)
(***************************************************************************)
\* A pickup somebody billed with POST /api/payments before it was completed can
\* never be completed: Complete's own INSERT fails and takes the UPDATE back.
EarlyBillBlocksCompletion ==
    [][\A p \in PickupId, q \in PaymentId :
         /\ PaymentExists(q) /\ payments[q].waste = p
         /\ PickupExists(p) /\ pickups[p].status # "completed"
         => ~PickupIn(p, {"completed"})']_vars

\* An object that a crash, a lost reply, a failed cleanup or the deletion of its
\* household left in the bucket belongs to nobody for ever: no later attempt writes
\* its key again, makes it a payment's proof, or removes it.
Stray(key) ==
    /\ key \in objects
    /\ ~Handled(key)
    /\ \A q \in PaymentId : PaymentExists(q) => payments[q].proof # key

StrayObjectsStayStray == [][\A key \in ProofKey : Stray(key) => Stray(key)']_vars

\* BR-01: no pickup appears for a household while it has a pending payment.
NoPickupWhilePaymentPending ==
    [][\A p \in PickupId : ~PickupExists(p) /\ PickupExists(p)' =>
         ~HasPendingPaymentForHousehold(pickups'[p].household)]_vars

\* BR-04: the canceler cancels pickups nobody scheduled.
CancelerSparesScheduled ==
    [][\A p \in found : found' = {} /\ PickupIn(p, {"canceled"})' =>
         ~PickupIn(p, {"scheduled"})]_vars

(***************************************************************************)
(* What must eventually happen                                             *)
(***************************************************************************)
\* BR-04: no expired organic pickup stays pending for ever, whatever cycles fail or
\* die between select and update, and whatever requests do to the selected rows.
ExpiredIsHandled ==
    LET Overdue(p) == p \in aged /\ PickupIn(p, {"pending"}) IN
    \A p \in PickupId : Overdue(p) ~> ~Overdue(p)

=============================================================================
