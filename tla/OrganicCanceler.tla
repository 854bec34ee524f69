--------------------------- MODULE OrganicCanceler ---------------------------
(***************************************************************************)
(* internal/worker/organic_canceler.go: the background goroutine that      *)
(* enforces BR-04.  A cycle is two statements, FindExpiredOrganic and      *)
(* BulkCancel; requests run between them.                                  *)
(***************************************************************************)
EXTENDS ApiRequests

VARIABLES
    aged,       \* pickups created longer ago than the cutoff
    found       \* the ids the running cycle selected; {} between cycles

CancelerTypeOK == aged \subseteq PickupId /\ found \subseteq PickupId

CancelerInit == aged = {} /\ found = {}

\* The clock moves: the cutoff time passes a pickup's created_at.
Age(p) ==
    /\ PickupExists(p)
    /\ pickups[p].type = "organic"
    /\ aged' = aged \cup {p}
    /\ UNCHANGED <<db, found>>

\* mutant: the comparison with the cutoff is turned round.
YoungOrganic ==
    {p \in PickupId \ aged : PickupIn(p, {"pending"}) /\ pickups[p].type = "organic"}

\* type = 'organic' AND status = 'pending' AND created_at < cutoff.
ExpiredOrganic ==
    {p \in aged : PickupIn(p, {"pending"}) /\ pickups[p].type = "organic"}

\* A tick: the select of the cycle.  No row ends the cycle.
FindExpiredOrganic ==
    /\ found = {}
    /\ found' = ExpiredOrganic
    /\ UNCHANGED <<db, aged>>

\* The update of the cycle, by the ids the select returned.
BulkCancel ==
    /\ found # {}
    /\ pickups' = WithStatus(BulkCancelMatches(found), "canceled")
    /\ found' = {}
    /\ UNCHANGED <<households, payments, issued, aged>>

\* A statement of the cycle fails or times out, or the cycle panics and
\* runWithRecover catches it: the next tick starts afresh.
CycleFails ==
    /\ "dbError" \in Faults
    /\ found # {}
    /\ found' = {}
    /\ UNCHANGED <<db, aged>>

OrganicCancelerStep == FindExpiredOrganic \/ BulkCancel \/ CycleFails

=============================================================================
