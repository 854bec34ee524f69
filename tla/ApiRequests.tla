----------------------------- MODULE ApiRequests -----------------------------
(***************************************************************************)
(* The HTTP requests in flight.  Echo serves every request in a goroutine  *)
(* of its own; each slot r of Request carries one request at a time from   *)
(* its first statement to its reply, and between two statements of one     *)
(* request any other request may run.  req[r].at names the statement the   *)
(* request is about to issue, the other fields are the handler's locals    *)
(* that are still needed.                                                  *)
(***************************************************************************)
EXTENDS Database

CONSTANTS
    Request,    \* slots: the bound on requests served concurrently
    Faults      \* the failures of PostgreSQL and S3 this instance exhibits

FaultKind == {"dbError",     \* a statement fails and has no effect
              "s3Error",     \* an S3 call fails and has no effect
              "lostReply",   \* a call takes effect but its caller sees an error
              "crash"}       \* the process dies and is started again

ASSUME FaultsAssumption == Faults \subseteq FaultKind

VARIABLES
    req,        \* what each slot is doing
    acked       \* history: what 2xx replies have told clients

Idle == [at |-> "idle"]

\* What a 2xx reply asserts of the row it is about.
Ack == [op : {"schedule"}, pickup : PickupId, date : PickupDate]
       \cup [op : {"complete", "cancel"}, pickup : PickupId]
       \cup [op : {"confirm"}, payment : PaymentId, proof : ProofKey]

ReqInit == req = [r \in Request |-> Idle] /\ acked = {}

\* The request goes on to its next statement.
Proceed(r, locals) ==
    /\ req' = [req EXCEPT ![r] = locals]
    /\ UNCHANGED acked

\* mapError: the sentinel error becomes a 4xx or 5xx reply and the request is over.
Refuse(r, error) ==
    /\ error \in Error
    /\ req' = [req EXCEPT ![r] = Idle]
    /\ UNCHANGED acked

\* A 2xx reply: the client now relies on what acks asserts.
Respond(r, acks) ==
    /\ req' = [req EXCEPT ![r] = Idle]
    /\ acked' = acked \cup acks

\* The reply to a statement that did commit: the caller may still see an error,
\* when the connection breaks or the request's context is canceled meanwhile.
Committed(r, acks) ==
    \/ Respond(r, acks)
    \/ "lostReply" \in Faults /\ Refuse(r, "internal")

\* A statement with no step left after it fails: every repository method
\* answers ErrInternalFailure, and nothing has been written.
DbFails(r, steps) ==
    /\ "dbError" \in Faults
    /\ req[r].at \in steps
    /\ Refuse(r, "internal")
    /\ UNCHANGED db

=============================================================================
