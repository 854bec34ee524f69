---------------------------- MODULE Transactions ----------------------------
(***************************************************************************)
(* Below the grain of PickupService and HouseholdService, where BR-05's    *)
(* transaction and a cascading DELETE are single steps: the row locks and  *)
(* index entries a PostgreSQL session takes one after the other and keeps  *)
(* until it ends, the connection it occupies in the pool, the client that  *)
(* gives up on it, the deadlock detector.  The tables are the committed    *)
(* rows; what an open transaction has written is nowhere but in its locks, *)
(* and becomes visible when it commits.                                    *)
(*                                                                         *)
(* Statements that lock a single row and commit at once wait while holding *)
(* nothing; each is one step here, taken when the row is free.             *)
(***************************************************************************)
EXTENDS BusinessRules

CONSTANTS
    Session,        \* slots for requests, and for the worker's sweep
    MaxOpenConns    \* DB_MAX_OPEN_CONNS

\* Config.Validate refuses less.
ASSUME PoolAssumption == MaxOpenConns \in Nat \ {0}

VARIABLES
    tx,         \* what each session's transaction is about to do
    locks,      \* what it has locked
    canceled    \* sessions whose context was canceled, or timed out

txVars == <<households, pickups, payments, issued, tx, locks, canceled>>

NoTx == [at |-> "idle"]

\* Row locks on households and pickups, and the uncommitted entries of the two
\* unique indexes on payments: a second inserter waits for the first one's end.
Resource == HouseholdId \cup PickupId \cup ({"open"} \X HouseholdId)
            \cup ({"waste"} \X PickupId)

Lock == {"keyShare", "noKeyUpdate", "update", "entry"} \X Resource

\* A foreign-key check conflicts with DELETE only, an UPDATE of a status with
\* any other writer of the row.
Incompatible ==
    {{"keyShare", "update"}, {"noKeyUpdate"}, {"noKeyUpdate", "update"},
     {"update"}, {"entry"}}

Conflict(k, l) == k[2] = l[2] /\ {k[1], l[1]} \in Incompatible

Entries(row) == {<<"entry", <<"waste", row.waste>>>>, <<"entry", <<"open", row.household>>>>}

Keys(row) == {<<"keyShare", row.household>>, <<"keyShare", row.waste>>}

\* The locks a session's next step needs.  INSERT makes its entries one by one,
\* and checks its keys one by one, but nobody it could meet in between waits for
\* what it has taken so far.  An UPDATE does not wait for rows its WHERE excludes.
Wanted(s) ==
    LET t == tx[s] IN
    CASE t.at = "update" /\ CompleteMatches(t.pickup) -> {<<"noKeyUpdate", t.pickup>>}
      [] t.at = "insert"  -> Entries(t.payment)
      [] t.at = "keys"    -> Keys(t.payment)
      [] t.at = "delete"  -> {<<"update", t.household>>}
      [] t.at = "cascade" -> {<<"update", t.next>>}
      [] t.at = "sweep" /\ CancelMatches(t.next) -> {<<"noKeyUpdate", t.next>>}
      [] OTHER -> {}

WaitsFor(s, t) == s # t /\ \E k \in Wanted(s), l \in locks[t] : Conflict(k, l)

Granted(s) == \A t \in Session : ~WaitsFor(s, t)

\* A statement of its own that wants this lock need not wait.
Free(k) == \A s \in Session : \A l \in locks[s] : ~Conflict(k, l)

\* A connection is out from BEGIN, or from the start of a statement, to its end.
FreeConnection ==
    Cardinality({s \in Session : tx[s].at \notin {"idle", "begin"}}) < MaxOpenConns

TxInit ==
    /\ DbInit
    /\ tx = [s \in Session |-> NoTx]
    /\ locks = [s \in Session |-> {}]
    /\ canceled = {}

\* The session is done, and so are its locks and its connection.
End(s) ==
    /\ tx' = [tx EXCEPT ![s] = NoTx]
    /\ locks' = [locks EXCEPT ![s] = {}]
    /\ canceled' = canceled \ {s}

RollBackForgotten(s) ==                             \* mutant: no deferred Rollback
    /\ tx' = [tx EXCEPT ![s].at = "abandoned"]
    /\ UNCHANGED <<db, locks, canceled>>

\* An error on the way, reported to the caller: the deferred Rollback, or the
\* server's own for a statement without BEGIN.
RollBack(s) == End(s) /\ UNCHANGED db

\* The statement got its locks: go on, holding them.
Take(s, t) ==
    /\ tx' = [tx EXCEPT ![s] = t]
    /\ locks' = [locks EXCEPT ![s] = @ \cup Wanted(s)]
    /\ UNCHANGED <<db, canceled>>

(***************************************************************************)
(* Starting: each of these waits for a connection first                    *)
(***************************************************************************)
Start(s, t) ==
    /\ tx[s].at = "idle"
    /\ tx' = [tx EXCEPT ![s] = t]
    /\ UNCHANGED <<db, locks, canceled>>

\* PUT /api/pickups/:id/complete, after FindByID and the status check.
StartComplete(s, p) ==
    /\ PickupIn(p, {"scheduled"})
    /\ Start(s, [at |-> "begin", op |-> "complete", pickup |-> p, payment |->
                 NewPayment(pickups[p].household, p, pickups[p].type)])

\* POST /api/payments, after FindByID and the household check.
StartBill(s, p) ==
    /\ PickupExists(p)
    /\ Start(s, [at |-> "begin", op |-> "bill", payment |->
                 NewPayment(pickups[p].household, p, pickups[p].type)])

\* DELETE /api/households/:id.
StartDelete(s, h) == Start(s, [at |-> "begin", op |-> "delete", household |-> h])

StartSweepAnywhere(s, ids) ==                       \* mutant: a worker per session
    /\ \A p \in ids : PickupIn(p, {"pending"}) /\ pickups[p].type = "organic"
    /\ Start(s, [at |-> "begin", op |-> "sweep", ids |-> ids])

\* The worker, after FindExpiredOrganic.  There is one worker goroutine.
StartSweep(s, ids) ==
    /\ \A p \in ids : PickupIn(p, {"pending"}) /\ pickups[p].type = "organic"
    /\ \A t \in Session : tx[t].at # "idle" => tx[t].op # "sweep"
    /\ Start(s, [at |-> "begin", op |-> "sweep", ids |-> ids])

\* The rows of a multi-row statement are locked in the order of its scan, which
\* nothing in the code fixes.
InSomeOrder(at, op, scope, rest) ==
    IF rest = {} THEN {[at |-> "commit", op |-> op, scope |-> scope]}
    ELSE {[at |-> at, op |-> op, scope |-> scope, next |-> p, rest |-> rest \ {p}] :
             p \in rest}

\* The pool hands out a connection: BEGIN, or the statement reaches the server.
Connect(s) ==
    /\ tx[s].at = "begin"
    /\ FreeConnection
    /\ LET t == tx[s] IN
       \/ t.op = "complete" /\ tx' = [tx EXCEPT ![s].at = "update"]
       \/ t.op = "bill"     /\ tx' = [tx EXCEPT ![s].at = "insert"]
       \/ t.op = "delete"   /\ tx' = [tx EXCEPT ![s].at = "delete"]
       \/ /\ t.op = "sweep"
          /\ \E u \in InSomeOrder("sweep", "sweep", t.ids, t.ids) :
                tx' = [tx EXCEPT ![s] = u]
    /\ UNCHANGED <<db, locks, canceled>>

(***************************************************************************)
(* BR-05: UPDATE, INSERT, COMMIT; and the INSERT of POST /api/payments     *)
(***************************************************************************)
CompleteReads(s) ==                                 \* mutant: SELECT, no lock taken
    /\ tx[s].at = "update"
    /\ CompleteMatches(tx[s].pickup)
    /\ tx' = [tx EXCEPT ![s].at = "insert"]
    /\ UNCHANGED <<db, locks, canceled>>

CompleteUpdate(s) ==
    /\ tx[s].at = "update"
    /\ Granted(s)
    /\ IF CompleteMatches(tx[s].pickup)
       THEN Take(s, [tx[s] EXCEPT !.at = "insert"])
       ELSE RollBack(s)

InsertEntries(s) ==
    /\ tx[s].at = "insert"
    /\ Granted(s)
    /\ IF PaymentClash(tx[s].payment)
       THEN RollBack(s)
       ELSE Take(s, [tx[s] EXCEPT !.at = "keys"])

InsertKeys(s) ==
    /\ tx[s].at = "keys"
    /\ Granted(s)
    /\ LET row == tx[s].payment IN
       IF row.household \notin households \/ ~PickupExists(row.waste)
       THEN RollBack(s)
       ELSE Take(s, [tx[s] EXCEPT !.at = "commit"])

(***************************************************************************)
(* DELETE FROM households, and the worker's UPDATE of many pickups         *)
(***************************************************************************)
DeleteRow(s) ==
    /\ tx[s].at = "delete"
    /\ Granted(s)
    /\ LET h == tx[s].household IN
       IF h \notin households
       THEN RollBack(s)
       ELSE \E t \in InSomeOrder("cascade", "delete", h,
                        {p \in PickupId : PickupExists(p) /\ pickups[p].household = h}) :
               Take(s, t)

CascadeRow(s) ==
    /\ tx[s].at = "cascade"
    /\ Granted(s)
    /\ \E t \in InSomeOrder("cascade", "delete", tx[s].scope, tx[s].rest) : Take(s, t)

SweepRow(s) ==
    /\ tx[s].at = "sweep"
    /\ Granted(s)
    /\ \E t \in InSomeOrder("sweep", "sweep", tx[s].scope, tx[s].rest) : Take(s, t)

(***************************************************************************)
(* Ending                                                                  *)
(***************************************************************************)
Swept(s) == {p \in tx[s].scope : <<"noKeyUpdate", p>> \in locks[s]}

\* tx.Commit refuses when the context is done; a lone statement has committed
\* when the server is through with it.
Commit(s) ==
    /\ tx[s].at = "commit"
    /\ End(s)
    /\ LET t == tx[s] IN
       \/ /\ t.op = "complete"
          /\ s \notin canceled
          /\ pickups' = WithStatus({t.pickup}, "completed")
          /\ \E q \in PaymentId : InsertPayment(q, t.payment)
          /\ UNCHANGED households
       \/ t.op = "complete" /\ s \in canceled /\ UNCHANGED db
       \/ /\ t.op = "bill"
          /\ \E q \in PaymentId : InsertPayment(q, t.payment)
          /\ UNCHANGED <<households, pickups>>
       \/ t.op = "delete" /\ DeleteHousehold(t.scope)
       \/ /\ t.op = "sweep"
          /\ pickups' = WithStatus(Swept(s), "canceled")
          /\ UNCHANGED <<households, payments, issued>>

\* The client disconnects, or WorkerQueryTimeout expires.
GiveUp(s) ==
    /\ tx[s].at # "idle"
    /\ canceled' = canceled \cup {s}
    /\ UNCHANGED <<db, tx, locks>>

\* The driver interrupts the statement under way.  That of a transaction need not be
\* given the context for it: BeginTxx was, and the driver watches it to the end.
Interrupt(s) ==
    /\ s \in canceled
    /\ tx[s].at # "commit"
    /\ RollBack(s)

\* A statement or COMMIT fails.
Fail(s) == tx[s].at # "idle" /\ RollBack(s)

\* PostgreSQL ends one transaction of a cycle of waiting ones.
Stuck(S) == S # {} /\ \A s \in S : \E t \in S : WaitsFor(s, t)

Cycle(S) == Stuck(S) /\ \A R \in SUBSET S : Stuck(R) => R = S

DeadlockVictim(s) == (\E S \in SUBSET Session : s \in S /\ Cycle(S)) /\ RollBack(s)

\* The process dies; PostgreSQL rolls back what its sessions had open.
ProcessDies ==
    /\ tx' = [s \in Session |-> NoTx]
    /\ locks' = [s \in Session |-> {}]
    /\ canceled' = {}
    /\ UNCHANGED db

(***************************************************************************)
(* Statements of their own on a single row                                 *)
(***************************************************************************)
SingleStatement ==
    /\ FreeConnection
    /\ \/ \E h \in HouseholdId : CreateHousehold(h)
       \/ \E p \in PickupId, h \in households, type \in Types :
             /\ Free(<<"keyShare", h>>)
             /\ InsertPickup(p, h, type, TRUE)
             /\ UNCHANGED <<households, payments>>
       \/ \E p \in PickupId, d \in PickupDate :
             /\ Free(<<"noKeyUpdate", p>>)
             /\ ScheduleMatches(p)
             /\ pickups' = Scheduled(p, d)
             /\ UNCHANGED <<households, payments, issued>>
       \/ \E p \in PickupId :
             /\ Free(<<"noKeyUpdate", p>>)
             /\ CancelMatches(p)
             /\ pickups' = WithStatus({p}, "canceled")
             /\ UNCHANGED <<households, payments, issued>>
       \/ \E q \in PaymentId, u \in ProofId \ issued :
             /\ ConfirmMatches(q)
             /\ payments' = Paid(q, <<q, u>>)
             /\ issued' = issued \cup {u}
             /\ UNCHANGED <<households, pickups>>
    /\ UNCHANGED <<tx, locks, canceled>>

Begin(s) ==
    \/ \E p \in PickupId : StartComplete(s, p) \/ StartBill(s, p)
    \/ \E h \in HouseholdId : StartDelete(s, h)
    \/ \E ids \in SUBSET PickupId \ {{}} : StartSweep(s, ids)

Progress(s) ==
    \/ Connect(s)
    \/ CompleteUpdate(s) \/ InsertEntries(s) \/ InsertKeys(s)
    \/ DeleteRow(s) \/ CascadeRow(s) \/ SweepRow(s)
    \/ Commit(s)

TxNext ==
    \/ SingleStatement
    \/ \E s \in Session : Begin(s) \/ Progress(s) \/ GiveUp(s) \/ Interrupt(s)
                          \/ Fail(s) \/ DeadlockVictim(s)
    \/ ProcessDies

TxSpec == TxInit /\ [][TxNext]_txVars

\* A free lock goes to whoever has queued for it, and a connection that comes back to
\* one of those who wait, picked at random, before anybody new: nobody is passed over
\* for ever.  The detector runs again and again.  Nothing is assumed of clients, of
\* failures or of new requests.
TxFairness ==
    \A s \in Session : SF_txVars(Progress(s)) /\ WF_txVars(DeadlockVictim(s))

FairTxSpec == TxSpec /\ TxFairness

(***************************************************************************)
(* Types                                                                   *)
(***************************************************************************)
Scanning(op, at, Scope) ==
    [at : {at}, op : {op}, scope : Scope, next : PickupId, rest : SUBSET PickupId]
    \cup [at : {"commit"}, op : {op}, scope : Scope]

CompleteState ==
    [at : {"begin", "update", "insert", "keys", "commit"}, op : {"complete"},
     pickup : PickupId, payment : PaymentRow]

BillState ==
    [at : {"begin", "insert", "keys", "commit"}, op : {"bill"}, payment : PaymentRow]

DeleteState ==
    [at : {"begin", "delete"}, op : {"delete"}, household : HouseholdId]
    \cup Scanning("delete", "cascade", HouseholdId)

SweepState ==
    [at : {"begin"}, op : {"sweep"}, ids : SUBSET PickupId]
    \cup Scanning("sweep", "sweep", SUBSET PickupId)

TxState == {NoTx} \cup CompleteState \cup BillState \cup DeleteState \cup SweepState

\* The tables, the open transactions and their locks keep their types.
TxTypeOK ==
    /\ DbTypeOK
    /\ tx \in [Session -> TxState]
    /\ locks \in [Session -> SUBSET Lock]
    /\ canceled \subseteq Session

(***************************************************************************)
(* Properties                                                              *)
(***************************************************************************)
\* What an open transaction found stays true until it ends, whatever the others
\* do: the pickup it updates stays scheduled, nobody else has a claim on the
\* payment it inserts, the household and pickup its foreign keys name stay.
ChecksStillHold ==
    \A s \in Session :
        LET t == tx[s] IN
        /\ t.at \in {"insert", "keys", "commit"} /\ t.op = "complete" =>
              PickupIn(t.pickup, {"scheduled"})
        /\ t.at \in {"keys", "commit"} /\ t.op \in {"complete", "bill"} =>
              ~PaymentClash(t.payment)
        /\ t.at = "commit" /\ t.op \in {"complete", "bill"} =>
              t.payment.household \in households /\ PickupExists(t.payment.waste)
        /\ t.at = "commit" /\ t.op = "sweep" =>
              \A p \in Swept(s) : PickupIn(p, Cancellable)

\* Completions, payments and the worker's sweep take their locks in orders that fit
\* together: whenever sessions wait for one another in a circle, one of them is
\* deleting a household.  There is one sweep at a time, because one process runs one
\* worker; two processes could sweep at once, and two sweeps do deadlock.
DeadlockNeedsDelete ==
    \A S \in SUBSET Session : Stuck(S) => \E s \in S : tx[s].at = "cascade"

\* Every transaction ends and returns its connection, also one whose client has
\* gone, one that waits for a lock, and one that is part of a deadlock.
TransactionsEnd == \A s \in Session : tx[s].at # "idle" ~> tx[s].at = "idle"

=============================================================================
