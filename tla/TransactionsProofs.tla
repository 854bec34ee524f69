------------------------- MODULE TransactionsProofs -------------------------
(***************************************************************************)
(* Why the checks of an open transaction can be trusted until it commits,  *)
(* for any number of sessions, connections and rows.  Locks that exclude   *)
(* each other are never held by two sessions; the lock a transaction holds *)
(* on a row keeps the others from changing what the transaction found      *)
(* there; so each commit is an operation of the contract.                  *)
(***************************************************************************)
EXTENDS Transactions, DatabaseProofs

(***************************************************************************)
(* The inductive invariant                                                 *)
(***************************************************************************)
\* No two sessions hold locks that exclude each other.
Exclusive ==
    \A s, t \in Session : s # t =>
        \A k \in locks[s], l \in locks[t] : ~Conflict(k, l)

\* What a session has locked, by how far it has come.
HoldsLocks(s) ==
    LET t == tx[s] IN
    /\ t.at \in {"idle", "begin", "update", "delete"} => locks[s] = {}
    /\ t.at \in {"insert", "sweep"} => \A l \in locks[s] : l[1] = "noKeyUpdate"
    /\ t.at = "keys" => \A l \in locks[s] : l[1] \in {"noKeyUpdate", "entry"}
    /\ t.at \in {"insert", "keys", "commit"} /\ t.op = "complete" =>
          <<"noKeyUpdate", t.pickup>> \in locks[s]
    /\ t.at \in {"keys", "commit"} /\ t.op \in {"complete", "bill"} =>
          Entries(t.payment) \subseteq locks[s]
    /\ t.at = "commit" /\ t.op \in {"complete", "bill"} => Keys(t.payment) \subseteq locks[s]
    /\ t.at \in {"cascade", "commit"} /\ t.op = "delete" =>
          <<"update", t.scope>> \in locks[s]

\* The payment it is going to insert is right for its pickup.
Carries(s) ==
    LET t == tx[s] IN
    /\ t.at # "idle" /\ t.op \in {"complete", "bill"} => BillFits(t.payment)
    /\ t.at # "idle" /\ t.op = "complete" => t.payment.waste = t.pickup

\* What it found, and its locks protect.
Knows(s) ==
    LET t == tx[s] IN
    /\ t.at \in {"insert", "keys", "commit"} /\ t.op = "complete" =>
          PickupIn(t.pickup, {"scheduled"})
    /\ t.at \in {"keys", "commit"} /\ t.op \in {"complete", "bill"} =>
          ~PaymentClash(t.payment)
    /\ t.at = "commit" /\ t.op \in {"complete", "bill"} =>
          t.payment.household \in households /\ PickupExists(t.payment.waste)
    /\ t.at \in {"cascade", "commit"} /\ t.op = "delete" =>
          \A p \in PickupId : PickupExists(p) /\ pickups[p].household = t.scope =>
             \/ <<"update", p>> \in locks[s]
             \/ t.at = "cascade" /\ p \in t.rest \cup {t.next}
    /\ t.at \in {"sweep", "commit"} /\ t.op = "sweep" =>
          \A p \in PickupId : <<"noKeyUpdate", p>> \in locks[s] => PickupIn(p, Cancellable)

SessionInv(s) == HoldsLocks(s) /\ Carries(s) /\ Knows(s)

Sweeping(s) == tx[s].at # "idle" /\ tx[s].op = "sweep"

OneSweeper == \A s, t \in Session : Sweeping(s) /\ Sweeping(t) => s = t

\* Every pickup this model creates passes BR-03's check.
SafePickups == \A p \in PickupId : PickupExists(p) => pickups[p].safety

TxInv ==
    /\ TxTypeOK
    /\ TablesInv
    /\ SafePickups
    /\ Exclusive
    /\ OneSweeper
    /\ \A s \in Session : SessionInv(s)

(***************************************************************************)
(* Lemmas about the operators                                              *)
(***************************************************************************)
LEMMA ConflictKinds ==
    ASSUME NEW k, NEW l
    PROVE  Conflict(k, l) <=>
              /\ k[2] = l[2]
              /\ \/ k[1] = "keyShare" /\ l[1] = "update"
                 \/ k[1] = "update" /\ l[1] = "keyShare"
                 \/ k[1] = "noKeyUpdate" /\ l[1] \in {"noKeyUpdate", "update"}
                 \/ k[1] = "update" /\ l[1] \in {"noKeyUpdate", "update"}
                 \/ k[1] = "entry" /\ l[1] = "entry"
  BY DEF Conflict, Incompatible

\* The locals of a session, by the step it is about to take.
LEMMA StateCases ==
    ASSUME NEW x \in TxState
    PROVE  /\ x.at = "update" => x \in CompleteState
           /\ x.at \in {"insert", "keys"} => x \in CompleteState \cup BillState
           /\ x.at = "delete" => x \in [at : {"delete"}, op : {"delete"}, household : HouseholdId]
           /\ x.at = "cascade" => x \in Scanning("delete", "cascade", HouseholdId)
           /\ x.at = "sweep" => x \in Scanning("sweep", "sweep", SUBSET PickupId)
           /\ x.at \in {"begin", "commit"} /\ x.op = "complete" => x \in CompleteState
           /\ x.at \in {"begin", "commit"} /\ x.op = "bill" => x \in BillState
           /\ x.at = "begin" /\ x.op = "delete" =>
                 x \in [at : {"begin"}, op : {"delete"}, household : HouseholdId]
           /\ x.at = "begin" /\ x.op = "sweep" =>
                 x \in [at : {"begin"}, op : {"sweep"}, ids : SUBSET PickupId]
           /\ x.at = "commit" /\ x.op = "delete" => x.scope \in HouseholdId
           /\ x.at = "commit" /\ x.op = "sweep" => x.scope \in SUBSET PickupId
  BY DEF TxState, NoTx, CompleteState, BillState, DeleteState, SweepState, Scanning

\* A scan of many rows has one row next, or is over.
LEMMA DeleteScan ==
    ASSUME NEW h \in HouseholdId, NEW rest \in SUBSET PickupId,
           NEW u \in InSomeOrder("cascade", "delete", h, rest)
    PROVE  /\ u \in Scanning("delete", "cascade", HouseholdId)
           /\ u.op = "delete" /\ u.scope = h
           /\ \/ u.at = "commit" /\ rest = {}
              \/ u.at = "cascade" /\ rest = u.rest \cup {u.next}
  BY DEF InSomeOrder, Scanning

LEMMA SweepScan ==
    ASSUME NEW ids \in SUBSET PickupId, NEW rest \in SUBSET PickupId,
           NEW u \in InSomeOrder("sweep", "sweep", ids, rest)
    PROVE  /\ u \in Scanning("sweep", "sweep", SUBSET PickupId)
           /\ u.op = "sweep" /\ u.at \in {"sweep", "commit"}
  BY DEF InSomeOrder, Scanning

\* The locks a step takes are locks.
LEMMA WantedLocks ==
    ASSUME NEW s \in Session, tx[s] \in TxState
    PROVE  Wanted(s) \subseteq Lock
  <1>. USE DEF Lock, Resource
  <1>1. \A row \in PaymentRow : Entries(row) \subseteq Lock /\ Keys(row) \subseteq Lock
    BY DEF Entries, Keys, PaymentRow
  <1>2. CASE tx[s].at = "update"
    BY <1>2, StateCases DEF Wanted, CompleteState
  <1>3. CASE tx[s].at \in {"insert", "keys"}
    <2>1. tx[s].payment \in PaymentRow
      BY <1>3, StateCases DEF CompleteState, BillState
    <2>. QED BY <1>1, <1>3, <2>1 DEF Wanted
  <1>4. CASE tx[s].at = "delete"
    BY <1>4, StateCases DEF Wanted
  <1>5. CASE tx[s].at \in {"cascade", "sweep"}
    BY <1>5, StateCases DEF Wanted, Scanning
  <1>6. CASE tx[s].at \notin {"update", "insert", "keys", "delete", "cascade", "sweep"}
    BY <1>6 DEF Wanted
  <1>. QED BY <1>2, <1>3, <1>4, <1>5, <1>6

(***************************************************************************)
(* A step of one session that changes no table                             *)
(***************************************************************************)
LEMMA Frame ==
    ASSUME TxInv, UNCHANGED db,
           NEW s \in Session, NEW x \in TxState, NEW L \in SUBSET Lock,
           tx' = [tx EXCEPT ![s] = x], locks' = [locks EXCEPT ![s] = L],
           canceled' \subseteq Session,
           \A t \in Session : t # s => \A k \in L, l \in locks[t] : ~Conflict(k, l),
           x.at # "idle" /\ x.op = "sweep" =>
               Sweeping(s) \/ \A t \in Session : ~Sweeping(t),
           SessionInv(s)'
    PROVE  TxInv'
  <1>. USE DEF TxInv, TxTypeOK
  <1>1. /\ tx'[s] = x /\ locks'[s] = L
        /\ \A t \in Session : t # s => tx'[t] = tx[t] /\ locks'[t] = locks[t]
    OBVIOUS
  <1>2. TxTypeOK'
    BY DEF db, DbTypeOK
  <1>3. TablesInv' /\ SafePickups'
    <2>1. NoEffect
      BY DEF NoEffect, db, tables
    <2>. QED BY <2>1, EffectTables DEF Effect, SafePickups, PickupExists, db
  <1>4. Exclusive'
    <2>1. \A k, l : Conflict(k, l) <=> Conflict(l, k)
      BY ConflictKinds
    <2>2. SUFFICES ASSUME NEW a \in Session, NEW b \in Session, a # b,
                          NEW k \in locks'[a], NEW l \in locks'[b]
                   PROVE  ~Conflict(k, l)
      BY DEF Exclusive, Conflict
    <2>3. CASE a = s
      BY <1>1, <2>2, <2>3
    <2>4. CASE b = s
      BY <1>1, <2>1, <2>2, <2>4
    <2>5. CASE a # s /\ b # s
      BY <1>1, <2>2, <2>5 DEF Exclusive
    <2>. QED BY <2>3, <2>4, <2>5
  <1>5. OneSweeper'
    BY <1>1 DEF OneSweeper, Sweeping
  <1>6. ASSUME NEW t \in Session, t # s PROVE SessionInv(t)'
    <2>1. SessionInv(t) /\ tx'[t] = tx[t] /\ locks'[t] = locks[t]
      BY <1>1, <1>6
    <2>. QED BY <2>1 DEF SessionInv, HoldsLocks, Carries, Knows, BillFits, PickupIn, PickupExists,
                         PaymentClash, PaymentExists, db
  <1>. QED BY <1>2, <1>3, <1>4, <1>5, <1>6

\* The session goes on with the locks it has, or ends and gives them up.
LEMMA KeepsLocks ==
    ASSUME TxInv, NEW s \in Session, NEW x \in TxState,
           tx' = [tx EXCEPT ![s] = x], UNCHANGED <<db, locks, canceled>>,
           x.at # "idle" /\ x.op = "sweep" =>
               Sweeping(s) \/ \A t \in Session : ~Sweeping(t),
           SessionInv(s)'
    PROVE  TxInv'
  <1>1. locks' = [locks EXCEPT ![s] = locks[s]] /\ locks[s] \in SUBSET Lock
    BY DEF TxInv, TxTypeOK
  <1>2. \A t \in Session : t # s => \A k \in locks[s], l \in locks[t] : ~Conflict(k, l)
    BY DEF TxInv, Exclusive
  <1>. QED BY <1>1, <1>2, Frame DEF TxInv, TxTypeOK

LEMMA IdleInv ==
    ASSUME NEW s \in Session, tx'[s] = NoTx, locks'[s] = {}
    PROVE  SessionInv(s)'
  BY DEF SessionInv, HoldsLocks, Carries, Knows, NoTx

LEMMA RollBackInv ==
    ASSUME TxInv, NEW s \in Session, RollBack(s)
    PROVE  TxInv'
  <1>1. /\ tx' = [tx EXCEPT ![s] = NoTx]
        /\ locks' = [locks EXCEPT ![s] = {}]
        /\ canceled' \subseteq Session
        /\ UNCHANGED db
    BY DEF RollBack, End, TxInv, TxTypeOK
  <1>2. SessionInv(s)'
    BY <1>1, IdleInv DEF TxInv, TxTypeOK
  <1>3. NoTx \in TxState /\ NoTx.at = "idle"
    BY DEF TxState, NoTx
  <1>4. \A t \in Session : t # s => \A k \in {}, l \in locks[t] : ~Conflict(k, l)
    OBVIOUS
  <1>5. {} \in SUBSET Lock
    OBVIOUS
  <1>6. NoTx.at # "idle" /\ NoTx.op = "sweep" =>
           Sweeping(s) \/ \A t \in Session : ~Sweeping(t)
    BY <1>3
  <1>. QED BY <1>1, <1>2, <1>3, <1>4, <1>5, <1>6, Frame

\* The session goes on with the locks it was granted.
LEMMA TakeInv ==
    ASSUME TxInv, NEW s \in Session, NEW x \in TxState, Granted(s), Take(s, x),
           x.op = "sweep" => Sweeping(s),
           SessionInv(s)'
    PROVE  TxInv'
  <1>1. /\ tx' = [tx EXCEPT ![s] = x]
        /\ locks' = [locks EXCEPT ![s] = locks[s] \cup Wanted(s)]
        /\ UNCHANGED <<db, canceled>>
    BY DEF Take
  <1>2. locks[s] \cup Wanted(s) \in SUBSET Lock
    BY WantedLocks DEF TxInv, TxTypeOK
  <1>3. \A t \in Session : t # s =>
           \A k \in locks[s] \cup Wanted(s), l \in locks[t] : ~Conflict(k, l)
    BY DEF TxInv, Exclusive, Granted, WaitsFor
  <1>. QED BY <1>1, <1>2, <1>3, Frame DEF TxInv, TxTypeOK

(***************************************************************************)
(* Starting                                                                *)
(***************************************************************************)
\* A request that waits for a connection has locked nothing and found nothing yet.
LEMMA StartInv ==
    ASSUME TxInv, NEW s \in Session, NEW x \in TxState, x.at = "begin", Start(s, x),
           x.op \in {"complete", "bill"} => BillFits(x.payment),
           x.op = "complete" => x.payment.waste = x.pickup,
           x.op = "sweep" => \A t \in Session : ~Sweeping(t)
    PROVE  TxInv'
  <1>1. /\ tx' = [tx EXCEPT ![s] = x]
        /\ UNCHANGED <<db, locks, canceled>>
        /\ tx[s].at = "idle"
    BY DEF Start
  <1>2. tx'[s] = x /\ locks'[s] = {}
    BY <1>1 DEF TxInv, TxTypeOK, SessionInv, HoldsLocks
  <1>3. ASSUME x.op \in {"complete", "bill"} PROVE BillFits(x.payment)'
    BY <1>1, <1>3 DEF BillFits, PickupExists, db
  <1>4. SessionInv(s)'
    BY <1>2, <1>3 DEF SessionInv, HoldsLocks, Carries, Knows
  <1>. QED BY <1>1, <1>4, KeepsLocks

LEMMA NewBillFits ==
    ASSUME DbTypeOK, TablesInv, NEW p \in PickupId, PickupExists(p)
    PROVE  LET bill == NewPayment(pickups[p].household, p, pickups[p].type) IN
           bill \in PaymentRow /\ BillFits(bill) /\ bill.waste = p
  <1>1. pickups[p] \in PickupRow
    BY DEF DbTypeOK, PickupExists
  <1>2. NewPayment(pickups[p].household, p, pickups[p].type) \in PaymentRow
    BY <1>1, NewPaymentType DEF PickupRow
  <1>. QED BY <1>2 DEF NewPayment, BillFits, TablesInv, KeysIssued

LEMMA BeginInv ==
    ASSUME TxInv, NEW s \in Session, Begin(s)
    PROVE  TxInv'
  <1>. USE DEF TxInv, TxTypeOK
  <1>1. ASSUME NEW p \in PickupId, StartComplete(s, p) PROVE TxInv'
    <2>1. PICK x : /\ x = [at |-> "begin", op |-> "complete", pickup |-> p, payment |->
                           NewPayment(pickups[p].household, p, pickups[p].type)]
                   /\ Start(s, x)
                   /\ PickupExists(p)
      BY <1>1 DEF StartComplete, PickupIn
    <2>2. x \in TxState /\ BillFits(x.payment) /\ x.payment.waste = p
      BY <2>1, NewBillFits DEF TxState, CompleteState
    <2>. QED BY <2>1, <2>2, StartInv
  <1>2. ASSUME NEW p \in PickupId, StartBill(s, p) PROVE TxInv'
    <2>1. PICK x : /\ x = [at |-> "begin", op |-> "bill", payment |->
                           NewPayment(pickups[p].household, p, pickups[p].type)]
                   /\ Start(s, x)
                   /\ PickupExists(p)
      BY <1>2 DEF StartBill
    <2>2. x \in TxState /\ BillFits(x.payment)
      BY <2>1, NewBillFits DEF TxState, BillState
    <2>. QED BY <2>1, <2>2, StartInv
  <1>3. ASSUME NEW h \in HouseholdId, StartDelete(s, h) PROVE TxInv'
    <2>1. PICK x : /\ x = [at |-> "begin", op |-> "delete", household |-> h]
                   /\ Start(s, x)
      BY <1>3 DEF StartDelete
    <2>2. x \in TxState
      BY <2>1 DEF TxState, DeleteState
    <2>. QED BY <2>1, <2>2, StartInv
  <1>4. ASSUME NEW ids \in SUBSET PickupId, StartSweep(s, ids) PROVE TxInv'
    <2>1. PICK x : /\ x = [at |-> "begin", op |-> "sweep", ids |-> ids]
                   /\ Start(s, x)
      BY <1>4 DEF StartSweep
    <2>2. x \in TxState
      BY <2>1 DEF TxState, SweepState
    <2>3. \A t \in Session : ~Sweeping(t)
      BY <1>4 DEF StartSweep, Sweeping
    <2>. QED BY <2>1, <2>2, <2>3, StartInv
  <1>. QED BY <1>1, <1>2, <1>3, <1>4 DEF Begin

LEMMA ConnectInv ==
    ASSUME TxInv, NEW s \in Session, Connect(s)
    PROVE  TxInv'
  <1>. USE DEF TxInv, TxTypeOK
  <1>1. /\ tx[s] \in TxState /\ tx[s].at = "begin" /\ locks[s] = {}
        /\ UNCHANGED <<db, locks, canceled>>
        /\ SessionInv(s)
    BY DEF Connect, SessionInv, HoldsLocks
  <1>2. \A row : BillFits(row) => BillFits(row)'
    BY <1>1 DEF BillFits, PickupExists, db
  <1>3. CASE tx[s].op = "complete"
    <2>1. PICK x : x = [tx[s] EXCEPT !.at = "update"] /\ tx' = [tx EXCEPT ![s] = x]
      BY <1>3 DEF Connect
    <2>2. /\ x \in TxState /\ x.at = "update" /\ x.op = "complete"
          /\ x.payment = tx[s].payment /\ x.pickup = tx[s].pickup
      BY <1>1, <1>3, <2>1, StateCases DEF CompleteState, TxState
    <2>3. SessionInv(s)'
      BY <1>1, <1>2, <1>3, <2>1, <2>2 DEF SessionInv, HoldsLocks, Carries, Knows
    <2>. QED BY <1>1, <2>1, <2>2, <2>3, KeepsLocks
  <1>4. CASE tx[s].op = "bill"
    <2>1. PICK x : x = [tx[s] EXCEPT !.at = "insert"] /\ tx' = [tx EXCEPT ![s] = x]
      BY <1>4 DEF Connect
    <2>2. /\ x \in TxState /\ x.at = "insert" /\ x.op = "bill"
          /\ x.payment = tx[s].payment
      BY <1>1, <1>4, <2>1, StateCases DEF BillState, TxState
    <2>3. SessionInv(s)'
      BY <1>1, <1>2, <1>4, <2>1, <2>2 DEF SessionInv, HoldsLocks, Carries, Knows
    <2>. QED BY <1>1, <2>1, <2>2, <2>3, KeepsLocks
  <1>5. CASE tx[s].op = "delete"
    <2>1. PICK x : x = [tx[s] EXCEPT !.at = "delete"] /\ tx' = [tx EXCEPT ![s] = x]
      BY <1>5 DEF Connect
    <2>2. x \in TxState /\ x.at = "delete" /\ x.op = "delete"
      BY <1>1, <1>5, <2>1, StateCases DEF DeleteState, TxState
    <2>3. SessionInv(s)'
      BY <1>1, <2>1, <2>2 DEF SessionInv, HoldsLocks, Carries, Knows
    <2>. QED BY <1>1, <2>1, <2>2, <2>3, KeepsLocks
  <1>6. CASE tx[s].op = "sweep"
    <2>1. PICK x \in InSomeOrder("sweep", "sweep", tx[s].ids, tx[s].ids) :
             tx' = [tx EXCEPT ![s] = x]
      BY <1>6 DEF Connect
    <2>2. tx[s].ids \in SUBSET PickupId
      BY <1>1, <1>6, StateCases
    <2>3. /\ x \in Scanning("sweep", "sweep", SUBSET PickupId)
          /\ x.op = "sweep" /\ x.at \in {"sweep", "commit"}
      BY <2>2, SweepScan
    <2>4. SessionInv(s)'
      BY <1>1, <2>1, <2>3 DEF SessionInv, HoldsLocks, Carries, Knows
    <2>5. x \in TxState /\ Sweeping(s)
      BY <1>1, <1>6, <2>3 DEF TxState, SweepState, Sweeping
    <2>. QED BY <1>1, <2>1, <2>4, <2>5, KeepsLocks
  <1>7. tx[s].op \in {"complete", "bill", "delete", "sweep"}
    BY DEF Connect
  <1>. QED BY <1>3, <1>4, <1>5, <1>6, <1>7

(***************************************************************************)
(* Locking                                                                 *)
(***************************************************************************)
LEMMA CompleteUpdateInv ==
    ASSUME TxInv, NEW s \in Session, CompleteUpdate(s), CompleteMatches(tx[s].pickup)
    PROVE  TxInv'
  <1>. USE DEF TxInv, TxTypeOK
  <1>1. /\ tx[s] \in CompleteState /\ tx[s].at = "update" /\ SessionInv(s) /\ Granted(s)
        /\ Wanted(s) = {<<"noKeyUpdate", tx[s].pickup>>}
    BY StateCases DEF CompleteUpdate, Wanted
  <1>2. PICK x : x = [tx[s] EXCEPT !.at = "insert"] /\ Take(s, x)
    BY DEF CompleteUpdate
  <1>3. /\ x \in CompleteState /\ x.at = "insert" /\ x.op = "complete"
        /\ x.payment = tx[s].payment /\ x.pickup = tx[s].pickup
    BY <1>1, <1>2 DEF CompleteState
  <1>4. /\ tx'[s] = x /\ locks'[s] = {<<"noKeyUpdate", tx[s].pickup>>} /\ UNCHANGED db
    BY <1>1, <1>2 DEF Take, SessionInv, HoldsLocks
  <1>5. HoldsLocks(s)' /\ Carries(s)'
    BY <1>1, <1>3, <1>4 DEF SessionInv, HoldsLocks, Carries, BillFits, PickupExists, db,
                            CompleteState
  <1>6. Knows(s)'
    BY <1>3, <1>4 DEF Knows, CompleteMatches, PickupIn, PickupExists, db
  <1>. QED BY <1>1, <1>2, <1>3, <1>5, <1>6, TakeInv DEF SessionInv, TxState

LEMMA InsertEntriesInv ==
    ASSUME TxInv, NEW s \in Session, InsertEntries(s), ~PaymentClash(tx[s].payment)
    PROVE  TxInv'
  <1>. USE DEF TxInv, TxTypeOK
  <1>1. /\ tx[s] \in CompleteState \cup BillState /\ tx[s].at = "insert"
        /\ SessionInv(s) /\ Granted(s)
        /\ Wanted(s) = Entries(tx[s].payment)
    BY StateCases DEF InsertEntries, Wanted
  <1>2. PICK x : x = [tx[s] EXCEPT !.at = "keys"] /\ Take(s, x)
    BY DEF InsertEntries
  <1>3. /\ x \in CompleteState \cup BillState /\ x.at = "keys" /\ x.op = tx[s].op
        /\ x.payment = tx[s].payment
        /\ x.op = "complete" => x.pickup = tx[s].pickup
        /\ x.op \in {"complete", "bill"}
    BY <1>1, <1>2 DEF CompleteState, BillState
  <1>4. /\ tx'[s] = x /\ locks'[s] = locks[s] \cup Entries(x.payment) /\ UNCHANGED db
    BY <1>1, <1>2, <1>3 DEF Take
  <1>5. \A l \in Entries(x.payment) : l[1] = "entry"
    BY DEF Entries
  <1>6. HoldsLocks(s)'
    BY <1>1, <1>3, <1>4, <1>5 DEF SessionInv, HoldsLocks
  <1>7. Carries(s)'
    BY <1>1, <1>3, <1>4 DEF SessionInv, Carries, BillFits, PickupExists, db
  <1>8. Knows(s)'
    BY <1>1, <1>3, <1>4 DEF SessionInv, Knows, PickupIn, PickupExists, PaymentClash, PaymentExists, db
  <1>9. x \in TxState /\ x.op # "sweep"
    BY <1>3 DEF TxState
  <1>. QED BY <1>1, <1>2, <1>6, <1>7, <1>8, <1>9, TakeInv DEF SessionInv

LEMMA InsertKeysInv ==
    ASSUME TxInv, NEW s \in Session, InsertKeys(s),
           tx[s].payment.household \in households, PickupExists(tx[s].payment.waste)
    PROVE  TxInv'
  <1>. USE DEF TxInv, TxTypeOK
  <1>1. /\ tx[s] \in CompleteState \cup BillState /\ tx[s].at = "keys"
        /\ SessionInv(s) /\ Granted(s)
        /\ Wanted(s) = Keys(tx[s].payment)
    BY StateCases DEF InsertKeys, Wanted
  <1>2. PICK x : x = [tx[s] EXCEPT !.at = "commit"] /\ Take(s, x)
    BY DEF InsertKeys
  <1>3. /\ x \in CompleteState \cup BillState /\ x.at = "commit" /\ x.op = tx[s].op
        /\ x.payment = tx[s].payment
        /\ x.op = "complete" => x.pickup = tx[s].pickup
        /\ x.op \in {"complete", "bill"}
    BY <1>1, <1>2 DEF CompleteState, BillState
  <1>4. /\ tx'[s] = x /\ locks'[s] = locks[s] \cup Keys(x.payment) /\ UNCHANGED db
    BY <1>1, <1>2, <1>3 DEF Take
  <1>6. HoldsLocks(s)'
    BY <1>1, <1>3, <1>4 DEF SessionInv, HoldsLocks
  <1>7. Carries(s)'
    BY <1>1, <1>3, <1>4 DEF SessionInv, Carries, BillFits, PickupExists, db
  <1>8. Knows(s)'
    BY <1>1, <1>3, <1>4 DEF SessionInv, Knows, PickupIn, PickupExists, PaymentClash, PaymentExists, db
  <1>9. x \in TxState /\ x.op # "sweep"
    BY <1>3 DEF TxState
  <1>. QED BY <1>1, <1>2, <1>6, <1>7, <1>8, <1>9, TakeInv DEF SessionInv

\* The deletion locks the household first, so no pickup joins those it has seen.
LEMMA DeleteRowInv ==
    ASSUME TxInv, NEW s \in Session, DeleteRow(s), tx[s].household \in households
    PROVE  TxInv'
  <1>. USE DEF TxInv, TxTypeOK
  <1>1. /\ tx[s].household \in HouseholdId /\ tx[s].at = "delete"
        /\ SessionInv(s) /\ Granted(s)
        /\ Wanted(s) = {<<"update", tx[s].household>>}
    BY StateCases DEF DeleteRow, Wanted
  <1>2. PICK h, rest : /\ h = tx[s].household
                       /\ rest = {p \in PickupId : PickupExists(p) /\ pickups[p].household = h}
    OBVIOUS
  <1>3. PICK x \in InSomeOrder("cascade", "delete", h, rest) : Take(s, x)
    BY <1>2 DEF DeleteRow
  <1>4. /\ x \in Scanning("delete", "cascade", HouseholdId)
        /\ x.op = "delete" /\ x.scope = h
        /\ \/ x.at = "commit" /\ rest = {}
           \/ x.at = "cascade" /\ rest = x.rest \cup {x.next}
    BY <1>1, <1>2, <1>3, DeleteScan
  <1>5. /\ tx'[s] = x /\ locks'[s] = {<<"update", h>>} /\ UNCHANGED db
    BY <1>1, <1>2, <1>3 DEF Take, SessionInv, HoldsLocks
  <1>6. HoldsLocks(s)' /\ Carries(s)'
    BY <1>4, <1>5 DEF HoldsLocks, Carries
  <1>7. Knows(s)'
    BY <1>2, <1>4, <1>5 DEF Knows, PickupExists, db
  <1>8. x \in TxState
    BY <1>4 DEF TxState, DeleteState
  <1>. QED BY <1>1, <1>3, <1>4, <1>6, <1>7, <1>8, TakeInv DEF SessionInv

LEMMA CascadeRowInv ==
    ASSUME TxInv, NEW s \in Session, CascadeRow(s)
    PROVE  TxInv'
  <1>. USE DEF TxInv, TxTypeOK
  <1>1. /\ tx[s] \in Scanning("delete", "cascade", HouseholdId) /\ tx[s].at = "cascade"
        /\ tx[s].op = "delete" /\ tx[s].scope \in HouseholdId
        /\ tx[s].rest \in SUBSET PickupId
        /\ SessionInv(s) /\ Granted(s)
        /\ Wanted(s) = {<<"update", tx[s].next>>}
    BY StateCases DEF CascadeRow, Wanted, Scanning
  <1>2. PICK x \in InSomeOrder("cascade", "delete", tx[s].scope, tx[s].rest) : Take(s, x)
    BY DEF CascadeRow
  <1>3. /\ x \in Scanning("delete", "cascade", HouseholdId)
        /\ x.op = "delete" /\ x.scope = tx[s].scope
        /\ \/ x.at = "commit" /\ tx[s].rest = {}
           \/ x.at = "cascade" /\ tx[s].rest = x.rest \cup {x.next}
    BY <1>1, <1>2, DeleteScan
  <1>4. /\ tx'[s] = x /\ locks'[s] = locks[s] \cup {<<"update", tx[s].next>>}
        /\ UNCHANGED db
    BY <1>1, <1>2 DEF Take
  <1>5. HoldsLocks(s)' /\ Carries(s)'
    BY <1>1, <1>3, <1>4 DEF SessionInv, HoldsLocks, Carries
  <1>6. Knows(s)'
    BY <1>1, <1>3, <1>4 DEF SessionInv, Knows, PickupExists, db
  <1>7. x \in TxState
    BY <1>3 DEF TxState, DeleteState
  <1>. QED BY <1>1, <1>2, <1>3, <1>5, <1>6, <1>7, TakeInv DEF SessionInv

LEMMA SweepRowInv ==
    ASSUME TxInv, NEW s \in Session, SweepRow(s)
    PROVE  TxInv'
  <1>. USE DEF TxInv, TxTypeOK
  <1>1. /\ tx[s] \in Scanning("sweep", "sweep", SUBSET PickupId) /\ tx[s].at = "sweep"
        /\ tx[s].op = "sweep" /\ tx[s].scope \in SUBSET PickupId
        /\ tx[s].rest \in SUBSET PickupId
        /\ SessionInv(s) /\ Granted(s)
    BY StateCases DEF SweepRow, Scanning
  <1>2. PICK x \in InSomeOrder("sweep", "sweep", tx[s].scope, tx[s].rest) : Take(s, x)
    BY DEF SweepRow
  <1>3. /\ x \in Scanning("sweep", "sweep", SUBSET PickupId)
        /\ x.op = "sweep" /\ x.at \in {"sweep", "commit"}
    BY <1>1, <1>2, SweepScan
  <1>4. \A l \in Wanted(s) : l = <<"noKeyUpdate", tx[s].next>> /\ CancelMatches(tx[s].next)
    BY <1>1 DEF Wanted
  <1>5. tx'[s] = x /\ locks'[s] = locks[s] \cup Wanted(s) /\ UNCHANGED db
    BY <1>2 DEF Take
  <1>6. HoldsLocks(s)' /\ Carries(s)'
    BY <1>1, <1>3, <1>4, <1>5 DEF SessionInv, HoldsLocks, Carries
  <1>7. Knows(s)'
    BY <1>1, <1>3, <1>4, <1>5
       DEF SessionInv, Knows, CancelMatches, PickupIn, PickupExists, db
  <1>8. x \in TxState /\ Sweeping(s)
    BY <1>1, <1>3 DEF TxState, SweepState, Sweeping
  <1>. QED BY <1>1, <1>2, <1>6, <1>7, <1>8, TakeInv DEF SessionInv

(***************************************************************************)
(* Committing: what the locks of a session spare it from                   *)
(***************************************************************************)
Claimed(w, h) ==
    \E q \in PaymentId :
        /\ PaymentExists(q)
        /\ \/ payments[q].waste = w
           \/ payments[q].household = h /\ payments[q].status = "pending"

\* The step leaves alone what session t has locked.
Spares(t) ==
    /\ \A p \in PickupId : <<"noKeyUpdate", p>> \in locks[t] /\ PickupExists(p) =>
          pickups'[p] = pickups[p]
    /\ \A p \in PickupId : <<"keyShare", p>> \in locks[t] /\ PickupExists(p) => PickupExists(p)'
    /\ \A h : <<"keyShare", h>> \in locks[t] /\ h \in households => h \in households'
    /\ \A w, h : {<<"entry", <<"waste", w>>>>, <<"entry", <<"open", h>>>>} \subseteq locks[t]
                 /\ ~Claimed(w, h) => ~Claimed(w, h)'
    /\ \A h : <<"update", h>> \in locks[t] =>
          \A p \in PickupId : PickupExists(p)' /\ pickups'[p].household = h =>
             PickupExists(p) /\ pickups[p].household = h

\* So what t found stays true.
LEMMA SparesKnows ==
    ASSUME TxTypeOK, RowsKept, NEW t \in Session, SessionInv(t), Spares(t),
           tx'[t] = tx[t], locks'[t] = locks[t]
    PROVE  SessionInv(t)'
  <1>1. PICK x \in TxState : x = tx[t]
    BY DEF TxTypeOK
  <1>2. tx'[t] = x /\ HoldsLocks(t) /\ Carries(t) /\ Knows(t)
    BY <1>1 DEF SessionInv
  <1>3. HoldsLocks(t)'
    BY <1>1, <1>2 DEF HoldsLocks
  <1>4. Carries(t)'
    <2>1. CASE x.at # "idle" /\ x.op \in {"complete", "bill"}
      <3>1. x.payment \in PaymentRow
        BY <2>1 DEF TxState, NoTx, CompleteState, BillState, DeleteState, SweepState, Scanning
      <3>2. BillFits(x.payment) /\ x.payment.waste \in PickupId \cap issued
        BY <1>1, <1>2, <2>1, <3>1 DEF Carries, BillFits, PaymentRow
      <3>3. BillFits(x.payment)'
        BY <3>2 DEF BillFits, RowsKept
      <3>. QED BY <1>1, <1>2, <3>3 DEF Carries
    <2>2. CASE ~(x.at # "idle" /\ x.op \in {"complete", "bill"})
      BY <1>2, <2>2 DEF Carries
    <2>. QED BY <2>1, <2>2
  <1>5. ASSUME x.at \in {"insert", "keys", "commit"}, x.op = "complete"
        PROVE  PickupIn(x.pickup, {"scheduled"})'
    <2>1. x.pickup \in PickupId
      BY <1>5, StateCases DEF CompleteState, BillState
    <2>. QED BY <1>1, <1>2, <1>5, <2>1 DEF HoldsLocks, Knows, Spares, PickupIn, PickupExists
  <1>6. ASSUME x.at \in {"keys", "commit"}, x.op \in {"complete", "bill"}
        PROVE  ~PaymentClash(x.payment)'
    <2>1. ~Claimed(x.payment.waste, x.payment.household)
      BY <1>1, <1>2, <1>6 DEF Knows, PaymentClash, Claimed
    <2>2. ~Claimed(x.payment.waste, x.payment.household)'
      <3>1. PICK w, h : w = x.payment.waste /\ h = x.payment.household
        OBVIOUS
      <3>2. {<<"entry", <<"waste", w>>>>, <<"entry", <<"open", h>>>>} \subseteq locks[t]
        BY <1>1, <1>2, <1>6, <3>1 DEF HoldsLocks, Entries
      <3>3. ~Claimed(w, h)'
        BY <2>1, <3>1, <3>2 DEF Spares
      <3>. QED BY <3>1, <3>3
    <2>. QED BY <2>2 DEF PaymentClash, Claimed
  <1>7. ASSUME x.at = "commit", x.op \in {"complete", "bill"}
        PROVE  x.payment.household \in households' /\ PickupExists(x.payment.waste)'
    <2>1. x.payment \in PaymentRow
      BY <1>7, StateCases DEF CompleteState, BillState
    <2>. QED BY <1>1, <1>2, <1>7, <2>1 DEF HoldsLocks, Knows, Spares, Keys, PaymentRow
  <1>8. ASSUME x.at \in {"cascade", "commit"}, x.op = "delete", NEW p \in PickupId,
               PickupExists(p)', pickups'[p].household = x.scope
        PROVE  \/ <<"update", p>> \in locks[t]
               \/ x.at = "cascade" /\ p \in x.rest \cup {x.next}
    BY <1>1, <1>2, <1>8 DEF HoldsLocks, Knows, Spares
  <1>9. ASSUME x.at \in {"sweep", "commit"}, x.op = "sweep", NEW p \in PickupId,
               <<"noKeyUpdate", p>> \in locks[t]
        PROVE  PickupIn(p, Cancellable)'
    BY <1>1, <1>2, <1>9 DEF Knows, Spares, PickupIn, PickupExists
  <1>10. Knows(t)'
    BY <1>2, <1>5, <1>6, <1>7, <1>8, <1>9 DEF Knows
  <1>. QED BY <1>3, <1>4, <1>10 DEF SessionInv

\* A step on rows that t has not locked, and that its locks would not admit.
LEMMA EffectsSpare ==
    ASSUME DbTypeOK, TablesInv, NEW t \in Session
    PROVE  /\ \A p \in PickupId, h \in HouseholdId, type \in Types, s \in BOOLEAN :
                 Inserts(p, h, type, s) /\ <<"update", h>> \notin locks[t] => Spares(t)
           /\ \A p \in PickupId, d \in PickupDate :
                 Schedules(p, d) /\ <<"noKeyUpdate", p>> \notin locks[t] => Spares(t)
           /\ \A P \in SUBSET PickupId :
                 Cancels(P) /\ (\A p \in P : <<"noKeyUpdate", p>> \notin locks[t]) => Spares(t)
           /\ \A q \in PaymentId, u \in ProofId : Pays(q, u) => Spares(t)
           /\ \A h \in HouseholdId : CreateHousehold(h) => Spares(t)
  <1>. USE DEF Spares, DbTypeOK, PickupExists, PaymentExists, Claimed
  <1>1. ASSUME NEW p \in PickupId, NEW h \in HouseholdId, NEW type \in Types, NEW s \in BOOLEAN,
               Inserts(p, h, type, s), <<"update", h>> \notin locks[t]
        PROVE  Spares(t)
    <2>1. pickups[p] = NoRow
      BY <1>1 DEF Inserts, InsertPickup, TablesInv, KeysIssued
    <2>. QED BY <1>1, <2>1 DEF Inserts, InsertPickup
  <1>2. ASSUME NEW p \in PickupId, NEW d \in PickupDate, Schedules(p, d),
               <<"noKeyUpdate", p>> \notin locks[t]
        PROVE  Spares(t)
    <2>1. pickups[p] \in PickupRow /\ [pickups[p] EXCEPT !.status = "scheduled", !.date = d] \in PickupRow
      BY <1>2 DEF Schedules, ScheduleMatches, PickupIn, PickupRow, PickupStatus
    <2>2. \A x \in PickupId :
             /\ PickupExists(x)' <=> PickupExists(x)
             /\ PickupExists(x) => pickups'[x].household = pickups[x].household
             /\ x # p => pickups'[x] = pickups[x]
      BY <1>2, <2>1, NoRowAssumption
         DEF Schedules, ScheduleMatches, PickupIn, Scheduled, PickupRow
    <2>. QED BY <1>2, <2>2 DEF Schedules
  <1>3. ASSUME NEW P \in SUBSET PickupId, Cancels(P),
               \A p \in P : <<"noKeyUpdate", p>> \notin locks[t]
        PROVE  Spares(t)
    <2>1. \A p \in PickupId : PickupExists(p)' /\ p \in P =>
             PickupExists(p) /\ pickups'[p].household = pickups[p].household
      BY <1>3 DEF Cancels, CancelMatches, PickupIn, WithStatus, PickupRow
    <2>2. \A p \in P : PickupExists(p)'
      BY <1>3, NoRowAssumption DEF Cancels, CancelMatches, PickupIn, WithStatus, PickupRow,
                                   PickupStatus
    <2>. QED BY <1>3, <2>1, <2>2 DEF Cancels, WithStatus
  <1>4. ASSUME NEW q \in PaymentId, NEW u \in ProofId, Pays(q, u)
        PROVE  Spares(t)
    BY <1>4 DEF Pays, Paid, ConfirmMatches, PaymentRow
  <1>5. ASSUME NEW h \in HouseholdId, CreateHousehold(h)
        PROVE  Spares(t)
    BY <1>5 DEF CreateHousehold
  <1>. HIDE DEF Spares, DbTypeOK, PickupExists, PaymentExists, Claimed
  <1>. QED BY <1>1, <1>2, <1>3, <1>4, <1>5

LEMMA BillSpares ==
    ASSUME DbTypeOK, TablesInv, NEW t \in Session, NEW q \in PaymentId, NEW bill \in PaymentRow,
           Bills(q, bill), \A l \in Entries(bill) : l \notin locks[t],
           \/ UNCHANGED pickups
           \/ /\ pickups' = WithStatus({bill.waste}, "completed")
              /\ <<"noKeyUpdate", bill.waste>> \notin locks[t]
    PROVE  Spares(t)
  <1>1. /\ payments' = [payments EXCEPT ![q] = bill]
        /\ households' = households
        /\ bill.waste \in PickupId
        /\ PickupExists(bill.waste)
    BY DEF Bills, InsertPayment, PaymentInsertError, PaymentRow
  <1>2. ASSUME NEW w, NEW h, ~Claimed(w, h), Claimed(w, h)',
               {<<"entry", <<"waste", w>>>>, <<"entry", <<"open", h>>>>} \subseteq locks[t]
        PROVE  FALSE
    BY <1>1, <1>2 DEF Claimed, Entries, PaymentExists, DbTypeOK
  <1>3. \A p \in PickupId :
           /\ PickupExists(p)' <=> PickupExists(p)
           /\ PickupExists(p) => pickups'[p].household = pickups[p].household
           /\ <<"noKeyUpdate", p>> \in locks[t] => pickups'[p] = pickups[p]
    BY <1>1, NoRowAssumption DEF WithStatus, PickupExists, DbTypeOK, PickupRow, PickupStatus
  <1>. QED BY <1>1, <1>2, <1>3 DEF Spares

LEMMA DeleteSpares ==
    ASSUME DbTypeOK, NEW t \in Session, NEW h \in HouseholdId, DeleteHousehold(h),
           <<"keyShare", h>> \notin locks[t],
           \A p \in PickupId : PickupExists(p) /\ pickups[p].household = h =>
              <<"noKeyUpdate", p>> \notin locks[t] /\ <<"keyShare", p>> \notin locks[t]
    PROVE  Spares(t)
  BY DEF DeleteHousehold, PickupsWithout, PaymentsWithout, Spares, DbTypeOK, PickupExists,
         PaymentExists, Claimed

\* A step of the tables that spares every session it does not end keeps the invariant.
LEMMA EffectInv ==
    ASSUME TxInv, Effect,
           issued' \subseteq HouseholdId \cup PickupId \cup PaymentId \cup ProofId,
           \A p \in PickupId : PickupExists(p)' => pickups'[p].safety,
           canceled' \subseteq Session,
           tx' \in [Session -> TxState], locks' \in [Session -> SUBSET Lock],
           \A t \in Session : \/ tx'[t] = NoTx /\ locks'[t] = {}
                              \/ tx'[t] = tx[t] /\ locks'[t] = locks[t] /\ Spares(t)
    PROVE  TxInv'
  <1>. USE DEF TxInv
  <1>1. DbTypeOK
    BY DEF TxTypeOK
  <1>2. DbTypeOK' /\ TablesInv' /\ RowsKept
    BY <1>1, EffectTypes, EffectTables, EffectKeepsRows
  <1>3. TxTypeOK' /\ SafePickups'
    BY <1>2 DEF TxTypeOK, SafePickups
  <1>4. Exclusive'
    BY DEF Exclusive, Conflict
  <1>5. OneSweeper'
    BY DEF OneSweeper, Sweeping, NoTx
  <1>6. ASSUME NEW t \in Session PROVE SessionInv(t)'
    BY <1>2, SparesKnows, IdleInv
  <1>. QED BY <1>2, <1>3, <1>4, <1>5, <1>6

LEMMA SingleStatementInv ==
    ASSUME TxInv, SingleStatement
    PROVE  /\ Effect
           /\ \A t \in Session : Spares(t)
           /\ issued' \subseteq HouseholdId \cup PickupId \cup PaymentId \cup ProofId
           /\ \A p \in PickupId : PickupExists(p)' => pickups'[p].safety
  <1>. DEFINE Goal == /\ Effect
                      /\ \A t \in Session : Spares(t)
                      /\ issued' \subseteq HouseholdId \cup PickupId \cup PaymentId \cup ProofId
                      /\ \A p \in PickupId : PickupExists(p)' => pickups'[p].safety
  <1>1. DbTypeOK /\ TablesInv /\ SafePickups
    BY DEF TxInv, TxTypeOK
  <1>2. ASSUME NEW h \in HouseholdId, CreateHousehold(h) PROVE Goal
    BY <1>1, <1>2, EffectsSpare DEF Effect, CreateHousehold, SafePickups, PickupExists, DbTypeOK
  <1>3. ASSUME NEW p \in PickupId, NEW h \in households, NEW type \in Types,
               Free(<<"keyShare", h>>), InsertPickup(p, h, type, TRUE),
               UNCHANGED <<households, payments>>
        PROVE  Goal
    <2>1. h \in HouseholdId /\ Inserts(p, h, type, TRUE)
      BY <1>1, <1>3 DEF Inserts, DbTypeOK
    <2>2. \A t \in Session : <<"update", h>> \notin locks[t]
      BY <1>3, ConflictKinds DEF Free
    <2>3. Effect
      BY <2>1, TypesAssumption DEF Effect
    <2>. QED BY <1>1, <1>3, <2>1, <2>2, <2>3, EffectsSpare
             DEF InsertPickup, SafePickups, PickupExists, DbTypeOK
  <1>4. ASSUME NEW p \in PickupId, NEW d \in PickupDate, Free(<<"noKeyUpdate", p>>),
               ScheduleMatches(p), pickups' = Scheduled(p, d),
               UNCHANGED <<households, payments, issued>>
        PROVE  Goal
    <2>1. Schedules(p, d)
      BY <1>1, <1>4 DEF Schedules, SafePickups, SafeToCollect, ScheduleMatches, PickupIn
    <2>2. \A t \in Session : <<"noKeyUpdate", p>> \notin locks[t]
      BY <1>4, ConflictKinds DEF Free
    <2>3. \A t \in Session : Spares(t)
      BY <1>1, <2>1, <2>2, EffectsSpare
    <2>4. \A x \in PickupId : PickupExists(x)' => pickups'[x].safety
      BY <1>1, <1>4 DEF Scheduled, ScheduleMatches, PickupIn, PickupExists, SafePickups, DbTypeOK,
                        PickupRow
    <2>. QED BY <1>1, <1>4, <2>1, <2>3, <2>4 DEF Effect, DbTypeOK
  <1>5. ASSUME NEW p \in PickupId, Free(<<"noKeyUpdate", p>>), CancelMatches(p),
               pickups' = WithStatus({p}, "canceled"),
               UNCHANGED <<households, payments, issued>>
        PROVE  Goal
    <2>1. Cancels({p})
      BY <1>5 DEF Cancels
    <2>2. \A t \in Session : <<"noKeyUpdate", p>> \notin locks[t]
      BY <1>5, ConflictKinds DEF Free
    <2>3. \A t \in Session : Spares(t)
      BY <1>1, <2>1, <2>2, EffectsSpare
    <2>4. \A x \in PickupId : PickupExists(x)' => pickups'[x].safety
      BY <1>1, <1>5 DEF WithStatus, CancelMatches, PickupIn, PickupExists, SafePickups, DbTypeOK,
                        PickupRow
    <2>. QED BY <1>1, <1>5, <2>1, <2>3, <2>4 DEF Effect, DbTypeOK
  <1>6. ASSUME NEW q \in PaymentId, NEW u \in ProofId, ConfirmMatches(q),
               payments' = Paid(q, <<q, u>>), issued' = issued \cup {u},
               UNCHANGED <<households, pickups>>
        PROVE  Goal
    <2>1. Pays(q, u)
      BY <1>6 DEF Pays
    <2>2. \A t \in Session : Spares(t)
      BY <1>1, <2>1, EffectsSpare
    <2>. QED BY <1>1, <1>6, <2>1, <2>2 DEF Effect, DbTypeOK, SafePickups, PickupExists
  <1>. QED BY <1>2, <1>3, <1>4, <1>5, <1>6 DEF SingleStatement

\* What a commit does, and that the locks of the other sessions would not have let it
\* come so far had it touched what they rely on.
LEMMA CommitEffect ==
    ASSUME TxInv, NEW s \in Session, Commit(s)
    PROVE  /\ Effect
           /\ \A t \in Session : t # s => Spares(t)
           /\ issued' \subseteq HouseholdId \cup PickupId \cup PaymentId \cup ProofId
           /\ \A p \in PickupId : PickupExists(p)' => pickups'[p].safety
  <1>. DEFINE Goal == /\ Effect
                      /\ \A t \in Session : t # s => Spares(t)
                      /\ issued' \subseteq HouseholdId \cup PickupId \cup PaymentId \cup ProofId
                      /\ \A p \in PickupId : PickupExists(p)' => pickups'[p].safety
  <1>1. /\ DbTypeOK /\ TablesInv /\ SafePickups
        /\ tx[s] \in TxState /\ tx[s].at = "commit"
        /\ HoldsLocks(s) /\ Carries(s) /\ Knows(s)
    BY DEF TxInv, TxTypeOK, SessionInv, Commit
  <1>2. \A t \in Session : t # s => \A k \in locks[s] : \A l \in locks[t] : ~Conflict(k, l)
    BY DEF TxInv, Exclusive
  <1>3. CASE UNCHANGED db
    <2>1. NoEffect /\ \A t \in Session : Spares(t)
      BY <1>3 DEF db, NoEffect, tables, Spares, Claimed, PickupExists, PaymentExists
    <2>. QED BY <1>1, <1>3, <2>1 DEF db, Effect, DbTypeOK, SafePickups, PickupExists
  <1>4. ASSUME tx[s].op \in {"complete", "bill"}, NEW q \in PaymentId,
               InsertPayment(q, tx[s].payment), UNCHANGED households,
               \/ tx[s].op = "bill" /\ UNCHANGED pickups
               \/ /\ tx[s].op = "complete"
                  /\ pickups' = WithStatus({tx[s].pickup}, "completed")
        PROVE  Goal
    <2>1. PICK bill \in PaymentRow : bill = tx[s].payment
      BY <1>1, <1>4, StateCases DEF CompleteState, BillState
    <2>2. Bills(q, bill)
      BY <1>1, <1>4, <2>1 DEF Bills, Carries, Knows, PaymentInsertError
    <2>3. \A t \in Session : t # s => \A l \in Entries(bill) : l \notin locks[t]
      BY <1>1, <1>2, <1>4, <2>1, ConflictKinds DEF HoldsLocks, Entries
    <2>4. CASE tx[s].op = "bill"
      BY <1>1, <1>4, <2>2, <2>3, <2>4, BillSpares
         DEF Effect, DbTypeOK, SafePickups, PickupExists, InsertPayment
    <2>5. CASE tx[s].op = "complete"
      <3>1. Completes(q, bill) /\ pickups' = WithStatus({bill.waste}, "completed")
        BY <1>1, <1>4, <2>1, <2>2, <2>5 DEF Completes, CompleteMatches, Carries, Knows
      <3>2. \A t \in Session : t # s => <<"noKeyUpdate", bill.waste>> \notin locks[t]
        BY <1>1, <1>2, <2>1, <2>5, ConflictKinds DEF HoldsLocks, Carries
      <3>3. \A t \in Session : t # s => Spares(t)
        BY <1>1, <2>2, <2>3, <3>1, <3>2, BillSpares
      <3>4. \A p \in PickupId : PickupExists(p)' => pickups'[p].safety
        BY <1>1, <3>1 DEF WithStatus, Completes, CompleteMatches, PickupIn, PickupExists, SafePickups,
                          DbTypeOK, PickupRow
      <3>. QED BY <1>1, <1>4, <3>1, <3>3, <3>4 DEF Effect, DbTypeOK, InsertPayment
    <2>. QED BY <1>4, <2>4, <2>5
  <1>5. ASSUME tx[s].op = "delete", DeleteHousehold(tx[s].scope) PROVE Goal
    <2>1. PICK h \in HouseholdId : h = tx[s].scope
      BY <1>1, <1>5, StateCases
    <2>2. \A t \in Session : t # s =>
             /\ <<"keyShare", h>> \notin locks[t]
             /\ \A p \in PickupId : PickupExists(p) /\ pickups[p].household = h =>
                   <<"noKeyUpdate", p>> \notin locks[t] /\ <<"keyShare", p>> \notin locks[t]
      BY <1>1, <1>2, <1>5, <2>1, ConflictKinds DEF HoldsLocks, Knows
    <2>3. \A t \in Session : t # s => Spares(t)
      BY <1>1, <1>5, <2>1, <2>2, DeleteSpares
    <2>. QED BY <1>1, <1>5, <2>1, <2>3
             DEF Effect, DeleteHousehold, PickupsWithout, DbTypeOK, SafePickups, PickupExists
  <1>6. ASSUME tx[s].op = "sweep", pickups' = WithStatus(Swept(s), "canceled"),
               UNCHANGED <<households, payments, issued>>
        PROVE  Goal
    <2>1. /\ Swept(s) \in SUBSET PickupId
          /\ \A p \in Swept(s) : <<"noKeyUpdate", p>> \in locks[s] /\ CancelMatches(p)
      BY <1>1, <1>6, StateCases DEF Swept, Knows, CancelMatches
    <2>2. Cancels(Swept(s))
      BY <1>6, <2>1 DEF Cancels
    <2>3. \A t \in Session : t # s => \A p \in Swept(s) : <<"noKeyUpdate", p>> \notin locks[t]
      BY <1>2, <2>1, ConflictKinds
    <2>4. \A t \in Session : t # s => Spares(t)
      BY <1>1, <2>1, <2>2, <2>3, EffectsSpare
    <2>5. \A x \in PickupId : PickupExists(x)' => pickups'[x].safety
      BY <1>1, <1>6, <2>1 DEF WithStatus, CancelMatches, PickupIn, PickupExists, SafePickups,
                              DbTypeOK, PickupRow
    <2>. QED BY <1>1, <1>6, <2>1, <2>2, <2>4, <2>5 DEF Effect, DbTypeOK
  <1>. QED BY <1>3, <1>4, <1>5, <1>6 DEF Commit

(***************************************************************************)
(* The invariant is inductive, and every step is one of the effects.       *)
(***************************************************************************)
LEMMA TxInvInit == TxInit => TxInv
  <1>. SUFFICES ASSUME TxInit PROVE TxInv
    OBVIOUS
  <1>. USE DEF TxInit, DbInit
  <1>1. TxTypeOK
    BY DEF TxTypeOK, DbTypeOK, TxState
  <1>2. TablesInv /\ SafePickups
    BY DEF TablesInv, KeysIssued, NoFailedPayment, ReferentialIntegrity,
           PaymentMatchesPickup, BilledOnce, CompletedHasPayment, ElectronicIsSafe,
           SafePickups, PickupIn, PickupExists, PaymentExists
  <1>3. Exclusive /\ OneSweeper
    BY DEF Exclusive, OneSweeper, Sweeping, NoTx
  <1>4. \A s \in Session : SessionInv(s)
    BY DEF SessionInv, HoldsLocks, Carries, Knows, NoTx
  <1>. QED BY <1>1, <1>2, <1>3, <1>4 DEF TxInv

LEMMA CommitInv ==
    ASSUME TxInv, NEW s \in Session, Commit(s)
    PROVE  TxInv'
  <1>1. /\ tx' = [tx EXCEPT ![s] = NoTx]
        /\ locks' = [locks EXCEPT ![s] = {}]
        /\ canceled' \subseteq Session
    BY DEF Commit, End, TxInv, TxTypeOK
  <1>2. tx' \in [Session -> TxState] /\ locks' \in [Session -> SUBSET Lock]
    BY <1>1 DEF TxInv, TxTypeOK, TxState
  <1>3. \A t \in Session : \/ tx'[t] = NoTx /\ locks'[t] = {}
                           \/ tx'[t] = tx[t] /\ locks'[t] = locks[t] /\ Spares(t)
    BY <1>1, CommitEffect DEF TxInv, TxTypeOK
  <1>. QED BY <1>1, <1>2, <1>3, CommitEffect, EffectInv

\* Steps of one session short of its commit.
LEMMA QuietSession ==
    ASSUME TxInv, NEW s \in Session,
           Begin(s) \/ (Progress(s) /\ ~Commit(s)) \/ Interrupt(s) \/ Fail(s) \/ DeadlockVictim(s)
    PROVE  TxInv' /\ UNCHANGED db
  <1>1. CASE Begin(s)
    BY <1>1, BeginInv DEF Begin, StartComplete, StartBill, StartDelete, StartSweep, Start
  <1>2. CASE Connect(s)
    BY <1>2, ConnectInv DEF Connect
  <1>3. CASE CompleteUpdate(s)
    BY <1>3, CompleteUpdateInv, RollBackInv DEF CompleteUpdate, Take, RollBack
  <1>4. CASE InsertEntries(s)
    BY <1>4, InsertEntriesInv, RollBackInv DEF InsertEntries, Take, RollBack
  <1>5. CASE InsertKeys(s)
    BY <1>5, InsertKeysInv, RollBackInv DEF InsertKeys, Take, RollBack
  <1>6. CASE DeleteRow(s)
    BY <1>6, DeleteRowInv, RollBackInv DEF DeleteRow, Take, RollBack
  <1>7. CASE CascadeRow(s)
    BY <1>7, CascadeRowInv DEF CascadeRow, Take
  <1>8. CASE SweepRow(s)
    BY <1>8, SweepRowInv DEF SweepRow, Take
  <1>9. CASE RollBack(s)
    BY <1>9, RollBackInv DEF RollBack
  <1>. QED BY <1>1, <1>2, <1>3, <1>4, <1>5, <1>6, <1>7, <1>8, <1>9
           DEF Progress, Interrupt, Fail, DeadlockVictim

LEMMA TxStep ==
    ASSUME TxInv, [TxNext]_txVars
    PROVE  TxInv' /\ Effect
  <1>. USE DEF TxInv, TxTypeOK
  <1>1. CASE SingleStatement
    <2>1. UNCHANGED <<tx, locks, canceled>>
      BY <1>1 DEF SingleStatement
    <2>. QED BY <1>1, <2>1, SingleStatementInv, EffectInv
  <1>2. ASSUME NEW s \in Session, Commit(s) PROVE TxInv' /\ Effect
    BY <1>2, CommitInv, CommitEffect
  <1>3. CASE UNCHANGED db /\ TxInv'
    BY <1>3 DEF Effect, NoEffect, db, tables
  <1>4. ASSUME UNCHANGED <<db, tx, locks>>, canceled' \subseteq Session
        PROVE  TxInv' /\ Effect
    <2>1. Effect /\ \A t \in Session : Spares(t)
      BY <1>4 DEF Effect, NoEffect, db, tables, Spares, Claimed, PickupExists, PaymentExists
    <2>2. issued' \subseteq HouseholdId \cup PickupId \cup PaymentId \cup ProofId
      BY <1>4 DEF DbTypeOK, db
    <2>3. \A p \in PickupId : PickupExists(p)' => pickups'[p].safety
      BY <1>4 DEF SafePickups, PickupExists, db
    <2>. QED BY <1>4, <2>1, <2>2, <2>3, EffectInv
  <1>5. ASSUME NEW s \in Session, GiveUp(s) PROVE TxInv' /\ Effect
    BY <1>4, <1>5 DEF GiveUp
  <1>6. CASE UNCHANGED txVars
    BY <1>4, <1>6 DEF txVars, db
  <1>7. CASE ProcessDies
    <2>1. Effect
      BY <1>7 DEF ProcessDies, Effect, NoEffect, db, tables
    <2>2. issued' \subseteq HouseholdId \cup PickupId \cup PaymentId \cup ProofId
      BY <1>7 DEF ProcessDies, DbTypeOK, db
    <2>3. \A p \in PickupId : PickupExists(p)' => pickups'[p].safety
      BY <1>7 DEF ProcessDies, SafePickups, PickupExists, db
    <2>4. /\ canceled' \subseteq Session
          /\ tx' \in [Session -> TxState] /\ locks' \in [Session -> SUBSET Lock]
          /\ \A t \in Session : tx'[t] = NoTx /\ locks'[t] = {}
      BY <1>7 DEF ProcessDies, TxState
    <2>. QED BY <2>1, <2>2, <2>3, <2>4, EffectInv
  <1>. QED BY <1>1, <1>2, <1>3, <1>5, <1>6, <1>7, QuietSession DEF TxNext

LEMMA TxInvAlways == TxSpec => []TxInv
  BY TxInvInit, TxStep, PTL DEF TxSpec

(***************************************************************************)
(* The theorems                                                            *)
(***************************************************************************)
\* Types of tables, transactions and locks, for any constants.
THEOREM TxTypes == TxSpec => []TxTypeOK
  <1>1. TxInv => TxTypeOK
    BY DEF TxInv
  <1>. QED BY <1>1, TxInvAlways, PTL

\* Between BEGIN and COMMIT nobody changes what BR-05's transaction, the INSERT of a
\* payment or the sweep has checked, however many of them run on however many rows.
THEOREM ChecksHold == TxSpec => []ChecksStillHold
  <1>1. TxInv => ChecksStillHold
    <2>. SUFFICES ASSUME TxInv, NEW s \in Session
                  PROVE  LET t == tx[s] IN
                         /\ t.at \in {"insert", "keys", "commit"} /\ t.op = "complete" =>
                               PickupIn(t.pickup, {"scheduled"})
                         /\ t.at \in {"keys", "commit"} /\ t.op \in {"complete", "bill"} =>
                               ~PaymentClash(t.payment)
                         /\ t.at = "commit" /\ t.op \in {"complete", "bill"} =>
                               t.payment.household \in households /\ PickupExists(t.payment.waste)
                         /\ t.at = "commit" /\ t.op = "sweep" =>
                               \A p \in Swept(s) : PickupIn(p, Cancellable)
      BY DEF ChecksStillHold
    <2>1. Knows(s) /\ tx[s] \in TxState
      BY DEF TxInv, TxTypeOK, SessionInv
    <2>2. tx[s].at = "commit" /\ tx[s].op = "sweep" => tx[s].scope \in SUBSET PickupId
      BY <2>1, StateCases
    <2>. QED BY <2>1, <2>2 DEF Knows, Swept
  <1>. QED BY <1>1, TxInvAlways, PTL

\* A circle of sessions that wait for one another has a cascading DELETE in it: INSERT
\* waits only for INSERT past its own keys, those wait only for DELETE, and what
\* holds nothing but rows of pickups waits only for the one sweep.
THEOREM OnlyDeletesDeadlock == TxSpec => []DeadlockNeedsDelete
  <1>1. TxInv => DeadlockNeedsDelete
    <2>. SUFFICES ASSUME TxInv, NEW S \in SUBSET Session, Stuck(S),
                         \A s \in S : tx[s].at # "cascade"
                  PROVE  FALSE
      BY DEF DeadlockNeedsDelete
    <2>1. \A s \in S : tx[s] \in TxState /\ HoldsLocks(s)
      BY DEF TxInv, TxTypeOK, SessionInv
    <2>2. ASSUME NEW s \in S, NEW t \in S, WaitsFor(s, t)
          PROVE  /\ tx[s].at \in {"update", "insert", "keys", "delete", "sweep"}
                 /\ tx[t].at \in {"insert", "keys", "sweep"}
                 /\ tx[s].at # "keys"
                 /\ tx[s].at = "insert" => tx[t].at = "keys"
                 /\ s # t
      <3>1. PICK k \in Wanted(s), l \in locks[t] : Conflict(k, l)
        BY <2>2 DEF WaitsFor
      <3>2. tx[s].at \in {"update", "insert", "keys", "delete", "sweep"}
        BY <3>1 DEF Wanted
      <3>3. tx[t].at \in {"insert", "keys", "sweep"}
        <4>1. \E u \in S : WaitsFor(t, u)
          BY DEF Stuck
        <4>2. Wanted(t) # {} /\ locks[t] # {}
          BY <3>1, <4>1 DEF WaitsFor
        <4>. QED BY <2>1, <4>2 DEF Wanted, HoldsLocks
      <3>4. l[1] \in {"noKeyUpdate", "entry"} /\ (tx[t].at # "keys" => l[1] = "noKeyUpdate")
        BY <2>1, <3>1, <3>3 DEF HoldsLocks
      <3>5. tx[s].at = "keys" => k[1] = "keyShare"
        BY <3>1 DEF Wanted, Keys
      <3>6. tx[s].at = "insert" => k[1] = "entry"
        BY <3>1 DEF Wanted, Entries
      <3>. QED BY <2>2, <3>1, <3>2, <3>3, <3>4, <3>5, <3>6, ConflictKinds DEF WaitsFor
    <2>3. \A s \in S : tx[s].at = "sweep" => Sweeping(s)
      BY <2>1, StateCases DEF Scanning, Sweeping
    <2>4. \A s, t \in S : WaitsFor(s, t) => tx[t].at = "sweep" /\ s # t
      <3>. SUFFICES ASSUME NEW s \in S, NEW t \in S, WaitsFor(s, t)
                    PROVE  tx[t].at = "sweep" /\ s # t
        OBVIOUS
      <3>1. PICK u \in S : WaitsFor(t, u)
        BY DEF Stuck
      <3>2. PICK v \in S : WaitsFor(u, v)
        BY DEF Stuck
      <3>3. tx[u].at # "keys"
        BY <2>2, <3>2
      <3>4. tx[t].at \notin {"keys", "insert"}
        BY <2>2, <3>1, <3>3
      <3>. QED BY <2>2, <3>4
    <2>5. PICK s1 \in S, s2 \in S, s3 \in S : WaitsFor(s1, s2) /\ WaitsFor(s2, s3)
      BY DEF Stuck
    <2>6. tx[s2].at = "sweep" /\ tx[s3].at = "sweep" /\ s2 # s3
      BY <2>4, <2>5
    <2>. QED BY <2>3, <2>6 DEF TxInv, OneSweeper
  <1>. QED BY <1>1, TxInvAlways, PTL

\* Statements, locks, waits, rollbacks and deaths of the process, seen from the
\* committed rows, are the operations of the contract.
THEOREM TransactionsImplement == TxSpec => ImplementsContract
  <1>1. TxInit => Contract!ContractInit
    BY DEF TxInit, DbInit, Contract!ContractInit
  <1>2. TxInv /\ [TxNext]_txVars => [Contract!ContractNext]_(Contract!contractVars)
    BY TxStep, EffectIsContractStep DEF TxInv, TxTypeOK
  <1>. QED BY <1>1, <1>2, TxInvAlways, PTL
           DEF TxSpec, ImplementsContract, Contract!ContractSpec

=============================================================================
