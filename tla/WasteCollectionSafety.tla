------------------------ MODULE WasteCollectionSafety ------------------------
(***************************************************************************)
(* The safety invariants of WasteCollection, proved from one inductive     *)
(* invariant, and the proof that WasteCollection implements                *)
(* CollectionContract.  The argument has three layers: what a step does to *)
(* the tables is one of eight effects; each effect keeps the invariants of *)
(* the tables and never rewrites the past of a row; so what a request read *)
(* earlier about a row that still exists is still true of it.              *)
(***************************************************************************)
EXTENDS WasteCollection, DatabaseProofs

(***************************************************************************)
(* Lemmas about the helpers requests are built from.                       *)
(***************************************************************************)
\* A request that goes on, or is over, stays in a state requests can be in.
LEMMA SlotType ==
    ASSUME NEW r \in Request, req \in [Request -> RequestState], acked \subseteq Ack
    PROVE  /\ \A x \in RequestState : Proceed(r, x) =>
                  req' \in [Request -> RequestState] /\ acked' \subseteq Ack
           /\ \A e : Refuse(r, e) =>
                  req' \in [Request -> RequestState] /\ acked' \subseteq Ack
           /\ \A a \in SUBSET Ack : Committed(r, a) \/ Respond(r, a) =>
                  req' \in [Request -> RequestState] /\ acked' \subseteq Ack
  <1>1. Idle \in RequestState
    BY DEF RequestState
  <1>. QED BY <1>1 DEF Proceed, Refuse, Committed, Respond

\* The locals of a request, by the statement it is about to issue.
LEMMA LocalsType ==
    ASSUME NEW x \in RequestState
    PROVE  /\ x.at \in {"createPickup.check", "createPickup.insert"} => x \in CreatePickupCall
           /\ x.at = "schedule.update" => x \in ScheduleCall
           /\ x.at = "complete.tx" => x \in CompleteCall
           /\ x.at = "cancel.find" => x \in CancelCall
           /\ x.at = "createPayment.find" =>
                 /\ x.household \in HouseholdId
                 /\ x.pickup \in PickupId
           /\ x.at = "createPayment.insert" => x.payment \in PaymentRow
           /\ x.at = "confirm.upload" => x.payment \in PaymentId
           /\ x.at = "confirm.update" => x.payment \in PaymentId /\ x.key \in ProofKey
           /\ x.at = "confirm.cleanup" => x.key \in ProofKey
  BY DEF RequestState, Idle, PickupCall, PaymentCall, CreatePickupCall, ScheduleCall,
         CompleteCall, CancelCall, CreatePaymentCall, ConfirmCall

(***************************************************************************)
(* Type correctness.                                                       *)
(***************************************************************************)
LEMMA PickupServiceTypes ==
    ASSUME TypeOK, NEW r \in Request, PickupServiceStep(r), UNCHANGED <<objects, aged, found>>
    PROVE  TypeOK'
  <1>. USE DEF TypeOK, DbTypeOK, CancelerTypeOK
  <1>0. req[r] \in RequestState
    OBVIOUS
  <1>1. ASSUME NEW h \in HouseholdId, NEW t \in Types, NEW s \in BOOLEAN,
               CreatePickupValidate(r, h, t, s)
        PROVE  TypeOK'
    <2>1. [at |-> "createPickup.check", household |-> h, type |-> t, safety |-> s]
             \in RequestState
      BY DEF RequestState, PickupCall, CreatePickupCall
    <2>. QED BY <1>1, <2>1, SlotType DEF CreatePickupValidate, db
  <1>2. ASSUME CreatePickupCheck(r) PROVE TypeOK'
    <2>1. req[r] \in CreatePickupCall
      BY <1>0, <1>2, LocalsType DEF CreatePickupCheck
    <2>2. [req[r] EXCEPT !.at = "createPickup.insert"] \in RequestState
      BY <2>1 DEF RequestState, PickupCall, CreatePickupCall
    <2>. QED BY <1>2, <2>2, SlotType DEF CreatePickupCheck, db
  <1>3. ASSUME CreatePickupInsert(r) PROVE TypeOK'
    <2>1. req[r] \in CreatePickupCall
      BY <1>0, <1>3, LocalsType DEF CreatePickupInsert
    <2>2. CASE PickupInsertError(req[r].household) = "none"
      <3>1. PICK p \in PickupId :
               InsertPickup(p, req[r].household, req[r].type, req[r].safety)
        BY <1>3, <2>2 DEF CreatePickupInsert
      <3>2. [household |-> req[r].household, type |-> req[r].type, status |-> "pending",
             safety |-> req[r].safety, date |-> Null] \in PickupRow
        BY <2>1, TypesAssumption DEF CreatePickupCall, PickupRow, PickupStatus
      <3>3. pickups' \in [PickupId -> PickupRow \cup {NoRow}]
        BY <3>1, <3>2 DEF InsertPickup
      <3>4. issued' \subseteq HouseholdId \cup PickupId \cup PaymentId \cup ProofId
        BY <3>1 DEF InsertPickup
      <3>5. req' \in [Request -> RequestState] /\ acked' \subseteq Ack
        BY <1>3, <2>2, SlotType DEF CreatePickupInsert
      <3>. QED BY <1>3, <2>2, <3>3, <3>4, <3>5 DEF CreatePickupInsert
    <2>3. CASE PickupInsertError(req[r].household) # "none"
      BY <1>3, <2>3, SlotType DEF CreatePickupInsert, db
    <2>. QED BY <2>2, <2>3
  <1>4. ASSUME NEW p \in PickupId, NEW d \in PickupDate, NEW future \in BOOLEAN,
               ScheduleFind(r, p, d, future)
        PROVE  TypeOK'
    <2>1. [at |-> "schedule.update", pickup |-> p, date |-> d] \in RequestState
      BY DEF RequestState, PickupCall, ScheduleCall
    <2>. QED BY <1>4, <2>1, SlotType DEF ScheduleFind, db
  <1>5. ASSUME ScheduleUpdate(r) PROVE TypeOK'
    <2>. DEFINE p == req[r].pickup
                d == req[r].date
    <2>1. p \in PickupId /\ d \in PickupDate
      BY <1>0, <1>5, LocalsType DEF ScheduleUpdate, ScheduleCall
    <2>2. CASE ScheduleMatches(p)
      <3>1. pickups' \in [PickupId -> PickupRow \cup {NoRow}]
        BY <1>5, <2>1, <2>2, TableTypes DEF ScheduleUpdate, ScheduleMatches, PickupIn
      <3>2. {[op |-> "schedule", pickup |-> p, date |-> d]} \in SUBSET Ack
        BY <2>1 DEF Ack
      <3>3. req' \in [Request -> RequestState] /\ acked' \subseteq Ack
        BY <1>5, <2>2, <3>2, SlotType DEF ScheduleUpdate
      <3>. QED BY <1>5, <2>2, <3>1, <3>3 DEF ScheduleUpdate
    <2>3. CASE ~ScheduleMatches(p)
      BY <1>5, <2>3, SlotType DEF ScheduleUpdate, db
    <2>. QED BY <2>2, <2>3
  <1>6. ASSUME NEW p \in PickupId, CompleteFind(r, p) PROVE TypeOK'
    <2>. DEFINE row == pickups[p]
    <2>1. CASE row # NoRow /\ row.status = "scheduled"
      <3>1. row \in PickupRow
        BY <2>1
      <3>2. NewPayment(row.household, p, row.type) \in PaymentRow
        BY <3>1, NewPaymentType DEF PickupRow
      <3>3. [at |-> "complete.tx", pickup |-> p,
             payment |-> NewPayment(row.household, p, row.type)] \in RequestState
        BY <3>2 DEF RequestState, PickupCall, CompleteCall
      <3>. QED BY <1>6, <2>1, <3>3, SlotType DEF CompleteFind, db
    <2>2. CASE ~(row # NoRow /\ row.status = "scheduled")
      BY <1>6, <2>2, SlotType DEF CompleteFind, db
    <2>. QED BY <2>1, <2>2
  <1>7. ASSUME CompleteTx(r) PROVE TypeOK'
    <2>. DEFINE p == req[r].pickup
                pay == req[r].payment
                error == IF CompleteMatches(p) THEN PaymentInsertError(pay) ELSE "conflict"
    <2>1. p \in PickupId /\ pay \in PaymentRow
      BY <1>0, <1>7, LocalsType DEF CompleteTx, CompleteCall
    <2>2. CASE error = "none"
      <3>1. CompleteMatches(p)
        BY <2>2
      <3>2. WithStatus({p}, "completed") \in [PickupId -> PickupRow \cup {NoRow}]
        BY <2>1, <3>1, TableTypes DEF CompleteMatches, PickupIn, PickupStatus
      <3>3. PICK q \in PaymentId : InsertPayment(q, pay)
        BY <1>7, <2>2 DEF CompleteTx
      <3>4. /\ payments' \in [PaymentId -> PaymentRow \cup {NoRow}]
            /\ issued' \subseteq HouseholdId \cup PickupId \cup PaymentId \cup ProofId
        BY <2>1, <3>3 DEF InsertPayment
      <3>5. {[op |-> "complete", pickup |-> p]} \in SUBSET Ack
        BY <2>1 DEF Ack
      <3>6. req' \in [Request -> RequestState] /\ acked' \subseteq Ack
        BY <1>7, <2>2, <3>5, SlotType DEF CompleteTx
      <3>. QED BY <1>7, <2>2, <3>2, <3>4, <3>6 DEF CompleteTx
    <2>3. CASE error # "none"
      BY <1>7, <2>3, SlotType DEF CompleteTx, db
    <2>. QED BY <2>2, <2>3
  <1>8. ASSUME NEW p \in PickupId, CancelUpdate(r, p) PROVE TypeOK'
    <2>1. [at |-> "cancel.find", pickup |-> p, canceled |-> CancelMatches(p)] \in RequestState
      BY DEF RequestState, PickupCall, CancelCall, CancelMatches, PickupIn
    <2>2. pickups' \in [PickupId -> PickupRow \cup {NoRow}]
      BY <1>8, TableTypes DEF CancelUpdate, CancelMatches, PickupIn, PickupStatus
    <2>. QED BY <1>8, <2>1, <2>2, SlotType DEF CancelUpdate
  <1>9. ASSUME CancelFind(r) PROVE TypeOK'
    <2>1. {[op |-> "cancel", pickup |-> req[r].pickup]} \in SUBSET Ack
      BY <1>0, <1>9, LocalsType DEF CancelFind, CancelCall, Ack
    <2>. QED BY <1>9, <2>1, SlotType DEF CancelFind, db
  <1>10. ASSUME PickupStatementFails(r) PROVE TypeOK'
    BY <1>10, SlotType DEF PickupStatementFails, DbFails, db
  <1>. QED BY <1>1, <1>2, <1>3, <1>4, <1>5, <1>6, <1>7, <1>8, <1>9, <1>10
           DEF PickupServiceStep

LEMMA PaymentServiceTypes ==
    ASSUME TypeOK, NEW r \in Request, PaymentServiceStep(r), UNCHANGED <<aged, found>>
    PROVE  TypeOK'
  <1>. USE DEF TypeOK, DbTypeOK, CancelerTypeOK
  <1>0. req[r] \in RequestState
    OBVIOUS
  <1>1. ASSUME NEW h \in HouseholdId, NEW p \in PickupId, CreatePaymentValidate(r, h, p)
        PROVE  TypeOK'
    <2>1. [at |-> "createPayment.find", household |-> h, pickup |-> p] \in RequestState
      BY DEF RequestState, PaymentCall, CreatePaymentCall
    <2>. QED BY <1>1, <2>1, SlotType DEF CreatePaymentValidate, db
  <1>2. ASSUME CreatePaymentFind(r) PROVE TypeOK'
    <2>. DEFINE h == req[r].household
                p == req[r].pickup
                row == pickups[p]
    <2>1. h \in HouseholdId /\ p \in PickupId
      BY <1>0, <1>2, LocalsType DEF CreatePaymentFind
    <2>2. CASE row # NoRow /\ row.household = h
      <3>1. row \in PickupRow
        BY <2>1, <2>2
      <3>2. NewPayment(h, p, row.type) \in PaymentRow
        BY <2>1, <3>1, NewPaymentType DEF PickupRow
      <3>3. [at |-> "createPayment.insert", payment |-> NewPayment(h, p, row.type)]
               \in RequestState
        BY <3>2 DEF RequestState, PaymentCall, CreatePaymentCall
      <3>. QED BY <1>2, <2>2, <3>3, SlotType DEF CreatePaymentFind, db
    <2>3. CASE ~(row # NoRow /\ row.household = h)
      BY <1>2, <2>3, SlotType DEF CreatePaymentFind, db
    <2>. QED BY <2>2, <2>3
  <1>3. ASSUME CreatePaymentInsert(r) PROVE TypeOK'
    <2>. DEFINE row == req[r].payment
    <2>1. row \in PaymentRow
      BY <1>0, <1>3, LocalsType DEF CreatePaymentInsert
    <2>2. CASE PaymentInsertError(row) = "none"
      <3>1. PICK q \in PaymentId : InsertPayment(q, row)
        BY <1>3, <2>2 DEF CreatePaymentInsert
      <3>2. /\ payments' \in [PaymentId -> PaymentRow \cup {NoRow}]
            /\ issued' \subseteq HouseholdId \cup PickupId \cup PaymentId \cup ProofId
        BY <2>1, <3>1 DEF InsertPayment
      <3>3. req' \in [Request -> RequestState] /\ acked' \subseteq Ack
        BY <1>3, <2>2, SlotType DEF CreatePaymentInsert
      <3>. QED BY <1>3, <2>2, <3>2, <3>3 DEF CreatePaymentInsert
    <2>3. CASE PaymentInsertError(row) # "none"
      BY <1>3, <2>3, SlotType DEF CreatePaymentInsert, db
    <2>. QED BY <2>2, <2>3
  <1>4. ASSUME PaymentStatementFails(r) PROVE TypeOK'
    BY <1>4, SlotType DEF PaymentStatementFails, DbFails, db
  <1>5. ASSUME NEW q \in PaymentId, NEW hasProof \in BOOLEAN, ConfirmFind(r, q, hasProof)
        PROVE  TypeOK'
    <2>1. [at |-> "confirm.upload", payment |-> q] \in RequestState
      BY DEF RequestState, PaymentCall, ConfirmCall
    <2>. QED BY <1>5, <2>1, SlotType DEF ConfirmFind, db
  <1>6. ASSUME ConfirmUpload(r) PROVE TypeOK'
    <2>1. req[r].payment \in PaymentId
      BY <1>0, <1>6, LocalsType DEF ConfirmUpload
    <2>2. PICK u \in ProofId \ issued :
             LET key == <<req[r].payment, u>> IN
             /\ issued' = issued \cup {u}
             /\ \/ /\ objects' = objects \cup {key}
                   /\ Proceed(r, [at |-> "confirm.update",
                                  payment |-> req[r].payment, key |-> key])
                \/ Refuse(r, "internal") /\ objects' \in {objects, objects \cup {key}}
      BY <1>6 DEF ConfirmUpload
    <2>3. <<req[r].payment, u>> \in ProofKey
      BY <2>1 DEF ProofKey
    <2>4. [at |-> "confirm.update", payment |-> req[r].payment,
           key |-> <<req[r].payment, u>>] \in RequestState
      BY <2>1, <2>3 DEF RequestState, PaymentCall, ConfirmCall
    <2>5. req' \in [Request -> RequestState] /\ acked' \subseteq Ack
      BY <2>2, <2>4, SlotType
    <2>. QED BY <1>6, <2>2, <2>3, <2>5 DEF ConfirmUpload, tables
  <1>7. ASSUME ConfirmUpdate(r) PROVE TypeOK'
    <2>. DEFINE q == req[r].payment
                key == req[r].key
                CleanUp(e) == [at |-> "confirm.cleanup", key |-> key, error |-> e]
    <2>1. q \in PaymentId /\ key \in ProofKey
      BY <1>0, <1>7, LocalsType DEF ConfirmUpdate
    <2>2. CleanUp("internal") \in RequestState /\ CleanUp("conflict") \in RequestState
      BY <2>1 DEF RequestState, PaymentCall, ConfirmCall
    <2>3. {[op |-> "confirm", payment |-> q, proof |-> key]} \in SUBSET Ack
      BY <2>1 DEF Ack
    <2>4. \/ Respond(r, {[op |-> "confirm", payment |-> q, proof |-> key]})
          \/ Proceed(r, CleanUp("internal"))
          \/ Proceed(r, CleanUp("conflict"))
      BY <1>7 DEF ConfirmUpdate
    <2>5. req' \in [Request -> RequestState] /\ acked' \subseteq Ack
      BY <2>2, <2>3, <2>4, SlotType
    <2>6. payments' \in [PaymentId -> PaymentRow \cup {NoRow}]
      BY <1>7, <2>1, TableTypes DEF ConfirmUpdate, ConfirmMatches
    <2>. QED BY <1>7, <2>5, <2>6 DEF ConfirmUpdate
  <1>8. ASSUME ConfirmCleanUp(r) PROVE TypeOK'
    BY <1>8, SlotType DEF ConfirmCleanUp, db
  <1>. QED BY <1>1, <1>2, <1>3, <1>4, <1>5, <1>6, <1>7, <1>8 DEF PaymentServiceStep

LEMMA HouseholdServiceTypes ==
    ASSUME TypeOK, HouseholdRequest
    PROVE  TypeOK'
  <1>. USE DEF TypeOK, DbTypeOK, CancelerTypeOK, HouseholdRequest
  <1>1. ASSUME NEW h \in HouseholdId, CreateHousehold(h) PROVE TypeOK'
    BY <1>1 DEF CreateHousehold
  <1>2. ASSUME NEW h \in HouseholdId, DeleteHousehold(h) PROVE TypeOK'
    BY <1>2, TableTypes DEF DeleteHousehold
  <1>. QED BY <1>1, <1>2 DEF HouseholdServiceStep

LEMMA CancelerTypes ==
    ASSUME TypeOK, Canceler \/ Clock
    PROVE  TypeOK'
  <1>. USE DEF TypeOK, DbTypeOK, CancelerTypeOK
  <1>1. CASE FindExpiredOrganic /\ Canceler
    BY <1>1 DEF FindExpiredOrganic, Canceler, ExpiredOrganic, db
  <1>2. CASE BulkCancel /\ Canceler
    <2>1. WithStatus(BulkCancelMatches(found), "canceled")
             \in [PickupId -> PickupRow \cup {NoRow}]
      BY TableTypes DEF BulkCancelMatches, PickupIn, PickupStatus
    <2>. QED BY <1>2, <2>1 DEF BulkCancel, Canceler
  <1>3. CASE CycleFails /\ Canceler
    BY <1>3 DEF CycleFails, Canceler, db
  <1>4. CASE Clock
    BY <1>4 DEF Clock, Age, db
  <1>. QED BY <1>1, <1>2, <1>3, <1>4 DEF Canceler, OrganicCancelerStep

LEMMA TypeStep == TypeOK /\ [Next]_vars => TypeOK'
  <1>. SUFFICES ASSUME TypeOK, [Next]_vars PROVE TypeOK'
    OBVIOUS
  <1>1. CASE PickupRequest
    BY <1>1, PickupServiceTypes DEF PickupRequest
  <1>2. CASE PaymentRequest
    BY <1>2, PaymentServiceTypes DEF PaymentRequest
  <1>3. CASE HouseholdRequest
    BY <1>3, HouseholdServiceTypes
  <1>4. CASE Canceler \/ Clock
    BY <1>4, CancelerTypes
  <1>5. CASE Crash
    BY <1>5 DEF Crash, TypeOK, DbTypeOK, CancelerTypeOK, RequestState, db
  <1>6. CASE UNCHANGED vars
    BY <1>6 DEF vars, TypeOK, DbTypeOK, CancelerTypeOK
  <1>. QED BY <1>1, <1>2, <1>3, <1>4, <1>5, <1>6 DEF Next

\* Tables, requests in flight and histories always have their types: no statement
\* writes a row that the schema's columns and enums would not admit.
THEOREM TypeCorrect == Spec => []TypeOK
  <1>1. Init => TypeOK
    BY DEF Init, DbInit, ReqInit, CancelerInit, TypeOK, DbTypeOK, CancelerTypeOK,
           RequestState
  <1>. QED BY <1>1, TypeStep, PTL DEF Spec

(***************************************************************************)
(* The inductive invariant                                                 *)
(***************************************************************************)
\* What a request in state x learned from its earlier statements and relies on.
Remembers(x) ==
    /\ x.at = "schedule.update" =>
          /\ x.pickup \in issued
          /\ PickupExists(x.pickup) =>
                SafeToCollect(pickups[x.pickup].type, pickups[x.pickup].safety)
    /\ x.at = "complete.tx" => x.payment.waste = x.pickup /\ BillFits(x.payment)
    /\ x.at = "createPayment.insert" => BillFits(x.payment)
    /\ x.at = "cancel.find" /\ x.canceled =>
          /\ x.pickup \in issued
          /\ PickupExists(x.pickup) => pickups[x.pickup].status = "canceled"
    /\ x.at = "confirm.update" => x.key[1] = x.payment

RequestsInv == \A r \in Request : Remembers(req[r])

\* A reply that told about a row told about an issued key.
AckInv(ack) ==
    /\ ack.op = "confirm" => ack.payment \in issued
    /\ ack.op # "confirm" => ack.pickup \in issued
    /\ Holds(ack)

AcksInv == \A ack \in acked : AckInv(ack)

IInv == TypeOK /\ TablesInv /\ RequestsInv /\ AcksInv

(***************************************************************************)
(* Every step has one of the effects.                                      *)
(***************************************************************************)
LEMMA PickupServiceEffect ==
    ASSUME IInv, NEW r \in Request, PickupServiceStep(r)
    PROVE  Effect
  <1>. USE DEF IInv, TypeOK
  <1>0. req[r] \in RequestState /\ Remembers(req[r])
    BY DEF RequestsInv
  <1>1. ASSUME CreatePickupInsert(r), ~UNCHANGED db PROVE Effect
    <2>1. req[r] \in CreatePickupCall
      BY <1>0, <1>1, LocalsType DEF CreatePickupInsert
    <2>2. PICK p \in PickupId : Inserts(p, req[r].household, req[r].type, req[r].safety)
      BY <1>1 DEF CreatePickupInsert, PickupInsertError, Inserts
    <2>. QED BY <2>1, <2>2 DEF Effect, CreatePickupCall
  <1>2. ASSUME ScheduleUpdate(r), ~UNCHANGED db PROVE Effect
    <2>1. req[r].pickup \in PickupId /\ req[r].date \in PickupDate
      BY <1>0, <1>2, LocalsType DEF ScheduleUpdate, ScheduleCall
    <2>2. Schedules(req[r].pickup, req[r].date)
      BY <1>0, <1>2 DEF ScheduleUpdate, Schedules, Remembers, ScheduleMatches, PickupIn
    <2>. QED BY <2>1, <2>2 DEF Effect
  <1>3. ASSUME CompleteTx(r), ~UNCHANGED db PROVE Effect
    <2>1. req[r].payment \in PaymentRow
      BY <1>0, <1>3, LocalsType DEF CompleteTx, CompleteCall
    <2>2. req[r].payment.waste = req[r].pickup /\ BillFits(req[r].payment)
      BY <1>0, <1>3 DEF CompleteTx, Remembers
    <2>3. /\ CompleteMatches(req[r].pickup)
          /\ PaymentInsertError(req[r].payment) = "none"
          /\ pickups' = WithStatus({req[r].pickup}, "completed")
          /\ \E q \in PaymentId : InsertPayment(q, req[r].payment)
          /\ UNCHANGED households
      BY <1>3 DEF CompleteTx
    <2>. QED BY <2>1, <2>2, <2>3 DEF Effect, Completes, Bills
  <1>4. ASSUME NEW p \in PickupId, CancelUpdate(r, p) PROVE Effect
    <2>1. CASE CancelMatches(p)
      <3>1. Cancels({p})
        BY <1>4, <2>1 DEF CancelUpdate, Cancels
      <3>. QED BY <3>1 DEF Effect
    <2>2. CASE ~CancelMatches(p)
      BY <1>4, <2>2 DEF CancelUpdate, Effect, NoEffect, tables
    <2>. QED BY <2>1, <2>2
  <1>5. CASE UNCHANGED db
    BY <1>5 DEF db, Effect, NoEffect, tables
  <1>. QED BY <1>1, <1>2, <1>3, <1>4, <1>5
           DEF PickupServiceStep, CreatePickupValidate, CreatePickupCheck, ScheduleFind,
               CompleteFind, CancelFind, PickupStatementFails, DbFails

LEMMA PaymentServiceEffect ==
    ASSUME IInv, NEW r \in Request, PaymentServiceStep(r)
    PROVE  Effect
  <1>. USE DEF IInv, TypeOK
  <1>0. req[r] \in RequestState /\ Remembers(req[r])
    BY DEF RequestsInv
  <1>1. ASSUME CreatePaymentInsert(r), ~UNCHANGED db PROVE Effect
    <2>1. req[r].payment \in PaymentRow /\ BillFits(req[r].payment)
      BY <1>0, <1>1, LocalsType DEF CreatePaymentInsert, Remembers
    <2>2. \E q \in PaymentId : Bills(q, req[r].payment) /\ UNCHANGED pickups
      BY <1>1, <2>1 DEF CreatePaymentInsert, Bills
    <2>. QED BY <2>1, <2>2 DEF Effect
  <1>2. ASSUME ConfirmUpload(r) PROVE Effect
    BY <1>2 DEF ConfirmUpload, Effect, NoEffect
  <1>3. ASSUME ConfirmUpdate(r) PROVE Effect
    <2>1. CASE UNCHANGED payments
      BY <1>3, <2>1 DEF ConfirmUpdate, Effect, NoEffect, tables
    <2>2. CASE ~UNCHANGED payments
      <3>1. /\ req[r].payment \in PaymentId
            /\ req[r].key \in ProofKey
            /\ req[r].key[1] = req[r].payment
        BY <1>0, <1>3, LocalsType DEF ConfirmUpdate, Remembers
      <3>2. PICK u \in ProofId : req[r].key = <<req[r].payment, u>>
        BY <3>1 DEF ProofKey
      <3>3. Pays(req[r].payment, u)
        BY <1>3, <2>2, <3>2 DEF ConfirmUpdate, Pays
      <3>. QED BY <3>1, <3>3 DEF Effect
    <2>. QED BY <2>1, <2>2
  <1>4. CASE UNCHANGED db
    BY <1>4 DEF db, Effect, NoEffect, tables
  <1>. QED BY <1>1, <1>2, <1>3, <1>4
           DEF PaymentServiceStep, CreatePaymentValidate, CreatePaymentFind,
               PaymentStatementFails, DbFails, ConfirmFind, ConfirmCleanUp

LEMMA StepEffect ==
    ASSUME IInv, [Next]_vars
    PROVE  Effect
  <1>1. CASE PickupRequest
    BY <1>1, PickupServiceEffect DEF PickupRequest
  <1>2. CASE PaymentRequest
    BY <1>2, PaymentServiceEffect DEF PaymentRequest
  <1>3. CASE HouseholdRequest
    BY <1>3 DEF HouseholdRequest, HouseholdServiceStep, Effect
  <1>4. CASE Canceler /\ BulkCancel
    <2>1. Cancels(BulkCancelMatches(found))
      BY <1>4 DEF BulkCancel, Cancels, BulkCancelMatches, CancelMatches
    <2>2. BulkCancelMatches(found) \in SUBSET PickupId
      BY DEF IInv, TypeOK, CancelerTypeOK, BulkCancelMatches
    <2>. QED BY <2>1, <2>2 DEF Effect
  <1>5. CASE UNCHANGED db
    BY <1>5 DEF db, Effect, NoEffect, tables
  <1>. QED BY <1>1, <1>2, <1>3, <1>4, <1>5
           DEF Next, Canceler, OrganicCancelerStep, FindExpiredOrganic, CycleFails, Clock,
               Age, Crash, vars, db

(***************************************************************************)
(* What requests and clients know about the rows of the past stays true.   *)
(***************************************************************************)
LEMMA RemembersStays ==
    ASSUME TypeOK, RowsKept, NEW x \in RequestState, Remembers(x)
    PROVE  Remembers(x)'
  <1>1. ASSUME NEW bill \in PaymentRow, BillFits(bill) PROVE BillFits(bill)'
    <2>1. bill.waste \in PickupId \cap issued
      BY <1>1 DEF BillFits, PaymentRow
    <2>. QED BY <1>1, <2>1 DEF BillFits, RowsKept
  <1>2. ASSUME x.at = "schedule.update" PROVE Remembers(x)'
    <2>1. x.pickup \in PickupId \cap issued
      BY <1>2, LocalsType DEF Remembers, ScheduleCall
    <2>. QED BY <1>2, <2>1 DEF Remembers, RowsKept
  <1>3. ASSUME x.at \in {"complete.tx", "createPayment.insert"} PROVE Remembers(x)'
    <2>1. x.payment \in PaymentRow
      BY <1>3, LocalsType DEF CompleteCall
    <2>. QED BY <1>1, <1>3, <2>1 DEF Remembers
  <1>4. ASSUME x.at = "cancel.find" PROVE Remembers(x)'
    <2>1. CASE x.canceled
      <3>1. x.pickup \in PickupId \cap issued
        BY <1>4, <2>1, LocalsType DEF Remembers, CancelCall
      <3>. QED BY <1>4, <2>1, <3>1 DEF Remembers, RowsKept
    <2>2. CASE ~x.canceled
      BY <1>4, <2>2 DEF Remembers
    <2>. QED BY <2>1, <2>2
  <1>. QED BY <1>2, <1>3, <1>4 DEF Remembers

LEMMA AckStays ==
    ASSUME TypeOK, RowsKept, NEW ack \in Ack, AckInv(ack)
    PROVE  AckInv(ack)'
  <1>1. CASE ack.op = "confirm"
    <2>1. ack.payment \in PaymentId \cap issued
      BY <1>1 DEF Ack, AckInv
    <2>. QED BY <1>1, <2>1 DEF AckInv, Holds, RowsKept
  <1>2. CASE ack.op # "confirm"
    <2>1. ack.pickup \in PickupId \cap issued /\ ack.op \in {"schedule", "complete", "cancel"}
      BY <1>2 DEF Ack, AckInv
    <2>2. CASE ~PickupExists(ack.pickup)'
      BY <1>2, <2>1, <2>2 DEF AckInv, Holds, RowsKept, PickupExists
    <2>3. CASE PickupExists(ack.pickup)'
      <3>1. CASE ack.op = "schedule"
        BY <2>1, <2>3, <3>1 DEF AckInv, Holds, RowsKept, PickupExists
      <3>2. CASE ack.op = "complete"
        BY <2>1, <2>3, <3>2 DEF AckInv, Holds, RowsKept, PickupExists
      <3>3. CASE ack.op = "cancel"
        BY <2>1, <2>3, <3>3 DEF AckInv, Holds, RowsKept, PickupExists
      <3>. QED BY <2>1, <3>1, <3>2, <3>3
    <2>. QED BY <2>2, <2>3
  <1>. QED BY <1>1, <1>2

\* A request that goes on remembers what holds, and a reply says what holds.
LEMMA SlotInv ==
    ASSUME TypeOK, RequestsInv, AcksInv, RowsKept, NEW r \in Request
    PROVE  /\ \A x : Proceed(r, x) /\ Remembers(x)' => RequestsInv' /\ AcksInv'
           /\ \A e : Refuse(r, e) => RequestsInv' /\ AcksInv'
           /\ \A acks \in SUBSET Ack :
                 (Committed(r, acks) \/ Respond(r, acks)) /\ (\A a \in acks : AckInv(a)')
                 => RequestsInv' /\ AcksInv'
  <1>1. ASSUME NEW x, req' = [req EXCEPT ![r] = x], Remembers(x)' PROVE RequestsInv'
    <2>. SUFFICES ASSUME NEW s \in Request PROVE Remembers(req[s])'
      BY DEF RequestsInv
    <2>1. CASE s = r
      BY <1>1, <2>1 DEF TypeOK
    <2>2. CASE s # r
      <3>1. req'[s] = req[s] /\ req[s] \in RequestState /\ Remembers(req[s])
        BY <1>1, <2>2 DEF TypeOK, RequestsInv
      <3>2. ASSUME NEW y, y = req[s] PROVE Remembers(y)'
        BY <3>1, <3>2, RemembersStays
      <3>. QED BY <3>1, <3>2 DEF Remembers
    <2>. QED BY <2>1, <2>2
  <1>2. Remembers(Idle)'
    BY DEF Remembers, Idle
  <1>3. ASSUME acked' = acked PROVE AcksInv'
    BY <1>3, AckStays DEF AcksInv, TypeOK
  <1>4. ASSUME NEW acks \in SUBSET Ack, acked' = acked \cup acks, \A a \in acks : AckInv(a)'
        PROVE  AcksInv'
    BY <1>4, AckStays DEF AcksInv, TypeOK
  <1>. QED BY <1>1, <1>2, <1>3, <1>4 DEF Proceed, Refuse, Committed, Respond


LEMMA PickupServiceInv ==
    ASSUME IInv, RowsKept, NEW r \in Request, PickupServiceStep(r)
    PROVE  RequestsInv' /\ AcksInv'
  <1>. USE DEF IInv
  <1>0. req[r] \in RequestState /\ Remembers(req[r])
    BY DEF TypeOK, RequestsInv
  <1>1. ASSUME NEW h \in HouseholdId, NEW t \in Types, NEW s \in BOOLEAN,
               CreatePickupValidate(r, h, t, s)
        PROVE  RequestsInv' /\ AcksInv'
    BY <1>1, SlotInv DEF CreatePickupValidate, Remembers
  <1>2. ASSUME CreatePickupCheck(r) PROVE RequestsInv' /\ AcksInv'
    <2>. DEFINE x == [req[r] EXCEPT !.at = "createPickup.insert"]
    <2>1. req[r] \in CreatePickupCall
      BY <1>0, <1>2, LocalsType DEF CreatePickupCheck
    <2>2. Proceed(r, x) \/ Refuse(r, "conflict")
      BY <1>2 DEF CreatePickupCheck
    <2>3. ASSUME NEW y, y = x PROVE Remembers(y)'
      BY <2>1, <2>3 DEF Remembers, CreatePickupCall
    <2>. QED BY <2>2, <2>3, SlotInv
  <1>3. ASSUME CreatePickupInsert(r) PROVE RequestsInv' /\ AcksInv'
    BY <1>3, SlotInv DEF CreatePickupInsert
  <1>4. ASSUME NEW p \in PickupId, NEW d \in PickupDate, NEW future \in BOOLEAN,
               ScheduleFind(r, p, d, future)
        PROVE  RequestsInv' /\ AcksInv'
    <2>. DEFINE x == [at |-> "schedule.update", pickup |-> p, date |-> d]
    <2>1. CASE ScheduleError(pickups[p], future) = "none"
      <3>1. PickupExists(p) /\ SafeToCollect(pickups[p].type, pickups[p].safety)
        BY <2>1 DEF ScheduleError, PickupExists
      <3>2. Remembers(x) /\ x \in RequestState
        BY <3>1 DEF Remembers, TablesInv, KeysIssued, RequestState, PickupCall, ScheduleCall
      <3>. QED BY <1>4, <2>1, <3>2, SlotInv, RemembersStays DEF ScheduleFind
    <2>2. CASE ScheduleError(pickups[p], future) # "none"
      BY <1>4, <2>2, SlotInv DEF ScheduleFind
    <2>. QED BY <2>1, <2>2
  <1>5. ASSUME ScheduleUpdate(r) PROVE RequestsInv' /\ AcksInv'
    <2>. DEFINE p == req[r].pickup
                d == req[r].date
                ack == [op |-> "schedule", pickup |-> p, date |-> d]
    <2>1. p \in PickupId /\ d \in PickupDate /\ p \in issued /\ ack \in Ack
      BY <1>0, <1>5, LocalsType DEF ScheduleUpdate, ScheduleCall, Remembers, Ack
    <2>2. CASE ScheduleMatches(p)
      <3>1. /\ pickups' = Scheduled(p, d)
            /\ issued' = issued
            /\ Committed(r, {ack})
        BY <1>5, <2>2 DEF ScheduleUpdate
      <3>2. pickups[p] \in PickupRow
        BY <2>1, <2>2 DEF ScheduleMatches, PickupIn, PickupExists, TypeOK, DbTypeOK
      <3>3. pickups'[p] = [pickups[p] EXCEPT !.status = "scheduled", !.date = d]
        BY <2>1, <3>1 DEF Scheduled, TypeOK, DbTypeOK
      <3>4. pickups'[p].status = "scheduled" /\ pickups'[p].date = d
        BY <3>2, <3>3 DEF PickupRow
      <3>5. ASSUME NEW a, a = ack PROVE AckInv(a)'
        BY <2>1, <3>1, <3>4, <3>5 DEF AckInv, Holds
      <3>. QED BY <2>1, <3>1, <3>5, SlotInv
    <2>3. CASE ~ScheduleMatches(p)
      BY <1>5, <2>3, SlotInv DEF ScheduleUpdate
    <2>. QED BY <2>2, <2>3
  <1>6. ASSUME NEW p \in PickupId, CompleteFind(r, p) PROVE RequestsInv' /\ AcksInv'
    <2>. DEFINE row == pickups[p]
                bill == NewPayment(row.household, p, row.type)
                x == [at |-> "complete.tx", pickup |-> p, payment |-> bill]
    <2>1. CASE row # NoRow /\ row.status = "scheduled"
      <3>1. row \in PickupRow /\ p \in issued
        BY <2>1 DEF TypeOK, DbTypeOK, TablesInv, KeysIssued, PickupExists
      <3>2. bill \in PaymentRow
        BY <3>1, NewPaymentType DEF PickupRow
      <3>3. BillFits(bill) /\ bill.waste = p
        BY <3>1 DEF BillFits, NewPayment
      <3>4. Remembers(x) /\ x \in RequestState
        BY <3>2, <3>3 DEF Remembers, RequestState, PickupCall, CompleteCall
      <3>. QED BY <1>6, <2>1, <3>4, SlotInv, RemembersStays DEF CompleteFind
    <2>2. CASE ~(row # NoRow /\ row.status = "scheduled")
      BY <1>6, <2>2, SlotInv DEF CompleteFind
    <2>. QED BY <2>1, <2>2
  <1>7. ASSUME CompleteTx(r) PROVE RequestsInv' /\ AcksInv'
    <2>. DEFINE p == req[r].pickup
                ack == [op |-> "complete", pickup |-> p]
                error == IF CompleteMatches(p) THEN PaymentInsertError(req[r].payment)
                         ELSE "conflict"
    <2>1. p \in PickupId /\ p \in issued /\ ack \in Ack
      BY <1>0, <1>7, LocalsType DEF CompleteTx, CompleteCall, Remembers, BillFits, Ack
    <2>2. CASE error = "none"
      <3>1. CompleteMatches(p)
        BY <2>2
      <3>2. pickups' = WithStatus({p}, "completed") /\ Committed(r, {ack})
        BY <1>7, <2>2 DEF CompleteTx
      <3>3. pickups[p] \in PickupRow
        BY <2>1, <3>1 DEF CompleteMatches, PickupIn, PickupExists, TypeOK, DbTypeOK
      <3>4. pickups'[p].status = "completed"
        BY <2>1, <3>2, <3>3 DEF WithStatus, PickupRow
      <3>5. ASSUME NEW a, a = ack PROVE AckInv(a)'
        BY <2>1, <3>4, <3>5 DEF AckInv, Holds, RowsKept
      <3>. QED BY <2>1, <3>2, <3>5, SlotInv
    <2>3. CASE error # "none"
      BY <1>7, <2>3, SlotInv DEF CompleteTx
    <2>. QED BY <2>2, <2>3
  <1>8. ASSUME NEW p \in PickupId, CancelUpdate(r, p) PROVE RequestsInv' /\ AcksInv'
    <2>. DEFINE x == [at |-> "cancel.find", pickup |-> p, canceled |-> CancelMatches(p)]
    <2>1. ASSUME NEW y, y = x PROVE Remembers(y)'
      <3>1. CASE CancelMatches(p)
        <4>1. pickups[p] \in PickupRow /\ p \in issued
          BY <3>1 DEF CancelMatches, PickupIn, PickupExists, TypeOK, DbTypeOK, TablesInv,
                      KeysIssued
        <4>2. pickups'[p].status = "canceled"
          BY <1>8, <3>1, <4>1 DEF CancelUpdate, WithStatus, PickupRow
        <4>. QED BY <2>1, <4>1, <4>2 DEF Remembers, RowsKept
      <3>2. CASE ~CancelMatches(p)
        BY <2>1, <3>2 DEF Remembers
      <3>. QED BY <3>1, <3>2
    <2>2. Proceed(r, x) \/ Refuse(r, "internal")
      BY <1>8 DEF CancelUpdate
    <2>. QED BY <2>1, <2>2, SlotInv
  <1>9. ASSUME CancelFind(r) PROVE RequestsInv' /\ AcksInv'
    <2>. DEFINE p == req[r].pickup
                ack == [op |-> "cancel", pickup |-> p]
    <2>1. p \in PickupId /\ ack \in Ack
      BY <1>0, <1>9, LocalsType DEF CancelFind, CancelCall, Ack
    <2>2. CASE PickupExists(p) /\ req[r].canceled
      <3>1. AckInv(ack)
        BY <1>0, <1>9, <2>2 DEF CancelFind, Remembers, AckInv, Holds, PickupExists
      <3>2. ASSUME NEW a, a = ack PROVE AckInv(a)'
        BY <2>1, <3>1, <3>2, AckStays
      <3>. QED BY <1>9, <2>1, <2>2, <3>2, SlotInv DEF CancelFind
    <2>3. CASE ~(PickupExists(p) /\ req[r].canceled)
      BY <1>9, <2>3, SlotInv DEF CancelFind
    <2>. QED BY <2>2, <2>3
  <1>10. ASSUME PickupStatementFails(r) PROVE RequestsInv' /\ AcksInv'
    BY <1>10, SlotInv DEF PickupStatementFails, DbFails
  <1>. QED BY <1>1, <1>2, <1>3, <1>4, <1>5, <1>6, <1>7, <1>8, <1>9, <1>10
           DEF PickupServiceStep


LEMMA PaymentServiceInv ==
    ASSUME IInv, RowsKept, NEW r \in Request, PaymentServiceStep(r)
    PROVE  RequestsInv' /\ AcksInv'
  <1>. USE DEF IInv
  <1>0. req[r] \in RequestState /\ Remembers(req[r])
    BY DEF TypeOK, RequestsInv
  <1>1. ASSUME NEW h \in HouseholdId, NEW p \in PickupId, CreatePaymentValidate(r, h, p)
        PROVE  RequestsInv' /\ AcksInv'
    BY <1>1, SlotInv DEF CreatePaymentValidate, Remembers
  <1>2. ASSUME CreatePaymentFind(r) PROVE RequestsInv' /\ AcksInv'
    <2>. DEFINE h == req[r].household
                p == req[r].pickup
                row == pickups[p]
                bill == NewPayment(h, p, row.type)
                x == [at |-> "createPayment.insert", payment |-> bill]
    <2>1. h \in HouseholdId /\ p \in PickupId
      BY <1>0, <1>2, LocalsType DEF CreatePaymentFind
    <2>2. CASE row # NoRow /\ row.household = h
      <3>1. row \in PickupRow /\ p \in issued
        BY <2>1, <2>2 DEF TypeOK, DbTypeOK, TablesInv, KeysIssued, PickupExists
      <3>2. bill \in PaymentRow
        BY <2>1, <3>1, NewPaymentType DEF PickupRow
      <3>3. BillFits(bill)
        BY <2>2, <3>1 DEF BillFits, NewPayment
      <3>4. Remembers(x) /\ x \in RequestState
        BY <3>2, <3>3 DEF Remembers, RequestState, PaymentCall, CreatePaymentCall
      <3>. QED BY <1>2, <2>2, <3>4, SlotInv, RemembersStays DEF CreatePaymentFind
    <2>3. CASE ~(row # NoRow /\ row.household = h)
      BY <1>2, <2>3, SlotInv DEF CreatePaymentFind
    <2>. QED BY <2>2, <2>3
  <1>3. ASSUME CreatePaymentInsert(r) PROVE RequestsInv' /\ AcksInv'
    BY <1>3, SlotInv DEF CreatePaymentInsert
  <1>4. ASSUME PaymentStatementFails(r) PROVE RequestsInv' /\ AcksInv'
    BY <1>4, SlotInv DEF PaymentStatementFails, DbFails
  <1>5. ASSUME NEW q \in PaymentId, NEW hasProof \in BOOLEAN, ConfirmFind(r, q, hasProof)
        PROVE  RequestsInv' /\ AcksInv'
    BY <1>5, SlotInv DEF ConfirmFind, Remembers
  <1>6. ASSUME ConfirmUpload(r) PROVE RequestsInv' /\ AcksInv'
    <2>1. PICK u \in ProofId :
             \/ Proceed(r, [at |-> "confirm.update", payment |-> req[r].payment,
                            key |-> <<req[r].payment, u>>])
             \/ Refuse(r, "internal")
      BY <1>6 DEF ConfirmUpload
    <2>2. ASSUME NEW x, x = [at |-> "confirm.update", payment |-> req[r].payment,
                             key |-> <<req[r].payment, u>>]
          PROVE  Remembers(x)'
      BY <2>2 DEF Remembers
    <2>. QED BY <2>1, <2>2, SlotInv
  <1>7. ASSUME ConfirmUpdate(r) PROVE RequestsInv' /\ AcksInv'
    <2>. DEFINE q == req[r].payment
                key == req[r].key
                ack == [op |-> "confirm", payment |-> q, proof |-> key]
    <2>1. q \in PaymentId /\ key \in ProofKey /\ ack \in Ack
      BY <1>0, <1>7, LocalsType DEF ConfirmUpdate, Ack
    <2>2. ASSUME ConfirmMatches(q), payments' = Paid(q, key), Respond(r, {ack})
          PROVE  RequestsInv' /\ AcksInv'
      <3>1. payments[q] \in PaymentRow /\ q \in issued
        BY <2>1, <2>2 DEF ConfirmMatches, PaymentExists, TypeOK, DbTypeOK, TablesInv, KeysIssued
      <3>2. payments'[q].status = "paid" /\ payments'[q].proof = key
        BY <2>1, <2>2, <3>1 DEF Paid, PaymentRow, TypeOK, DbTypeOK
      <3>3. ASSUME NEW a, a = ack PROVE AckInv(a)'
        BY <3>1, <3>2, <3>3 DEF AckInv, Holds, RowsKept
      <3>. QED BY <2>1, <2>2, <3>3, SlotInv
    <2>3. ASSUME NEW e, Proceed(r, [at |-> "confirm.cleanup", key |-> key, error |-> e])
          PROVE  RequestsInv' /\ AcksInv'
      <3>1. ASSUME NEW x, x = [at |-> "confirm.cleanup", key |-> key, error |-> e]
            PROVE  Remembers(x)'
        BY <3>1 DEF Remembers
      <3>. QED BY <2>3, <3>1, SlotInv
    <2>. QED BY <1>7, <2>2, <2>3 DEF ConfirmUpdate
  <1>8. ASSUME ConfirmCleanUp(r) PROVE RequestsInv' /\ AcksInv'
    BY <1>8, SlotInv DEF ConfirmCleanUp
  <1>. QED BY <1>1, <1>2, <1>3, <1>4, <1>5, <1>6, <1>7, <1>8 DEF PaymentServiceStep

(***************************************************************************)
(* The invariant is inductive.                                             *)
(***************************************************************************)
LEMMA InvInit == Init => IInv
  <1>. SUFFICES ASSUME Init PROVE IInv
    OBVIOUS
  <1>. USE DEF Init, DbInit, ReqInit, CancelerInit
  <1>1. TypeOK
    BY DEF TypeOK, DbTypeOK, CancelerTypeOK, RequestState
  <1>2. TablesInv
    BY DEF TablesInv, KeysIssued, NoFailedPayment, ReferentialIntegrity,
           PaymentMatchesPickup, BilledOnce, CompletedHasPayment, ElectronicIsSafe,
           PickupIn, PickupExists, PaymentExists
  <1>3. RequestsInv /\ AcksInv
    BY DEF RequestsInv, Remembers, Idle, AcksInv
  <1>. QED BY <1>1, <1>2, <1>3 DEF IInv

LEMMA InvStep == IInv /\ [Next]_vars => IInv'
  <1>. SUFFICES ASSUME IInv, [Next]_vars PROVE IInv'
    OBVIOUS
  <1>1. TypeOK'
    BY TypeStep DEF IInv
  <1>2. Effect
    BY StepEffect
  <1>3. TablesInv' /\ RowsKept
    BY <1>2, EffectTables, EffectKeepsRows DEF IInv, TypeOK
  <1>4. RequestsInv' /\ AcksInv'
    <2>1. CASE PickupRequest
      BY <1>3, <2>1, PickupServiceInv DEF PickupRequest
    <2>2. CASE PaymentRequest
      BY <1>3, <2>2, PaymentServiceInv DEF PaymentRequest
    <2>3. CASE UNCHANGED <<req, acked>>
      <3>1. \A r \in Request : req'[r] = req[r] /\ req[r] \in RequestState
        BY <2>3 DEF IInv, TypeOK
      <3>2. \A x \in RequestState : Remembers(x) => Remembers(x)'
        BY <1>3, RemembersStays DEF IInv
      <3>3. RequestsInv'
        BY <2>3, <3>1, <3>2 DEF IInv, RequestsInv
      <3>4. AcksInv'
        BY <1>3, <2>3, AckStays DEF IInv, AcksInv, TypeOK
      <3>. QED BY <3>3, <3>4
    <2>4. CASE Crash
      <3>1. RequestsInv'
        BY <2>4 DEF Crash, RequestsInv, Remembers, Idle
      <3>2. AcksInv'
        BY <1>3, <2>4, AckStays DEF Crash, IInv, AcksInv, TypeOK
      <3>. QED BY <3>1, <3>2
    <2>. QED BY <2>1, <2>2, <2>3, <2>4 DEF Next, HouseholdRequest, Canceler, Clock, vars
  <1>. QED BY <1>1, <1>3, <1>4 DEF IInv

\* The inductive invariant: tables, what requests in flight remember of them, and what
\* clients were told fit together after every step.
THEOREM InvAlways == Spec => []IInv
  BY InvInit, InvStep, PTL DEF Spec

(***************************************************************************)
(* Theorems: the invariants.                                               *)
(***************************************************************************)
\* Foreign keys hold in every reachable state, however deletions of households
\* fall between the statements of a request.
THEOREM ReferencesIntact == Spec => []ReferentialIntegrity
  <1>1. IInv => ReferentialIntegrity
    BY DEF IInv, TablesInv
  <1>. QED BY <1>1, InvAlways, PTL

\* Every payment names the household and the price of its pickup, though both
\* services build it from a row read by an earlier statement.
THEOREM BillsMatch == Spec => []PaymentMatchesPickup
  <1>1. IInv => PaymentMatchesPickup
    BY DEF IInv, TablesInv
  <1>. QED BY <1>1, InvAlways, PTL

\* No pickup is billed twice and no household owes two pending payments, whatever
\* completions and POST /api/payments run concurrently.
THEOREM BillingUnique == Spec => []BilledOnce
  <1>1. IInv => BilledOnce
    BY DEF IInv, TablesInv
  <1>. QED BY <1>1, InvAlways, PTL

\* BR-05: a completed pickup has its payment, in spite of failed statements, lost
\* replies and crashes.
THEOREM CompletionIsBilled == Spec => []CompletedHasPayment
  <1>1. IInv => CompletedHasPayment
    BY DEF IInv, TablesInv
  <1>. QED BY <1>1, InvAlways, PTL

\* BR-03: Schedule checks a row it read before the UPDATE, and that is enough.
THEOREM ElectronicChecked == Spec => []ElectronicIsSafe
  <1>1. IInv => ElectronicIsSafe
    BY DEF IInv, TablesInv
  <1>. QED BY <1>1, InvAlways, PTL

\* What a 2xx reply of schedule, complete, cancel or confirm told the client stays
\* true of the row for as long as the row exists.
THEOREM RepliesHold == Spec => []AckedRepliesHold
  <1>1. IInv => AckedRepliesHold
    BY DEF IInv, AcksInv, AckInv, AckedRepliesHold
  <1>. QED BY <1>1, InvAlways, PTL

(***************************************************************************)
(* Theorem: a pickup billed early is never completed.                      *)
(***************************************************************************)
LEMMA BilledStaysUncompleted ==
    ASSUME IInv, Effect, NEW p \in PickupId, NEW q \in PaymentId,
           PaymentExists(q), payments[q].waste = p,
           PickupExists(p), pickups[p].status # "completed"
    PROVE  ~PickupIn(p, {"completed"})'
  <1>. USE DEF IInv, TypeOK, DbTypeOK, PickupIn, PickupExists
  <1>1. pickups[p] \in PickupRow /\ p \in issued
    BY DEF TablesInv, KeysIssued
  <1>2. ASSUME NEW x \in PickupId, NEW h \in HouseholdId, NEW t \in Types,
               NEW s \in BOOLEAN, Inserts(x, h, t, s)
        PROVE  ~PickupIn(p, {"completed"})'
    BY <1>1, <1>2 DEF Inserts, InsertPickup
  <1>3. ASSUME NEW x \in PickupId, NEW d \in PickupDate, Schedules(x, d)
        PROVE  ~PickupIn(p, {"completed"})'
    BY <1>1, <1>3 DEF Schedules, Scheduled, PickupRow
  <1>4. ASSUME NEW x \in PaymentId, NEW bill \in PaymentRow, Completes(x, bill)
        PROVE  ~PickupIn(p, {"completed"})'
    <2>1. bill.waste # p
      BY <1>4 DEF Completes, Bills, PaymentInsertError, PaymentClash
    <2>. QED BY <1>4, <2>1 DEF Completes, WithStatus
  <1>5. ASSUME NEW P \in SUBSET PickupId, Cancels(P)
        PROVE  ~PickupIn(p, {"completed"})'
    BY <1>1, <1>5 DEF Cancels, WithStatus, PickupRow
  <1>6. ASSUME NEW h \in HouseholdId, DeleteHousehold(h)
        PROVE  ~PickupIn(p, {"completed"})'
    BY <1>6 DEF DeleteHousehold, PickupsWithout
  <1>7. CASE UNCHANGED pickups
    BY <1>7
  <1>. QED BY <1>2, <1>3, <1>4, <1>5, <1>6, <1>7
           DEF Effect, Pays, CreateHousehold, NoEffect, tables

\* POST /api/payments does not look at the status of the pickup; this is what
\* follows: the bill it inserts early makes every later completion fail.
THEOREM EarlyBillIsFinal == Spec => EarlyBillBlocksCompletion
  <1>1. IInv /\ [Next]_vars =>
           [\A p \in PickupId, q \in PaymentId :
              /\ PaymentExists(q) /\ payments[q].waste = p
              /\ PickupExists(p) /\ pickups[p].status # "completed"
              => ~PickupIn(p, {"completed"})']_vars
    BY StepEffect, BilledStaysUncompleted
  <1>. QED BY <1>1, InvAlways, PTL DEF Spec, EarlyBillBlocksCompletion

(***************************************************************************)
(* Theorem: the system implements its contract.                            *)
(***************************************************************************)
\* Interleaved with whatever else, every statement is one business operation of the
\* contract, or does nothing a client could see in the tables.
THEOREM Implementation == Spec => ImplementsContract
  <1>1. Init => Contract!ContractInit
    BY DEF Init, DbInit, Contract!ContractInit
  <1>2. IInv /\ [Next]_vars => [Contract!ContractNext]_(Contract!contractVars)
    BY StepEffect, EffectIsContractStep DEF IInv, TypeOK
  <1>. QED BY <1>1, <1>2, InvAlways, PTL DEF Spec, ImplementsContract, Contract!ContractSpec

(***************************************************************************)
(* Theorem: BR-01 fails by one race only.                                  *)
(***************************************************************************)
\* One request has passed the gate for a household another one is about to bill.
GateRace == \E r, s \in Request :
    /\ req[r].at = "createPickup.insert"
    /\ req[s].at \in {"complete.tx", "createPayment.insert"}
    /\ req[s].payment.household = req[r].household

\* A request past the gate is right about the household's payments.
GateInv == \A r \in Request :
    req[r].at = "createPickup.insert" => ~HasPendingPaymentForHousehold(req[r].household)

\* A household comes to owe something only by the step of a request that bills it.
LEMMA NewDebt ==
    ASSUME IInv, [Next]_vars, NEW h, HasPendingPaymentForHousehold(h)'
    PROVE  \/ HasPendingPaymentForHousehold(h)
           \/ \E s \in Request : /\ req[s].at \in {"complete.tx", "createPayment.insert"}
                                 /\ req[s].payment.household = h
  <1>. USE DEF IInv, TypeOK, DbTypeOK, PaymentExists, HasPendingPaymentForHousehold
  <1>1. ASSUME NEW s \in Request, NEW q \in PaymentId, InsertPayment(q, req[s].payment),
               req[s].at \in {"complete.tx", "createPayment.insert"}
        PROVE  \/ HasPendingPaymentForHousehold(h)
               \/ req[s].payment.household = h
    BY <1>1 DEF InsertPayment
  <1>2. ASSUME NEW q \in PaymentId, NEW u \in ProofId, Pays(q, u)
        PROVE  HasPendingPaymentForHousehold(h)
    <2>1. payments[q] \in PaymentRow
      BY <1>2 DEF Pays, ConfirmMatches
    <2>2. payments'[q].status = "paid"
      BY <1>2, <2>1 DEF Pays, Paid, PaymentRow
    <2>3. \A x \in PaymentId : x # q => payments'[x] = payments[x]
      BY <1>2 DEF Pays, Paid
    <2>. QED BY <2>2, <2>3
  <1>3. CASE \A x \in PaymentId : payments'[x] \in {NoRow, payments[x]}
    BY <1>3
  <1>4. ASSUME NEW s \in Request, CompleteTx(s)
        PROVE  \/ \E q \in PaymentId : InsertPayment(q, req[s].payment)
               \/ UNCHANGED payments
    BY <1>4 DEF CompleteTx, db, tables
  <1>5. ASSUME NEW s \in Request, CreatePaymentInsert(s)
        PROVE  \/ \E q \in PaymentId : InsertPayment(q, req[s].payment)
               \/ UNCHANGED payments
    BY <1>5 DEF CreatePaymentInsert, db, tables
  <1>6. ASSUME NEW s \in Request, ConfirmUpdate(s)
        PROVE  \/ \E q \in PaymentId, u \in ProofId : Pays(q, u)
               \/ UNCHANGED payments
    <2>1. CASE UNCHANGED payments
      BY <2>1
    <2>2. CASE ~UNCHANGED payments
      <3>1. /\ req[s].payment \in PaymentId
            /\ req[s].key \in ProofKey
            /\ req[s].key[1] = req[s].payment
        BY <1>6, LocalsType DEF ConfirmUpdate, RequestsInv, Remembers
      <3>2. PICK u \in ProofId : req[s].key = <<req[s].payment, u>>
        BY <3>1 DEF ProofKey
      <3>. QED BY <1>6, <2>2, <3>1, <3>2 DEF ConfirmUpdate, Pays
    <2>. QED BY <2>1, <2>2
  <1>7. ASSUME NEW x \in HouseholdId, DeleteHousehold(x)
        PROVE  \A q \in PaymentId : payments'[q] \in {NoRow, payments[q]}
    BY <1>7 DEF DeleteHousehold, PaymentsWithout
  <1>8. \/ \E s \in Request : CompleteTx(s) \/ CreatePaymentInsert(s) \/ ConfirmUpdate(s)
        \/ \E x \in HouseholdId : DeleteHousehold(x)
        \/ UNCHANGED payments
    <2>1. ASSUME NEW s \in Request, PickupServiceStep(s)
          PROVE  CompleteTx(s) \/ UNCHANGED payments
      BY <2>1 DEF PickupServiceStep, CreatePickupValidate, CreatePickupCheck,
                  CreatePickupInsert, ScheduleFind, ScheduleUpdate, CompleteFind,
                  CancelUpdate, CancelFind, PickupStatementFails, DbFails, db, tables
    <2>2. ASSUME NEW s \in Request, PaymentServiceStep(s)
          PROVE  CreatePaymentInsert(s) \/ ConfirmUpdate(s) \/ UNCHANGED payments
      BY <2>2 DEF PaymentServiceStep, CreatePaymentValidate, CreatePaymentFind,
                  PaymentStatementFails, DbFails, ConfirmFind, ConfirmUpload,
                  ConfirmCleanUp, db, tables
    <2>. QED BY <2>1, <2>2
             DEF Next, PickupRequest, PaymentRequest, HouseholdRequest, HouseholdServiceStep,
                 CreateHousehold, Canceler, OrganicCancelerStep, FindExpiredOrganic,
                 BulkCancel, CycleFails, Clock, Age, Crash, vars, db, tables
  <1>9. ASSUME NEW s \in Request, CompleteTx(s) \/ CreatePaymentInsert(s)
        PROVE  \/ HasPendingPaymentForHousehold(h)
               \/ req[s].at \in {"complete.tx", "createPayment.insert"}
                  /\ req[s].payment.household = h
    <2>1. req[s].at \in {"complete.tx", "createPayment.insert"}
      BY <1>9 DEF CompleteTx, CreatePaymentInsert
    <2>2. CASE UNCHANGED payments
      BY <2>2
    <2>3. CASE \E q \in PaymentId : InsertPayment(q, req[s].payment)
      BY <1>1, <2>1, <2>3
    <2>. QED BY <1>4, <1>5, <1>9, <2>1, <2>2, <2>3
  <1>10. CASE UNCHANGED payments
    BY <1>10
  <1>11. CASE \E s \in Request : CompleteTx(s) \/ CreatePaymentInsert(s)
    BY <1>9, <1>11
  <1>12. CASE \E s \in Request : ConfirmUpdate(s)
    BY <1>2, <1>6, <1>10, <1>12
  <1>13. CASE \E x \in HouseholdId : DeleteHousehold(x)
    BY <1>3, <1>7, <1>13
  <1>. QED BY <1>8, <1>10, <1>11, <1>12, <1>13

\* A slot is past the gate because it was before, or has just seen no debt.
LEMMA PastTheGate ==
    ASSUME IInv, [Next]_vars, NEW r \in Request, req'[r].at = "createPickup.insert"
    PROVE  \/ req'[r] = req[r]
           \/ /\ UNCHANGED payments
              /\ ~HasPendingPaymentForHousehold(req[r].household)
              /\ req'[r].household = req[r].household
  <1>. USE DEF IInv, TypeOK
  <1>1. ASSUME NEW s \in Request, NEW x, req' = [req EXCEPT ![s] = x],
               x.at # "createPickup.insert"
        PROVE  req'[r] = req[r]
    BY <1>1
  <1>2. ASSUME NEW s \in Request, CreatePickupCheck(s)
        PROVE  \/ req'[r] = req[r]
               \/ /\ UNCHANGED payments
                  /\ ~HasPendingPaymentForHousehold(req[r].household)
                  /\ req'[r].household = req[r].household
    <2>1. req[s] \in CreatePickupCall
      BY <1>2, LocalsType DEF CreatePickupCheck
    <2>2. UNCHANGED payments
      BY <1>2 DEF CreatePickupCheck, db, tables
    <2>3. CASE HasPendingPaymentForHousehold(req[s].household)
      BY <1>1, <1>2, <2>3 DEF CreatePickupCheck, Refuse, Idle
    <2>4. CASE ~HasPendingPaymentForHousehold(req[s].household)
      BY <1>2, <2>1, <2>2, <2>4 DEF CreatePickupCheck, Proceed, CreatePickupCall
    <2>. QED BY <2>3, <2>4
  <1>3. ASSUME NEW s \in Request, PickupServiceStep(s), ~CreatePickupCheck(s)
        PROVE  req'[r] = req[r]
    <2>1. CASE CreatePickupInsert(s)
      BY <1>1, <2>1 DEF CreatePickupInsert, Refuse, Respond, Committed, Idle
    <2>2. CASE CompleteTx(s)
      BY <1>1, <2>2 DEF CompleteTx, Refuse, Respond, Committed, Idle
    <2>3. ASSUME NEW p \in PickupId, NEW d \in PickupDate, NEW future \in BOOLEAN,
                 ScheduleFind(s, p, d, future)
          PROVE  req'[r] = req[r]
      BY <1>1, <2>3 DEF ScheduleFind, Refuse, Proceed, Idle
    <2>4. ASSUME NEW p \in PickupId, CompleteFind(s, p)
          PROVE  req'[r] = req[r]
      BY <1>1, <2>4 DEF CompleteFind, Refuse, Proceed, Idle
    <2>5. ASSUME NEW h \in HouseholdId, NEW type \in Types, NEW safety \in BOOLEAN,
                 CreatePickupValidate(s, h, type, safety)
          PROVE  req'[r] = req[r]
      BY <1>1, <2>5 DEF CreatePickupValidate, Refuse, Proceed, Idle
    <2>6. ASSUME NEW p \in PickupId, CancelUpdate(s, p)
          PROVE  req'[r] = req[r]
      BY <1>1, <2>6 DEF CancelUpdate, Proceed, Refuse, Respond, Committed, Idle
    <2>7. CASE ScheduleUpdate(s)
      BY <1>1, <2>7 DEF ScheduleUpdate, Refuse, Respond, Committed, Idle
    <2>8. CASE CancelFind(s)
      BY <1>1, <2>8 DEF CancelFind, Refuse, Respond, Idle
    <2>9. CASE PickupStatementFails(s)
      BY <1>1, <2>9 DEF PickupStatementFails, DbFails, Refuse, Idle
    <2>. QED BY <1>3, <2>1, <2>2, <2>3, <2>4, <2>5, <2>6, <2>7, <2>8, <2>9
             DEF PickupServiceStep
  <1>4. ASSUME NEW s \in Request, PaymentServiceStep(s) PROVE req'[r] = req[r]
    <2>1. CASE ConfirmUpdate(s)
      BY <1>1, <2>1 DEF ConfirmUpdate, Proceed, Respond, Idle
    <2>2. CASE ConfirmUpload(s)
      BY <1>1, <2>2 DEF ConfirmUpload, Proceed, Refuse, Idle
    <2>3. CASE CreatePaymentInsert(s)
      BY <1>1, <2>3 DEF CreatePaymentInsert, Refuse, Respond, Committed, Idle
    <2>4. CASE CreatePaymentFind(s)
      BY <1>1, <2>4 DEF CreatePaymentFind, Refuse, Proceed, Idle
    <2>. QED BY <1>1, <1>4, <2>1, <2>2, <2>3, <2>4
             DEF PaymentServiceStep, CreatePaymentValidate, PaymentStatementFails, DbFails,
                 ConfirmFind, ConfirmCleanUp, Proceed, Refuse, Idle
  <1>5. ~Crash
    BY DEF Crash, Idle
  <1>. QED BY <1>2, <1>3, <1>4, <1>5
           DEF Next, PickupRequest, PaymentRequest, HouseholdRequest, Canceler, Clock, vars

LEMMA GateStep ==
    ASSUME IInv, GateInv, ~GateRace, [Next]_vars
    PROVE  GateInv'
  <1>. SUFFICES ASSUME NEW r \in Request, req'[r].at = "createPickup.insert",
                       NEW h, h = req'[r].household, HasPendingPaymentForHousehold(h)'
                PROVE  FALSE
    BY DEF GateInv, HasPendingPaymentForHousehold, PaymentExists
  <1>1. CASE req'[r] = req[r]
    <2>1. req[r].at = "createPickup.insert" /\ req[r].household = h
      BY <1>1
    <2>2. ~HasPendingPaymentForHousehold(h)
      BY <2>1 DEF GateInv
    <2>. QED BY <2>1, <2>2, NewDebt DEF GateRace
  <1>2. CASE req'[r] # req[r]
    <2>1. UNCHANGED payments /\ ~HasPendingPaymentForHousehold(h)
      BY <1>2, PastTheGate
    <2>. QED BY <2>1 DEF HasPendingPaymentForHousehold, PaymentExists
  <1>. QED BY <1>1, <1>2

\* A pickup appears by the INSERT of a request past the gate.
LEMMA NewPickup ==
    ASSUME IInv, [Next]_vars, NEW p \in PickupId, ~PickupExists(p), PickupExists(p)'
    PROVE  \E r \in Request : /\ req[r].at = "createPickup.insert"
                              /\ pickups'[p].household = req[r].household
  <1>. USE DEF IInv, TypeOK, DbTypeOK, PickupExists
  <1>1. ASSUME NEW r \in Request, CreatePickupInsert(r)
        PROVE  req[r].at = "createPickup.insert" /\ pickups'[p].household = req[r].household
    BY <1>1 DEF CreatePickupInsert, InsertPickup, db, tables
  <1>2. ASSUME NEW r \in Request, PickupServiceStep(r), ~CreatePickupInsert(r)
        PROVE  FALSE
    BY <1>2 DEF PickupServiceStep, CreatePickupValidate, CreatePickupCheck, ScheduleFind,
                ScheduleUpdate, ScheduleMatches, PickupIn, Scheduled, CompleteFind,
                CompleteTx, CompleteMatches, WithStatus, CancelUpdate, CancelMatches,
                CancelFind, PickupStatementFails, DbFails, db, tables
  <1>3. ASSUME NEW r \in Request, PaymentServiceStep(r) PROVE UNCHANGED pickups
    BY <1>3 DEF PaymentServiceStep, CreatePaymentValidate, CreatePaymentFind,
                CreatePaymentInsert, PaymentStatementFails, DbFails, ConfirmFind,
                ConfirmUpload, ConfirmUpdate, ConfirmCleanUp, db, tables
  <1>4. ~BulkCancel
    BY DEF BulkCancel, WithStatus, BulkCancelMatches, PickupIn
  <1>. QED BY <1>1, <1>2, <1>3, <1>4
           DEF Next, PickupRequest, PaymentRequest, HouseholdRequest, HouseholdServiceStep,
               CreateHousehold, DeleteHousehold, PickupsWithout, Canceler,
               OrganicCancelerStep, FindExpiredOrganic, CycleFails, Clock, Age, Crash, vars,
               db, tables

\* BR-01 holds unless a request bills a household while another is between the gate
\* and its INSERT: no other interleaving, failure or crash breaks it.
THEOREM OnlyTheGateRace == Spec /\ []~GateRace => NoPickupWhilePaymentPending
  <1>1. Init => GateInv
    BY DEF Init, ReqInit, Idle, GateInv
  <1>2. IInv /\ GateInv /\ ~GateRace /\ [Next]_vars => GateInv'
    BY GateStep
  <1>3. IInv /\ GateInv /\ [Next]_vars =>
           [\A p \in PickupId : ~PickupExists(p) /\ PickupExists(p)' =>
              ~HasPendingPaymentForHousehold(pickups'[p].household)]_vars
    BY NewPickup DEF GateInv
  <1>. QED BY <1>1, <1>2, <1>3, InvAlways, PTL DEF Spec, NoPickupWhilePaymentPending

\* In particular a server that handles one request at a time keeps BR-01.
THEOREM OneRequestKeepsTheGate ==
    ASSUME \A r, s \in Request : r = s
    PROVE  Spec => NoPickupWhilePaymentPending
  <1>1. ~GateRace
    BY DEF GateRace
  <1>. QED BY <1>1, OnlyTheGateRace, PTL

(***************************************************************************)
(* Theorem: the canceler takes a scheduled pickup by one race only.        *)
(***************************************************************************)
\* A request is about to schedule a pickup the running cycle has selected.
SweepRace == \E r \in Request :
    req[r].at = "schedule.update" /\ req[r].pickup \in found

\* What the cycle selected is still not scheduled.
SweepInv == \A p \in found : ~PickupIn(p, {"scheduled"})

\* A pickup comes to be scheduled only by the UPDATE of a request that schedules it.
LEMMA NewlyScheduled ==
    ASSUME IInv, [Next]_vars, NEW p \in PickupId, PickupIn(p, {"scheduled"})'
    PROVE  \/ PickupIn(p, {"scheduled"})
           \/ \E r \in Request : req[r].at = "schedule.update" /\ req[r].pickup = p
  <1>. USE DEF IInv, TypeOK, DbTypeOK, PickupIn, PickupExists
  <1>1. ASSUME NEW r \in Request, ScheduleUpdate(r)
        PROVE  \/ pickups'[p] = pickups[p]
               \/ req[r].at = "schedule.update" /\ req[r].pickup = p
    BY <1>1 DEF ScheduleUpdate, Scheduled, db, tables
  <1>2. ASSUME NEW P \in SUBSET PickupId, NEW status \in {"completed", "canceled"},
               \A x \in P : PickupExists(x), pickups' = WithStatus(P, status)
        PROVE  pickups'[p] = pickups[p]
    <2>1. p \in P => pickups[p] \in PickupRow
      BY <1>2
    <2>2. p \in P => pickups'[p].status = status
      BY <1>2, <2>1 DEF WithStatus, PickupRow
    <2>. QED BY <1>2, <2>2 DEF WithStatus
  <1>3. ASSUME NEW r \in Request, CompleteTx(r) PROVE pickups'[p] = pickups[p]
    <2>1. req[r].pickup \in PickupId
      BY <1>3, LocalsType DEF CompleteTx, CompleteCall
    <2>2. UNCHANGED pickups \/ /\ PickupExists(req[r].pickup)
                               /\ pickups' = WithStatus({req[r].pickup}, "completed")
      BY <1>3 DEF CompleteTx, CompleteMatches, db, tables
    <2>. QED BY <1>2, <2>1, <2>2
  <1>4. ASSUME NEW r \in Request, NEW x \in PickupId, CancelUpdate(r, x)
        PROVE  pickups'[p] = pickups[p]
    <2>1. UNCHANGED pickups \/ (PickupExists(x) /\ pickups' = WithStatus({x}, "canceled"))
      BY <1>4 DEF CancelUpdate, CancelMatches
    <2>. QED BY <1>2, <2>1
  <1>5. ASSUME BulkCancel PROVE pickups'[p] = pickups[p]
    <2>1. /\ BulkCancelMatches(found) \in SUBSET PickupId
          /\ \A x \in BulkCancelMatches(found) : PickupExists(x)
      BY DEF BulkCancelMatches, CancelerTypeOK
    <2>. QED BY <1>2, <1>5, <2>1 DEF BulkCancel
  <1>6. ASSUME NEW r \in Request, CreatePickupInsert(r) PROVE pickups'[p] = pickups[p]
    <2>1. pickups'[p] = pickups[p] \/ pickups'[p].status = "pending"
      BY <1>6 DEF CreatePickupInsert, InsertPickup, db, tables
    <2>. QED BY <2>1
  <1>7. ASSUME NEW h \in HouseholdId, DeleteHousehold(h)
        PROVE  pickups'[p] = pickups[p]
    BY <1>7 DEF DeleteHousehold, PickupsWithout
  <1>8. ASSUME NEW r \in Request, PickupServiceStep(r)
        PROVE  \/ pickups'[p] = pickups[p]
               \/ req[r].at = "schedule.update" /\ req[r].pickup = p
    BY <1>1, <1>3, <1>4, <1>6, <1>8
       DEF PickupServiceStep, CreatePickupValidate, CreatePickupCheck, ScheduleFind,
           CompleteFind, CancelFind, PickupStatementFails, DbFails, db, tables
  <1>9. ASSUME NEW r \in Request, PaymentServiceStep(r) PROVE UNCHANGED pickups
    BY <1>9 DEF PaymentServiceStep, CreatePaymentValidate, CreatePaymentFind,
                CreatePaymentInsert, PaymentStatementFails, DbFails, ConfirmFind,
                ConfirmUpload, ConfirmUpdate, ConfirmCleanUp, db, tables
  <1>. QED BY <1>5, <1>7, <1>8, <1>9
           DEF Next, PickupRequest, PaymentRequest, HouseholdRequest, HouseholdServiceStep,
               CreateHousehold, Canceler, OrganicCancelerStep, FindExpiredOrganic,
               CycleFails, Clock, Age, Crash, vars, db, tables

LEMMA SweepStep ==
    ASSUME IInv, SweepInv, ~SweepRace, [Next]_vars
    PROVE  SweepInv'
  <1>. USE DEF IInv
  <1>. SUFFICES ASSUME NEW p \in found', PickupIn(p, {"scheduled"})' PROVE FALSE
    BY DEF SweepInv, PickupIn, PickupExists
  <1>1. CASE found' \subseteq found
    BY <1>1, NewlyScheduled DEF SweepInv, SweepRace, TypeOK, CancelerTypeOK
  <1>2. CASE FindExpiredOrganic
    BY <1>2 DEF FindExpiredOrganic, ExpiredOrganic, PickupIn, PickupExists, db, tables
  <1>. QED BY <1>1, <1>2
           DEF Next, PickupRequest, PaymentRequest, HouseholdRequest, Canceler,
               OrganicCancelerStep, BulkCancel, CycleFails, Clock, Age, Crash, vars

\* The canceler cancels a pickup somebody scheduled only if the UPDATE of that request
\* comes between the two statements of one cycle: that a cycle fails, dies, or selects
\* what is then completed, canceled or deleted never does it.
THEOREM OnlyTheSweepRace == Spec /\ []~SweepRace => CancelerSparesScheduled
  <1>1. Init => SweepInv
    BY DEF Init, CancelerInit, SweepInv
  <1>2. IInv /\ SweepInv /\ ~SweepRace /\ [Next]_vars => SweepInv'
    BY SweepStep
  <1>3. SweepInv /\ [Next]_vars =>
           [\A p \in found : found' = {} /\ PickupIn(p, {"canceled"})' =>
              ~PickupIn(p, {"scheduled"})]_vars
    BY DEF SweepInv
  <1>. QED BY <1>1, <1>2, <1>3, InvAlways, PTL DEF Spec, CancelerSparesScheduled

=============================================================================
