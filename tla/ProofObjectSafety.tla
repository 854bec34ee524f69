-------------------------- MODULE ProofObjectSafety --------------------------
(***************************************************************************)
(* Confirmations and the bucket: proofs that a paid payment keeps its      *)
(* proof when no reply is lost, that nothing else stays in the bucket      *)
(* when, besides, no S3 call fails and the process does not die, and that  *)
(* what does stay there is never touched again.  What carries all three is *)
(* that every upload has a key of its own, owned by one request until the  *)
(* UPDATE hands it over to the payment.                                    *)
(***************************************************************************)
EXTENDS WasteCollectionSafety

\* The request owns the object it uploaded: no row names it yet.
Holding(r) == req[r].at \in {"confirm.update", "confirm.cleanup"}

\* Keys are fresh: made of issued identifiers, no two requests own the same.
KeysInv ==
    /\ \A key \in objects : key[1] \in issued /\ key[2] \in issued
    /\ \A r \in Request : req[r].at = "confirm.upload" => req[r].payment \in issued
    /\ \A r \in Request : Holding(r) => req[r].key[1] \in issued /\ req[r].key[2] \in issued
    /\ \A r, s \in Request :
          r # s /\ Holding(r) /\ Holding(s) => req[r].key # req[s].key
    /\ \A q \in PaymentId : PaymentExists(q) =>
          /\ payments[q].status = "pending" => payments[q].proof = Null
          /\ payments[q].proof # Null => payments[q].proof[2] \in issued

\* Ownership: what a request would delete is no payment's proof.
OwnersInv ==
    /\ \A r \in Request, q \in PaymentId :
          Holding(r) /\ PaymentExists(q) => payments[q].proof # req[r].key
    /\ \A r \in Request : req[r].at = "confirm.update" => req[r].key \in objects

(***************************************************************************)
(* A step is one of the three of a confirmation after its first, or leaves *)
(* the bucket and the owners of its keys alone.                            *)
(***************************************************************************)
\* No slot becomes an owner, no payment gets a proof.
NoNewOwner ==
    /\ objects' = objects
    /\ issued \subseteq issued'
    /\ \A s \in Request : Holding(s)' => req'[s] = req[s]
    /\ \A s \in Request : req'[s].at = "confirm.upload" =>
          req'[s] = req[s] \/ req'[s].payment \in issued
    /\ \A q \in PaymentId : PaymentExists(q)' =>
          \/ PaymentExists(q) /\ payments'[q] = payments[q]
          \/ q \notin issued /\ payments'[q].status = "pending" /\ payments'[q].proof = Null

\* Owners go on owning: true of every such step but a crash.
OwnersStay == \A s \in Request : Holding(s) => req'[s] = req[s]

\* The request was not an owner, and is not one when it goes on or ends.
QuietSlot(r) ==
    /\ ~Holding(r)
    /\ \/ \E x : /\ Proceed(r, x)
                 /\ x.at \notin {"confirm.update", "confirm.cleanup"}
                 /\ x.at = "confirm.upload" => x.payment \in issued
       \/ \E e : Refuse(r, e)
       \/ \E acks : Committed(r, acks) \/ Respond(r, acks)

LEMMA QuietSlotOwners ==
    ASSUME TypeOK, NEW r \in Request, QuietSlot(r)
    PROVE  /\ \A s \in Request : Holding(s)' => req'[s] = req[s]
           /\ \A s \in Request : req'[s].at = "confirm.upload" =>
                 req'[s] = req[s] \/ req'[s].payment \in issued
           /\ OwnersStay
  <1>1. CASE \E x : /\ Proceed(r, x)
                    /\ x.at \notin {"confirm.update", "confirm.cleanup"}
                    /\ x.at = "confirm.upload" => x.payment \in issued
    BY <1>1 DEF QuietSlot, TypeOK, Holding, OwnersStay, Proceed
  <1>2. CASE (\E e : Refuse(r, e)) \/ (\E acks : Committed(r, acks) \/ Respond(r, acks))
    BY <1>2 DEF QuietSlot, TypeOK, Holding, OwnersStay, Refuse, Committed, Respond, Idle
  <1>. QED BY <1>1, <1>2 DEF QuietSlot

LEMMA PickupServiceQuiet ==
    ASSUME TypeOK, NEW r \in Request, PickupServiceStep(r)
    PROVE  QuietSlot(r)
  <1>1. ASSUME NEW h \in HouseholdId, NEW t \in Types, NEW s \in BOOLEAN,
               CreatePickupValidate(r, h, t, s)
        PROVE  QuietSlot(r)
    BY <1>1 DEF CreatePickupValidate, QuietSlot, Holding, Idle
  <1>2. ASSUME CreatePickupCheck(r) PROVE QuietSlot(r)
    <2>1. req[r] \in CreatePickupCall
      BY <1>2, LocalsType DEF CreatePickupCheck, TypeOK
    <2>2. [req[r] EXCEPT !.at = "createPickup.insert"].at = "createPickup.insert"
      BY <2>1 DEF CreatePickupCall
    <2>. QED BY <1>2, <2>2 DEF CreatePickupCheck, QuietSlot, Holding
  <1>3. ASSUME CreatePickupInsert(r) PROVE QuietSlot(r)
    BY <1>3 DEF CreatePickupInsert, QuietSlot, Holding
  <1>4. ASSUME NEW p \in PickupId, NEW d \in PickupDate, NEW future \in BOOLEAN,
               ScheduleFind(r, p, d, future)
        PROVE  QuietSlot(r)
    BY <1>4 DEF ScheduleFind, QuietSlot, Holding, Idle
  <1>5. ASSUME ScheduleUpdate(r) PROVE QuietSlot(r)
    BY <1>5 DEF ScheduleUpdate, QuietSlot, Holding
  <1>6. ASSUME NEW p \in PickupId, CompleteFind(r, p) PROVE QuietSlot(r)
    BY <1>6 DEF CompleteFind, QuietSlot, Holding, Idle
  <1>7. ASSUME CompleteTx(r) PROVE QuietSlot(r)
    BY <1>7 DEF CompleteTx, QuietSlot, Holding
  <1>8. ASSUME NEW p \in PickupId, CancelUpdate(r, p) PROVE QuietSlot(r)
    BY <1>8 DEF CancelUpdate, QuietSlot, Holding, Idle
  <1>9. ASSUME CancelFind(r) PROVE QuietSlot(r)
    BY <1>9 DEF CancelFind, QuietSlot, Holding
  <1>10. ASSUME PickupStatementFails(r) PROVE QuietSlot(r)
    BY <1>10 DEF PickupStatementFails, DbFails, QuietSlot, Holding
  <1>. QED BY <1>1, <1>2, <1>3, <1>4, <1>5, <1>6, <1>7, <1>8, <1>9, <1>10
           DEF PickupServiceStep

LEMMA PaymentServiceQuiet ==
    ASSUME IInv, NEW r \in Request, PaymentServiceStep(r),
           ~ConfirmUpload(r), ~ConfirmUpdate(r), ~ConfirmCleanUp(r)
    PROVE  QuietSlot(r) /\ objects' = objects
  <1>1. ASSUME NEW h \in HouseholdId, NEW p \in PickupId, CreatePaymentValidate(r, h, p)
        PROVE  QuietSlot(r) /\ objects' = objects
    BY <1>1 DEF CreatePaymentValidate, QuietSlot, Holding, Idle
  <1>2. ASSUME CreatePaymentFind(r) PROVE QuietSlot(r) /\ objects' = objects
    BY <1>2 DEF CreatePaymentFind, QuietSlot, Holding
  <1>3. ASSUME CreatePaymentInsert(r) PROVE QuietSlot(r) /\ objects' = objects
    BY <1>3 DEF CreatePaymentInsert, QuietSlot, Holding
  <1>4. ASSUME PaymentStatementFails(r) PROVE QuietSlot(r) /\ objects' = objects
    BY <1>4 DEF PaymentStatementFails, DbFails, QuietSlot, Holding
  <1>5. ASSUME NEW q \in PaymentId, NEW hasProof \in BOOLEAN, ConfirmFind(r, q, hasProof)
        PROVE  QuietSlot(r) /\ objects' = objects
    BY <1>5 DEF ConfirmFind, QuietSlot, Holding, Idle, IInv, TablesInv, KeysIssued
  <1>. QED BY <1>1, <1>2, <1>3, <1>4, <1>5 DEF PaymentServiceStep

\* Payments come into being without a proof and get one from ConfirmUpdate only.
LEMMA EffectOnProofs ==
    ASSUME IInv, Effect, ~\E q \in PaymentId, u \in ProofId : Pays(q, u)
    PROVE  /\ issued \subseteq issued'
           /\ \A q \in PaymentId : PaymentExists(q)' =>
                 \/ PaymentExists(q) /\ payments'[q] = payments[q]
                 \/ q \notin issued /\ payments'[q].status = "pending"
                    /\ payments'[q].proof = Null
  <1>. USE DEF IInv, TypeOK, DbTypeOK, PaymentExists
  <1>1. ASSUME NEW q \in PaymentId, NEW bill \in PaymentRow, Bills(q, bill)
        PROVE  /\ issued \subseteq issued'
               /\ \A x \in PaymentId : PaymentExists(x)' =>
                     \/ PaymentExists(x) /\ payments'[x] = payments[x]
                     \/ x \notin issued /\ payments'[x].status = "pending"
                        /\ payments'[x].proof = Null
    BY <1>1 DEF Bills, BillFits, InsertPayment
  <1>2. ASSUME NEW h \in HouseholdId, DeleteHousehold(h)
        PROVE  /\ issued' = issued
               /\ \A x \in PaymentId : PaymentExists(x)' =>
                     PaymentExists(x) /\ payments'[x] = payments[x]
    BY <1>2 DEF DeleteHousehold, PaymentsWithout
  <1>3. CASE payments' = payments /\ issued \subseteq issued'
    BY <1>3
  <1>. QED BY <1>1, <1>2, <1>3
           DEF Effect, Inserts, InsertPickup, Schedules, Completes, Cancels,
               CreateHousehold, NoEffect, tables

LEMMA OnlyConfirmPays ==
    ASSUME IInv, [Next]_vars, ~\E r \in Request : ConfirmUpdate(r),
           NEW q \in PaymentId, NEW u \in ProofId
    PROVE  ~Pays(q, u)
  <1>. SUFFICES ASSUME Pays(q, u) PROVE FALSE
    OBVIOUS
  <1>. USE DEF IInv, TypeOK, DbTypeOK
  <1>1. /\ payments'[q] # payments[q]
        /\ q \in issued
        /\ UNCHANGED <<households, pickups>>
    <2>1. payments[q] \in PaymentRow /\ payments[q].status = "pending"
      BY DEF Pays, ConfirmMatches, PaymentExists
    <2>2. payments'[q].status = "paid"
      BY <2>1 DEF Pays, Paid, PaymentRow
    <2>. QED BY <2>1, <2>2 DEF Pays, ConfirmMatches, PaymentExists, TablesInv, KeysIssued
  <1>2. ASSUME NEW r \in Request, PickupServiceStep(r) PROVE FALSE
    BY <1>1, <1>2
       DEF PickupServiceStep, CreatePickupValidate, CreatePickupCheck, CreatePickupInsert,
           ScheduleFind, ScheduleUpdate, CompleteFind, CompleteTx, InsertPayment,
           CancelUpdate, CancelFind, PickupStatementFails, DbFails, db
  <1>3. ASSUME NEW r \in Request, PaymentServiceStep(r) PROVE FALSE
    BY <1>1, <1>3
       DEF PaymentServiceStep, CreatePaymentValidate, CreatePaymentFind, CreatePaymentInsert,
           InsertPayment, PaymentStatementFails, DbFails, ConfirmFind, ConfirmUpload,
           ConfirmCleanUp, db, tables
  <1>. QED BY <1>1, <1>2, <1>3
           DEF Next, PickupRequest, PaymentRequest, HouseholdRequest, HouseholdServiceStep,
               CreateHousehold, DeleteHousehold, Canceler, OrganicCancelerStep,
               FindExpiredOrganic, BulkCancel, CycleFails, Clock, Age, Crash, db, vars

LEMMA StepOwners ==
    ASSUME IInv, [Next]_vars
    PROVE  \/ NoNewOwner /\ (OwnersStay \/ Crash)
           \/ \E r \in Request : ConfirmUpload(r) \/ ConfirmUpdate(r) \/ ConfirmCleanUp(r)
  <1>. SUFFICES ASSUME ~\E r \in Request :
                          ConfirmUpload(r) \/ ConfirmUpdate(r) \/ ConfirmCleanUp(r)
                PROVE  NoNewOwner /\ (OwnersStay \/ Crash)
    OBVIOUS
  <1>1. /\ issued \subseteq issued'
        /\ \A q \in PaymentId : PaymentExists(q)' =>
              \/ PaymentExists(q) /\ payments'[q] = payments[q]
              \/ q \notin issued /\ payments'[q].status = "pending" /\ payments'[q].proof = Null
    BY StepEffect, OnlyConfirmPays, EffectOnProofs
  <1>2. /\ objects' = objects
        /\ \A s \in Request : Holding(s)' => req'[s] = req[s]
        /\ \A s \in Request : req'[s].at = "confirm.upload" =>
              req'[s] = req[s] \/ req'[s].payment \in issued
        /\ OwnersStay \/ Crash
    <2>1. CASE PickupRequest
      BY <2>1, PickupServiceQuiet, QuietSlotOwners DEF PickupRequest, IInv
    <2>2. CASE PaymentRequest
      BY <2>2, PaymentServiceQuiet, QuietSlotOwners DEF PaymentRequest, IInv
    <2>3. CASE UNCHANGED <<req, objects>>
      BY <2>3 DEF Holding, OwnersStay
    <2>4. CASE Crash
      BY <2>4 DEF Crash, Holding, Idle
    <2>. QED BY <2>1, <2>2, <2>3, <2>4 DEF Next, HouseholdRequest, Canceler, Clock, vars
  <1>. QED BY <1>1, <1>2 DEF NoNewOwner

(***************************************************************************)
(* Upload keys are fresh, under every failure.                             *)
(***************************************************************************)
\* What the three steps of a confirmation do.
LEMMA UploadStep ==
    ASSUME TypeOK, NEW r \in Request, ConfirmUpload(r)
    PROVE  \E u \in ProofId \ issued :
              /\ issued' = issued \cup {u}
              /\ payments' = payments
              /\ \/ /\ objects' = objects \cup {<<req[r].payment, u>>}
                    /\ req' = [req EXCEPT ![r] = [at |-> "confirm.update",
                                 payment |-> req[r].payment, key |-> <<req[r].payment, u>>]]
                 \/ /\ "s3Error" \in Faults \/ "lostReply" \in Faults
                    /\ objects' \in {objects, objects \cup {<<req[r].payment, u>>}}
                    /\ req' = [req EXCEPT ![r] = Idle]
  BY DEF ConfirmUpload, Proceed, Refuse, tables

LEMMA UpdateStep ==
    ASSUME TypeOK, NEW r \in Request, ConfirmUpdate(r)
    PROVE  /\ req[r].at = "confirm.update"
           /\ objects' = objects
           /\ issued' = issued
           /\ \/ /\ ConfirmMatches(req[r].payment)
                 /\ payments' = Paid(req[r].payment, req[r].key)
                 /\ \/ req' = [req EXCEPT ![r] = Idle]
                    \/ /\ "lostReply" \in Faults
                       /\ \E e : req' = [req EXCEPT ![r] = [at |-> "confirm.cleanup",
                                            key |-> req[r].key, error |-> e]]
              \/ /\ payments' = payments
                 /\ \E e : req' = [req EXCEPT ![r] = [at |-> "confirm.cleanup",
                                            key |-> req[r].key, error |-> e]]
  BY DEF ConfirmUpdate, Proceed, Respond

LEMMA CleanUpStep ==
    ASSUME TypeOK, NEW r \in Request, ConfirmCleanUp(r)
    PROVE  /\ req[r].at = "confirm.cleanup"
           /\ objects' \in {objects, objects \ {req[r].key}}
           /\ objects' = objects => req[r].key \notin objects \/ "s3Error" \in Faults
           /\ req' = [req EXCEPT ![r] = Idle]
           /\ payments' = payments
           /\ issued' = issued
  BY DEF ConfirmCleanUp, Refuse, db

LEMMA ProofKeyParts ==
    ASSUME NEW key \in ProofKey
    PROVE  /\ key = <<key[1], key[2]>>
           /\ key[1] \in PaymentId
           /\ key[2] \in ProofId
           /\ key # Null
  BY NullAssumption DEF ProofKey

LEMMA KeysStep ==
    ASSUME IInv, KeysInv, [Next]_vars
    PROVE  KeysInv'
  <1>. USE DEF IInv, TypeOK, DbTypeOK
  <1>1. CASE NoNewOwner
    <2>1. (\A key \in objects : key[1] \in issued /\ key[2] \in issued)'
      BY <1>1 DEF KeysInv, NoNewOwner
    <2>2. (\A r \in Request : req[r].at = "confirm.upload" => req[r].payment \in issued)'
      BY <1>1 DEF KeysInv, NoNewOwner
    <2>3. (\A r \in Request : Holding(r) => req[r].key[1] \in issued /\ req[r].key[2] \in issued)'
      BY <1>1 DEF KeysInv, NoNewOwner, Holding
    <2>4. (\A r, s \in Request :
             r # s /\ Holding(r) /\ Holding(s) => req[r].key # req[s].key)'
      BY <1>1 DEF KeysInv, NoNewOwner, Holding
    <2>5. (\A q \in PaymentId : PaymentExists(q) =>
             /\ payments[q].status = "pending" => payments[q].proof = Null
             /\ payments[q].proof # Null => payments[q].proof[2] \in issued)'
      BY <1>1 DEF KeysInv, NoNewOwner
    <2>. QED BY <2>1, <2>2, <2>3, <2>4, <2>5 DEF KeysInv
  <1>2. ASSUME NEW r \in Request, ConfirmUpload(r) PROVE KeysInv'
    <2>1. req[r].at = "confirm.upload" /\ req[r].payment \in PaymentId
      BY <1>2, LocalsType DEF ConfirmUpload
    <2>2. PICK u \in ProofId \ issued :
             /\ issued' = issued \cup {u}
             /\ payments' = payments
             /\ objects' \in {objects, objects \cup {<<req[r].payment, u>>}}
             /\ \/ req' = [req EXCEPT ![r] = [at |-> "confirm.update",
                             payment |-> req[r].payment, key |-> <<req[r].payment, u>>]]
                \/ req' = [req EXCEPT ![r] = Idle]
      BY <1>2, UploadStep
    <2>3. /\ \A s \in Request : s # r => req'[s] = req[s]
          /\ req'[r].at \in {"idle", "confirm.update"}
          /\ Holding(r)' => req'[r].key = <<req[r].payment, u>>
      BY <2>2 DEF Holding, Idle
    <2>4. \A s \in Request : Holding(s) => req[s].key[2] # u
      BY <2>2 DEF KeysInv
    <2>5. (\A s \in Request : Holding(s) => req[s].key[1] \in issued /\ req[s].key[2] \in issued)'
      BY <2>1, <2>2, <2>3 DEF KeysInv, Holding
    <2>6. (\A s, t \in Request : s # t /\ Holding(s) /\ Holding(t) => req[s].key # req[t].key)'
      BY <2>2, <2>3, <2>4 DEF KeysInv, Holding
    <2>7. (\A key \in objects : key[1] \in issued /\ key[2] \in issued)'
      <3>. SUFFICES ASSUME NEW key \in objects' PROVE key[1] \in issued' /\ key[2] \in issued'
        OBVIOUS
      <3>. QED BY <2>1, <2>2 DEF KeysInv
    <2>8. (\A s \in Request : req[s].at = "confirm.upload" => req[s].payment \in issued)'
      BY <2>2, <2>3 DEF KeysInv
    <2>9. (\A q \in PaymentId : PaymentExists(q) =>
             /\ payments[q].status = "pending" => payments[q].proof = Null
             /\ payments[q].proof # Null => payments[q].proof[2] \in issued)'
      BY <2>2 DEF KeysInv, PaymentExists
    <2>. QED BY <2>5, <2>6, <2>7, <2>8, <2>9 DEF KeysInv
  <1>3. ASSUME NEW r \in Request, ConfirmUpdate(r) \/ ConfirmCleanUp(r) PROVE KeysInv'
    <2>1. /\ Holding(r) /\ issued' = issued /\ objects' \subseteq objects
          /\ \A s \in Request : s # r => req'[s] = req[s]
          /\ req'[r].at \in {"idle", "confirm.cleanup"}
          /\ Holding(r)' => req'[r].key = req[r].key
      BY <1>3, UpdateStep, CleanUpStep DEF Holding, Idle
    <2>2. (\A s \in Request : Holding(s) => req[s].key[1] \in issued /\ req[s].key[2] \in issued)'
      BY <2>1 DEF KeysInv, Holding
    <2>3. (\A s, t \in Request : s # t /\ Holding(s) /\ Holding(t) => req[s].key # req[t].key)'
      BY <2>1 DEF KeysInv, Holding
    <2>4. (\A key \in objects : key[1] \in issued /\ key[2] \in issued)'
      BY <2>1 DEF KeysInv
    <2>5. (\A s \in Request : req[s].at = "confirm.upload" => req[s].payment \in issued)'
      BY <2>1 DEF KeysInv
    <2>6. (\A q \in PaymentId : PaymentExists(q) =>
             /\ payments[q].status = "pending" => payments[q].proof = Null
             /\ payments[q].proof # Null => payments[q].proof[2] \in issued)'
      <3>1. CASE payments' = payments
        BY <2>1, <3>1 DEF KeysInv, PaymentExists
      <3>2. CASE payments' # payments
        <4>1. /\ payments' = Paid(req[r].payment, req[r].key)
              /\ ConfirmMatches(req[r].payment)
              /\ req[r].at = "confirm.update"
          BY <1>3, <3>2, UpdateStep, CleanUpStep
        <4>2. req[r].payment \in PaymentId /\ req[r].key \in ProofKey
          BY <4>1, LocalsType
        <4>3. payments[req[r].payment] \in PaymentRow
          BY <4>1, <4>2 DEF ConfirmMatches, PaymentExists
        <4>4. \A q \in PaymentId : payments'[q] =
                 IF q = req[r].payment
                 THEN [payments[q] EXCEPT !.status = "paid", !.proof = req[r].key]
                 ELSE payments[q]
          BY <4>1, <4>2 DEF Paid
        <4>5. /\ payments'[req[r].payment].status = "paid"
              /\ payments'[req[r].payment].proof = req[r].key
          BY <4>2, <4>3, <4>4 DEF PaymentRow
        <4>6. req[r].key[2] \in issued
          BY <2>1 DEF KeysInv
        <4>. QED BY <2>1, <4>4, <4>5, <4>6 DEF KeysInv, PaymentExists
      <3>. QED BY <3>1, <3>2
    <2>. QED BY <2>2, <2>3, <2>4, <2>5, <2>6 DEF KeysInv
  <1>. QED BY <1>1, <1>2, <1>3, StepOwners

(***************************************************************************)
(* Theorem: a paid payment keeps its proof.                                *)
(***************************************************************************)
\* Where no reply is lost, a failed confirmation did not confirm.
StoredInv == OwnersInv /\ PaidProofStored

LEMMA StoredStep ==
    ASSUME IInv, KeysInv, StoredInv, [Next]_vars, "lostReply" \notin Faults
    PROVE  StoredInv'
  <1>. USE DEF IInv, TypeOK, DbTypeOK
  <1>0. \A q \in PaymentId : payments[q] # NoRow => payments[q] \in PaymentRow
    OBVIOUS
  <1>1. CASE NoNewOwner
    <2>1. \A q \in PaymentId, r \in Request : Holding(r) =>
             req[r].key \in ProofKey /\ req[r].key # Null
      <3>. SUFFICES ASSUME NEW r \in Request, Holding(r) PROVE req[r].key \in ProofKey
        BY ProofKeyParts
      <3>. QED BY LocalsType DEF Holding
    <2>2. (\A r \in Request, q \in PaymentId :
             Holding(r) /\ PaymentExists(q) => payments[q].proof # req[r].key)'
      BY <1>1, <2>1 DEF StoredInv, OwnersInv, NoNewOwner, Holding
    <2>3. (\A r \in Request : req[r].at = "confirm.update" => req[r].key \in objects)'
      BY <1>1 DEF StoredInv, OwnersInv, NoNewOwner, Holding
    <2>4. PaidProofStored'
      BY <1>1 DEF StoredInv, PaidProofStored, NoNewOwner
    <2>. QED BY <2>2, <2>3, <2>4 DEF StoredInv, OwnersInv
  <1>2. ASSUME NEW r \in Request, ConfirmUpload(r) PROVE StoredInv'
    <2>1. req[r].payment \in PaymentId
      BY <1>2, LocalsType DEF ConfirmUpload
    <2>2. PICK u \in ProofId \ issued :
             /\ payments' = payments
             /\ \/ /\ objects' = objects \cup {<<req[r].payment, u>>}
                   /\ req' = [req EXCEPT ![r] = [at |-> "confirm.update",
                                payment |-> req[r].payment, key |-> <<req[r].payment, u>>]]
                \/ /\ objects' \in {objects, objects \cup {<<req[r].payment, u>>}}
                   /\ req' = [req EXCEPT ![r] = Idle]
      BY <1>2, UploadStep
    <2>. DEFINE key == <<req[r].payment, u>>
    <2>3. key \in ProofKey /\ key[2] = u /\ key # Null
      BY <2>1, NullAssumption DEF ProofKey
    <2>4. /\ \A s \in Request : s # r => req'[s] = req[s]
          /\ Holding(r)' => req'[r].key = key /\ key \in objects'
          /\ objects \subseteq objects'
      BY <2>2 DEF Holding, Idle
    <2>5. \A q \in PaymentId : PaymentExists(q) => payments[q].proof # key
      BY <2>3 DEF KeysInv
    <2>6. (\A s \in Request, q \in PaymentId :
             Holding(s) /\ PaymentExists(q) => payments[q].proof # req[s].key)'
      BY <2>2, <2>4, <2>5 DEF StoredInv, OwnersInv, Holding, PaymentExists
    <2>7. (\A s \in Request : req[s].at = "confirm.update" => req[s].key \in objects)'
      BY <2>4 DEF StoredInv, OwnersInv, Holding
    <2>8. PaidProofStored'
      BY <2>2, <2>4 DEF StoredInv, PaidProofStored, PaymentExists
    <2>. QED BY <2>6, <2>7, <2>8 DEF StoredInv, OwnersInv
  <1>3. ASSUME NEW r \in Request, ConfirmUpdate(r) PROVE StoredInv'
    <2>. DEFINE q == req[r].payment
                key == req[r].key
    <2>1. /\ req[r].at = "confirm.update"
          /\ objects' = objects
          /\ \/ ConfirmMatches(q) /\ payments' = Paid(q, key) /\ req' = [req EXCEPT ![r] = Idle]
             \/ /\ payments' = payments
                /\ \E e : req' = [req EXCEPT ![r] = [at |-> "confirm.cleanup",
                                     key |-> key, error |-> e]]
      BY <1>3, UpdateStep
    <2>2. q \in PaymentId /\ key \in ProofKey /\ Holding(r)
      BY <2>1, LocalsType DEF Holding
    <2>3. CASE payments' = payments
      <3>1. /\ \A s \in Request : s # r => req'[s] = req[s]
            /\ req'[r].at # "confirm.update"
            /\ Holding(r)' => req'[r].key = key
        BY <2>1 DEF Holding, Idle
      <3>2. OwnersInv'
        BY <2>1, <2>2, <2>3, <3>1 DEF StoredInv, OwnersInv, Holding, PaymentExists
      <3>3. PaidProofStored'
        BY <2>1, <2>3 DEF StoredInv, PaidProofStored, PaymentExists
      <3>. QED BY <3>2, <3>3 DEF StoredInv
    <2>4. CASE ConfirmMatches(q) /\ payments' = Paid(q, key) /\ req' = [req EXCEPT ![r] = Idle]
      <3>1. payments[q] \in PaymentRow
        BY <2>2, <2>4 DEF ConfirmMatches, PaymentExists
      <3>2. \A x \in PaymentId : payments'[x] =
               IF x = q THEN [payments[x] EXCEPT !.status = "paid", !.proof = key]
               ELSE payments[x]
        BY <2>2, <2>4 DEF Paid
      <3>3. payments'[q].proof = key
        BY <2>2, <3>1, <3>2 DEF PaymentRow
      <3>4. /\ \A s \in Request : s # r => req'[s] = req[s] /\ (Holding(s) => req[s].key # key)
            /\ req'[r] = Idle
        BY <2>2, <2>4 DEF KeysInv
      <3>5. key \in objects
        BY <2>1 DEF StoredInv, OwnersInv
      <3>a. PaymentExists(q) /\ \A x \in PaymentId : x # q => payments'[x] = payments[x]
        BY <2>4, <3>2 DEF ConfirmMatches
      <3>b. ASSUME NEW s \in Request, Holding(s)'
            PROVE  s # r /\ Holding(s) /\ req'[s] = req[s] /\ req[s].key # key
        BY <3>4, <3>b DEF Holding, Idle
      <3>c. (\A s \in Request, x \in PaymentId :
               Holding(s) /\ PaymentExists(x) => payments[x].proof # req[s].key)'
        <4>. SUFFICES ASSUME NEW s \in Request, NEW x \in PaymentId,
                             Holding(s)', PaymentExists(x)'
                      PROVE  payments'[x].proof # req'[s].key
          OBVIOUS
        <4>1. CASE x = q
          BY <3>3, <3>b, <4>1
        <4>2. CASE x # q
          BY <3>a, <3>b, <4>2 DEF StoredInv, OwnersInv, PaymentExists
        <4>. QED BY <4>1, <4>2
      <3>d. (\A s \in Request : req[s].at = "confirm.update" => req[s].key \in objects)'
        BY <2>1, <3>b DEF StoredInv, OwnersInv, Holding
      <3>6. OwnersInv'
        BY <3>c, <3>d DEF OwnersInv
      <3>7. PaidProofStored'
        BY <2>1, <3>2, <3>3, <3>5 DEF StoredInv, PaidProofStored, PaymentExists
      <3>. QED BY <3>6, <3>7 DEF StoredInv
    <2>. QED BY <2>1, <2>3, <2>4
  <1>4. ASSUME NEW r \in Request, ConfirmCleanUp(r) PROVE StoredInv'
    <2>1. /\ Holding(r)
          /\ objects \ {req[r].key} \subseteq objects'
          /\ payments' = payments
          /\ \A s \in Request : s # r => req'[s] = req[s]
          /\ req'[r] = Idle
      BY <1>4, CleanUpStep DEF Holding
    <2>2. OwnersInv'
      BY <2>1 DEF StoredInv, OwnersInv, Holding, PaymentExists, Idle, KeysInv
    <2>3. PaidProofStored'
      BY <2>1 DEF StoredInv, OwnersInv, PaidProofStored, PaymentExists
    <2>. QED BY <2>2, <2>3 DEF StoredInv
  <1>. QED BY <1>1, <1>2, <1>3, <1>4, StepOwners

LEMMA KeysInit == Init => KeysInv /\ StoredInv
  BY DEF Init, DbInit, ReqInit, Idle, KeysInv, StoredInv, OwnersInv, PaidProofStored,
         Holding, PaymentExists

\* If no reply is lost, the deletion after a failed confirmation never takes the proof
\* of a successful one, under crashes, failed statements and failed S3 calls.
THEOREM ProofsKept ==
    ASSUME "lostReply" \notin Faults
    PROVE  Spec => []PaidProofStored
  <1>1. IInv /\ KeysInv /\ [Next]_vars => KeysInv'
    BY KeysStep
  <1>2. IInv /\ KeysInv /\ StoredInv /\ [Next]_vars => StoredInv'
    BY StoredStep
  <1>3. StoredInv => PaidProofStored
    BY DEF StoredInv
  <1>. QED BY <1>1, <1>2, <1>3, InvAlways, KeysInit, PTL DEF Spec

(***************************************************************************)
(* Theorem: nothing else stays in the bucket.                              *)
(***************************************************************************)
LEMMA StrayStep ==
    ASSUME IInv, KeysInv, NoStrayObject, [Next]_vars,
           Faults \cap {"s3Error", "lostReply", "crash"} = {}
    PROVE  NoStrayObject'
  <1>. USE DEF IInv, TypeOK, DbTypeOK
  <1>1. NoStrayObject <=> \A key \in objects :
           \/ \E r \in Request : Holding(r) /\ req[r].key = key
           \/ ~PaymentExists(key[1])
           \/ payments[key[1]].proof = key
    BY DEF NoStrayObject, Handled, Holding
  <1>2. NoStrayObject' <=> \A key \in objects' :
           \/ \E r \in Request : Holding(r)' /\ req'[r].key = key
           \/ ~PaymentExists(key[1])'
           \/ payments'[key[1]].proof = key
    BY DEF NoStrayObject, Handled, Holding
  <1>. SUFFICES ASSUME NEW key \in objects'
                PROVE  \/ \E r \in Request : Holding(r)' /\ req'[r].key = key
                       \/ ~PaymentExists(key[1])'
                       \/ payments'[key[1]].proof = key
    BY <1>2
  <1>3. CASE NoNewOwner /\ OwnersStay
    <2>1. key \in objects /\ key \in ProofKey
      BY <1>3 DEF NoNewOwner
    <2>2. key[1] \in PaymentId /\ key[1] \in issued
      BY <2>1, ProofKeyParts DEF KeysInv
    <2>. QED BY <1>1, <1>3, <2>1, <2>2 DEF NoNewOwner, OwnersStay, Holding
  <1>4. ASSUME NEW r \in Request, ConfirmUpload(r)
        PROVE  \/ \E s \in Request : Holding(s)' /\ req'[s].key = key
               \/ ~PaymentExists(key[1])'
               \/ payments'[key[1]].proof = key
    <2>1. PICK u \in ProofId :
             /\ payments' = payments
             /\ objects' = objects \cup {<<req[r].payment, u>>}
             /\ req' = [req EXCEPT ![r] = [at |-> "confirm.update",
                          payment |-> req[r].payment, key |-> <<req[r].payment, u>>]]
      BY <1>4, UploadStep
    <2>2. ~Holding(r) /\ \A s \in Request : s # r => req'[s] = req[s]
      BY <1>4, <2>1 DEF ConfirmUpload, Holding
    <2>3. Holding(r)' /\ req'[r].key = <<req[r].payment, u>>
      BY <2>1 DEF Holding
    <2>. QED BY <1>1, <2>1, <2>2, <2>3 DEF Holding, PaymentExists
  <1>5. ASSUME NEW r \in Request, ConfirmUpdate(r)
        PROVE  \/ \E s \in Request : Holding(s)' /\ req'[s].key = key
               \/ ~PaymentExists(key[1])'
               \/ payments'[key[1]].proof = key
    <2>. DEFINE q == req[r].payment
    <2>1. /\ req[r].at = "confirm.update"
          /\ objects' = objects
          /\ \/ /\ ConfirmMatches(q)
                /\ payments' = Paid(q, req[r].key)
                /\ req' = [req EXCEPT ![r] = Idle]
             \/ /\ payments' = payments
                /\ \E e : req' = [req EXCEPT ![r] = [at |-> "confirm.cleanup",
                                     key |-> req[r].key, error |-> e]]
      BY <1>5, UpdateStep
    <2>2. /\ q \in PaymentId
          /\ req[r].key \in ProofKey
          /\ req[r].key[1] = q
          /\ Remembers(req[r])
      BY <2>1, LocalsType DEF RequestsInv, Remembers
    <2>3. \A s \in Request : s # r => req'[s] = req[s]
      BY <2>1
    <2>4. key \in ProofKey /\ key[1] \in PaymentId
      BY <2>1, ProofKeyParts
    <2>5. CASE payments' = payments /\ \E e : req' = [req EXCEPT ![r] =
                  [at |-> "confirm.cleanup", key |-> req[r].key, error |-> e]]
      <3>1. Holding(r)' /\ req'[r].key = req[r].key
        BY <2>5 DEF Holding
      <3>. QED BY <1>1, <2>1, <2>3, <2>5, <3>1 DEF Holding, PaymentExists
    <2>6. CASE ConfirmMatches(q) /\ payments' = Paid(q, req[r].key)
      <3>1. payments[q] \in PaymentRow /\ payments[q].proof = Null
        BY <2>2, <2>6 DEF ConfirmMatches, PaymentExists, KeysInv
      <3>2. \A x \in PaymentId : payments'[x] =
               IF x = q THEN [payments[x] EXCEPT !.status = "paid", !.proof = req[r].key]
               ELSE payments[x]
        BY <2>2, <2>6 DEF Paid
      <3>3. payments'[q].proof = req[r].key
        BY <2>2, <3>1, <3>2 DEF PaymentRow
      <3>4. PaymentExists(q) /\ payments[q].proof # key
        BY <2>4, <2>6, <3>1, ProofKeyParts DEF ConfirmMatches
      <3>5. \A x \in PaymentId : x # q => payments'[x] = payments[x]
        BY <3>2
      <3>6. CASE key = req[r].key
        BY <2>2, <3>3, <3>6
      <3>7. CASE key # req[r].key
        BY <1>1, <2>1, <2>3, <2>4, <3>4, <3>5, <3>7 DEF Holding, PaymentExists
      <3>. QED BY <3>6, <3>7
    <2>. QED BY <2>1, <2>5, <2>6
  <1>6. ASSUME NEW r \in Request, ConfirmCleanUp(r)
        PROVE  \/ \E s \in Request : Holding(s)' /\ req'[s].key = key
               \/ ~PaymentExists(key[1])'
               \/ payments'[key[1]].proof = key
    <2>1. /\ key \in objects /\ key # req[r].key
          /\ payments' = payments
          /\ \A s \in Request : s # r => req'[s] = req[s]
      BY <1>6, CleanUpStep
    <2>. QED BY <1>1, <2>1 DEF Holding, PaymentExists
  <1>7. ~Crash
    BY DEF Crash
  <1>. QED BY <1>3, <1>4, <1>5, <1>6, <1>7, StepOwners

\* If no S3 call fails, no reply is lost and the process does not die, an object is
\* that of a confirmation in flight, the proof of its payment, or its payment was
\* deleted with the household.
THEOREM NothingStray ==
    ASSUME Faults \cap {"s3Error", "lostReply", "crash"} = {}
    PROVE  Spec => []NoStrayObject
  <1>1. IInv /\ KeysInv /\ [Next]_vars => KeysInv'
    BY KeysStep
  <1>2. IInv /\ KeysInv /\ NoStrayObject /\ [Next]_vars => NoStrayObject'
    BY StrayStep
  <1>3. Init => NoStrayObject
    BY DEF Init, NoStrayObject
  <1>. QED BY <1>1, <1>2, <1>3, InvAlways, KeysInit, PTL DEF Spec

(***************************************************************************)
(* Theorem: a stray object stays stray.                                    *)
(***************************************************************************)
LEMMA StrayIs ==
    ASSUME NEW key
    PROVE  /\ Stray(key) <=> /\ key \in objects
                             /\ \A s \in Request : Holding(s) => req[s].key # key
                             /\ \A q \in PaymentId : PaymentExists(q) => payments[q].proof # key
           /\ Stray(key)' <=> /\ key \in objects'
                              /\ \A s \in Request : Holding(s)' => req'[s].key # key
                              /\ \A q \in PaymentId :
                                    PaymentExists(q)' => payments'[q].proof # key
  BY DEF Stray, Handled, Holding

LEMMA StayingStray ==
    ASSUME IInv, KeysInv, [Next]_vars, NEW key \in ProofKey, Stray(key)
    PROVE  Stray(key)'
  <1>. USE DEF IInv, TypeOK, DbTypeOK
  <1>0. key \in objects /\ \A s \in Request : Holding(s) => req[s].key # key
    BY StrayIs
  <1>1. CASE NoNewOwner
    BY <1>1, StrayIs, ProofKeyParts DEF NoNewOwner, Holding
  <1>2. ASSUME NEW r \in Request, ConfirmUpload(r) PROVE Stray(key)'
    <2>1. PICK u \in ProofId \ issued :
             /\ payments' = payments
             /\ objects \subseteq objects'
             /\ \/ req' = [req EXCEPT ![r] = [at |-> "confirm.update",
                             payment |-> req[r].payment, key |-> <<req[r].payment, u>>]]
                \/ req' = [req EXCEPT ![r] = Idle]
      BY <1>2, UploadStep
    <2>2. <<req[r].payment, u>> # key
      BY <1>0, <2>1 DEF KeysInv
    <2>3. ASSUME NEW s \in Request, Holding(s)' PROVE req'[s].key # key
      BY <1>0, <2>1, <2>2, <2>3 DEF Holding, Idle
    <2>. QED BY <1>0, <2>1, <2>3, StrayIs DEF PaymentExists
  <1>3. ASSUME NEW r \in Request, ConfirmUpdate(r) PROVE Stray(key)'
    <2>1. Holding(r) /\ req[r].key # key
      BY <1>0, <1>3, UpdateStep DEF Holding
    <2>2. objects' = objects
      BY <1>3, UpdateStep
    <2>3. ASSUME NEW s \in Request, Holding(s)' PROVE req'[s].key # key
      BY <1>0, <1>3, <2>1, <2>3, UpdateStep DEF Holding, Idle
    <2>4. ASSUME NEW q \in PaymentId, PaymentExists(q)' PROVE payments'[q].proof # key
      <3>1. CASE payments' = payments
        BY <2>4, <3>1, StrayIs DEF PaymentExists
      <3>2. CASE ConfirmMatches(req[r].payment) /\ payments' = Paid(req[r].payment, req[r].key)
        <4>1. payments' = [payments EXCEPT ![req[r].payment] =
                             [@ EXCEPT !.status = "paid", !.proof = req[r].key]]
          BY <3>2 DEF Paid
        <4>2. CASE q = req[r].payment
          <5>1. payments[q] \in PaymentRow
            BY <3>2, <4>2 DEF ConfirmMatches, PaymentExists
          <5>. QED BY <2>1, <4>1, <4>2, <5>1 DEF PaymentRow
        <4>3. CASE q # req[r].payment
          BY <2>4, <4>1, <4>3, StrayIs DEF PaymentExists
        <4>. QED BY <4>2, <4>3
      <3>. QED BY <1>3, <3>1, <3>2, UpdateStep
    <2>. QED BY <1>0, <2>2, <2>3, <2>4, StrayIs
  <1>4. ASSUME NEW r \in Request, ConfirmCleanUp(r) PROVE Stray(key)'
    <2>1. Holding(r) /\ req[r].key # key /\ key \in objects'
      BY <1>0, <1>4, CleanUpStep DEF Holding
    <2>2. ASSUME NEW s \in Request, Holding(s)' PROVE req'[s].key # key
      BY <1>0, <1>4, <2>2, CleanUpStep DEF Holding, Idle
    <2>. QED BY <1>4, <2>1, <2>2, CleanUpStep, StrayIs DEF PaymentExists
  <1>. QED BY <1>1, <1>2, <1>3, <1>4, StepOwners

\* Under every failure, an object that a crash, a lost reply, a failed cleanup or a
\* deleted household left behind is never written, deleted or adopted again.
THEOREM StrayForEver == Spec => StrayObjectsStayStray
  <1>1. IInv /\ KeysInv /\ [Next]_vars => KeysInv'
    BY KeysStep
  <1>2. IInv /\ KeysInv /\ [Next]_vars => [\A key \in ProofKey : Stray(key) => Stray(key)']_vars
    BY StayingStray
  <1>. QED BY <1>1, <1>2, InvAlways, KeysInit, PTL DEF Spec, StrayObjectsStayStray

=============================================================================
