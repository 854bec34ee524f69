--------------------------- MODULE DatabaseProofs ---------------------------
(***************************************************************************)
(* Lemmas about the statements of Database, for the proofs about the       *)
(* modules that issue them.                                                *)
(***************************************************************************)
EXTENDS BusinessRules, TLAPS

\* A payment a service builds is a row of the table.
LEMMA NewPaymentType ==
    ASSUME NEW h \in HouseholdId, NEW w \in PickupId, NEW t \in WasteType
    PROVE  NewPayment(h, w, t) \in PaymentRow
  <1>1. PaymentAmounts[t] \in Nat
    BY DEF PaymentAmounts
  <1>. QED BY <1>1 DEF NewPayment, PaymentRow, PaymentStatus

\* Inserting and updating rows keeps the tables well typed.
LEMMA TableTypes ==
    ASSUME DbTypeOK
    PROVE  /\ \A P \in SUBSET PickupId, s \in PickupStatus :
                 (\A p \in P : PickupExists(p)) =>
                    WithStatus(P, s) \in [PickupId -> PickupRow \cup {NoRow}]
           /\ \A p \in PickupId, d \in PickupDate :
                 PickupExists(p) => Scheduled(p, d) \in [PickupId -> PickupRow \cup {NoRow}]
           /\ \A q \in PaymentId, k \in ProofKey :
                 PaymentExists(q) => Paid(q, k) \in [PaymentId -> PaymentRow \cup {NoRow}]
           /\ \A h : PickupsWithout(h) \in [PickupId -> PickupRow \cup {NoRow}]
           /\ \A h : PaymentsWithout(h) \in [PaymentId -> PaymentRow \cup {NoRow}]
  <1>1. ASSUME NEW P \in SUBSET PickupId, NEW s \in PickupStatus,
               \A p \in P : PickupExists(p)
        PROVE  WithStatus(P, s) \in [PickupId -> PickupRow \cup {NoRow}]
    BY <1>1 DEF WithStatus, PickupExists, DbTypeOK, PickupRow
  <1>2. ASSUME NEW p \in PickupId, NEW d \in PickupDate, PickupExists(p)
        PROVE  Scheduled(p, d) \in [PickupId -> PickupRow \cup {NoRow}]
    BY <1>2 DEF Scheduled, PickupExists, DbTypeOK, PickupRow, PickupStatus
  <1>3. ASSUME NEW q \in PaymentId, NEW k \in ProofKey, PaymentExists(q)
        PROVE  Paid(q, k) \in [PaymentId -> PaymentRow \cup {NoRow}]
    BY <1>3 DEF Paid, PaymentExists, DbTypeOK, PaymentRow, PaymentStatus
  <1>4. \A h : PickupsWithout(h) \in [PickupId -> PickupRow \cup {NoRow}]
    BY DEF PickupsWithout, DbTypeOK
  <1>5. \A h : PaymentsWithout(h) \in [PaymentId -> PaymentRow \cup {NoRow}]
    BY DEF PaymentsWithout, DbTypeOK
  <1>. QED BY <1>1, <1>2, <1>3, <1>4, <1>5

(***************************************************************************)
(* The invariants of the tables, strengthened to be inductive              *)
(***************************************************************************)
\* A key of a table was issued, so a new row never takes the place of another.
KeysIssued ==
    /\ \A p \in PickupId : PickupExists(p) => p \in issued
    /\ \A q \in PaymentId : PaymentExists(q) => q \in issued

\* No code writes the third payment status, "failed".
NoFailedPayment ==
    \A q \in PaymentId : PaymentExists(q) => payments[q].status \in {"pending", "paid"}

TablesInv ==
    /\ KeysIssued
    /\ NoFailedPayment
    /\ ReferentialIntegrity
    /\ PaymentMatchesPickup
    /\ BilledOnce
    /\ CompletedHasPayment
    /\ ElectronicIsSafe

\* A bill a request carries is right for its pickup as long as that exists.
BillFits(bill) ==
    /\ bill.waste \in issued
    /\ bill.status = "pending"
    /\ bill.proof = Null
    /\ PickupExists(bill.waste) =>
          /\ bill.household = pickups[bill.waste].household
          /\ bill.amount = PaymentAmounts[pickups[bill.waste].type]

(***************************************************************************)
(* The effects a step can have on the tables                               *)
(***************************************************************************)
Inserts(p, h, type, safety) ==
    /\ h \in households
    /\ InsertPickup(p, h, type, safety)
    /\ UNCHANGED <<households, payments>>

Schedules(p, d) ==
    /\ ScheduleMatches(p)
    /\ SafeToCollect(pickups[p].type, pickups[p].safety)
    /\ pickups' = Scheduled(p, d)
    /\ UNCHANGED <<households, payments, issued>>

Bills(q, bill) ==
    /\ BillFits(bill)
    /\ PaymentInsertError(bill) = "none"
    /\ InsertPayment(q, bill)
    /\ UNCHANGED households

Completes(q, bill) ==
    /\ Bills(q, bill)
    /\ CompleteMatches(bill.waste)
    /\ pickups' = WithStatus({bill.waste}, "completed")

Cancels(P) ==
    /\ \A p \in P : CancelMatches(p)
    /\ pickups' = WithStatus(P, "canceled")
    /\ UNCHANGED <<households, payments, issued>>

Pays(q, u) ==
    /\ ConfirmMatches(q)
    /\ payments' = Paid(q, <<q, u>>)
    /\ issued \subseteq issued'
    /\ UNCHANGED <<households, pickups>>

NoEffect == UNCHANGED tables /\ issued \subseteq issued'

Effect ==
    \/ \E p \in PickupId, h \in HouseholdId, t \in Types, s \in BOOLEAN : Inserts(p, h, t, s)
    \/ \E p \in PickupId, d \in PickupDate : Schedules(p, d)
    \/ \E q \in PaymentId, bill \in PaymentRow : Completes(q, bill)
    \/ \E q \in PaymentId, bill \in PaymentRow : Bills(q, bill) /\ UNCHANGED pickups
    \/ \E P \in SUBSET PickupId : Cancels(P)
    \/ \E q \in PaymentId, u \in ProofId : Pays(q, u)
    \/ \E h \in HouseholdId : CreateHousehold(h) \/ DeleteHousehold(h)
    \/ NoEffect

(***************************************************************************)
(* What an effect never does: bring a deleted row back, change whose it is *)
(* or what it is for, or leave a final status.                             *)
(***************************************************************************)
RowsKept ==
    /\ issued \subseteq issued'
    /\ \A p \in PickupId \cap issued : PickupExists(p)' =>
          /\ PickupExists(p)
          /\ pickups'[p].household = pickups[p].household
          /\ pickups'[p].type = pickups[p].type
          /\ pickups'[p].safety = pickups[p].safety
          /\ pickups[p].status # "pending" =>
                pickups'[p].status # "pending" /\ pickups'[p].date = pickups[p].date
          /\ pickups[p].status \in {"completed", "canceled"} =>
                pickups'[p].status = pickups[p].status
    /\ \A q \in PaymentId \cap issued : PaymentExists(q)' =>
          /\ PaymentExists(q)
          /\ payments[q].status = "paid" => payments'[q] = payments[q]

LEMMA EffectKeepsRows ==
    ASSUME DbTypeOK, Effect
    PROVE  RowsKept
  <1>. USE DEF DbTypeOK, RowsKept, PickupExists, PaymentExists
  <1>1. ASSUME NEW p \in PickupId, NEW h \in HouseholdId, NEW t \in Types,
               NEW s \in BOOLEAN, Inserts(p, h, t, s)
        PROVE  RowsKept
    BY <1>1 DEF Inserts, InsertPickup
  <1>2. ASSUME NEW p \in PickupId, NEW d \in PickupDate, Schedules(p, d)
        PROVE  RowsKept
    BY <1>2 DEF Schedules, Scheduled, ScheduleMatches, PickupIn, PickupRow
  <1>3. ASSUME NEW q \in PaymentId, NEW bill \in PaymentRow, Completes(q, bill)
        PROVE  RowsKept
    BY <1>3 DEF Completes, CompleteMatches, PickupIn, WithStatus, Bills, InsertPayment,
                PaymentRow, PickupRow
  <1>4. ASSUME NEW q \in PaymentId, NEW bill \in PaymentRow, Bills(q, bill),
               UNCHANGED pickups
        PROVE  RowsKept
    BY <1>4 DEF Bills, InsertPayment
  <1>5. ASSUME NEW P \in SUBSET PickupId, Cancels(P)
        PROVE  RowsKept
    BY <1>5 DEF Cancels, CancelMatches, PickupIn, WithStatus, Cancellable, PickupRow
  <1>6. ASSUME NEW q \in PaymentId, NEW u \in ProofId, Pays(q, u)
        PROVE  RowsKept
    BY <1>6 DEF Pays, Paid, ConfirmMatches, PaymentRow
  <1>7. ASSUME NEW h \in HouseholdId, CreateHousehold(h)
        PROVE  RowsKept
    BY <1>7 DEF CreateHousehold
  <1>8. ASSUME NEW h \in HouseholdId, DeleteHousehold(h)
        PROVE  RowsKept
    BY <1>8 DEF DeleteHousehold, PickupsWithout, PaymentsWithout
  <1>9. CASE NoEffect
    BY <1>9 DEF NoEffect, tables
  <1>. QED BY <1>1, <1>2, <1>3, <1>4, <1>5, <1>6, <1>7, <1>8, <1>9 DEF Effect

(***************************************************************************)
(* Every effect keeps the invariants of the tables.                        *)
(***************************************************************************)
LEMMA InsertsTables ==
    ASSUME DbTypeOK, TablesInv, NEW p \in PickupId, NEW h \in HouseholdId, NEW t \in Types,
           NEW s \in BOOLEAN, Inserts(p, h, t, s)
    PROVE  TablesInv'
  <1>. USE DEF DbTypeOK, PickupExists, PaymentExists
  <1>1. /\ p \notin issued
        /\ issued' = issued \cup {p}
        /\ pickups' = [pickups EXCEPT ![p] =
                         [household |-> h, type |-> t, status |-> "pending",
                          safety |-> s, date |-> Null]]
        /\ h \in households
        /\ households' = households
        /\ payments' = payments
    BY DEF Inserts, InsertPickup
  <1>2. /\ pickups[p] = NoRow
        /\ pickups'[p] \in PickupRow
    BY <1>1, TypesAssumption DEF TablesInv, KeysIssued, PickupRow, PickupStatus
  <1>3. KeysIssued' /\ NoFailedPayment' /\ BilledOnce'
    BY <1>1 DEF TablesInv, KeysIssued, NoFailedPayment, BilledOnce
  <1>4. ReferentialIntegrity'
    BY <1>1, <1>2, NoRowAssumption DEF TablesInv, ReferentialIntegrity, PaymentRow
  <1>5. PaymentMatchesPickup'
    BY <1>1, <1>2 DEF TablesInv, PaymentMatchesPickup, ReferentialIntegrity
  <1>6. CompletedHasPayment' /\ ElectronicIsSafe'
    BY <1>1 DEF TablesInv, CompletedHasPayment, ElectronicIsSafe, PickupIn
  <1>. QED BY <1>3, <1>4, <1>5, <1>6 DEF TablesInv

LEMMA SchedulesTables ==
    ASSUME DbTypeOK, TablesInv, NEW p \in PickupId, NEW d \in PickupDate, Schedules(p, d)
    PROVE  TablesInv'
  <1>. USE DEF DbTypeOK, PickupExists, PaymentExists
  <1>1. /\ pickups[p] # NoRow
        /\ SafeToCollect(pickups[p].type, pickups[p].safety)
        /\ pickups' = [pickups EXCEPT ![p] =
                         [pickups[p] EXCEPT !.status = "scheduled", !.date = d]]
        /\ UNCHANGED <<households, payments, issued>>
    BY DEF Schedules, ScheduleMatches, PickupIn, Scheduled
  <1>2. /\ \A x \in PickupId : PickupExists(x)' <=> PickupExists(x)
        /\ \A x \in PickupId : PickupExists(x) =>
              /\ pickups'[x].household = pickups[x].household
              /\ pickups'[x].type = pickups[x].type
              /\ pickups'[x].safety = pickups[x].safety
              /\ pickups'[x].status # "scheduled" => pickups'[x].status = pickups[x].status
              /\ x # p => pickups'[x].status = pickups[x].status
    BY <1>1, NoRowAssumption DEF PickupRow, PickupStatus
  <1>3. KeysIssued' /\ NoFailedPayment' /\ BilledOnce' /\ ReferentialIntegrity'
    BY <1>1, <1>2 DEF TablesInv, KeysIssued, NoFailedPayment, BilledOnce, ReferentialIntegrity,
                      PaymentRow
  <1>4. PaymentMatchesPickup'
    BY <1>1, <1>2 DEF TablesInv, PaymentMatchesPickup, PaymentRow
  <1>5. CompletedHasPayment' /\ ElectronicIsSafe'
    BY <1>1, <1>2 DEF TablesInv, CompletedHasPayment, ElectronicIsSafe, PickupIn
  <1>. QED BY <1>3, <1>4, <1>5 DEF TablesInv

LEMMA CancelsTables ==
    ASSUME DbTypeOK, TablesInv, NEW P \in SUBSET PickupId, Cancels(P)
    PROVE  TablesInv'
  <1>. USE DEF DbTypeOK, PickupExists, PaymentExists
  <1>1. /\ \A x \in P : pickups[x] # NoRow
        /\ pickups' = [x \in PickupId |-> IF x \in P THEN [pickups[x] EXCEPT !.status = "canceled"]
                                          ELSE pickups[x]]
        /\ UNCHANGED <<households, payments, issued>>
    BY DEF Cancels, CancelMatches, PickupIn, WithStatus
  <1>2. /\ \A x \in PickupId : PickupExists(x)' <=> PickupExists(x)
        /\ \A x \in PickupId : PickupExists(x) =>
              /\ pickups'[x].household = pickups[x].household
              /\ pickups'[x].type = pickups[x].type
              /\ pickups'[x].safety = pickups[x].safety
              /\ pickups'[x].status # "canceled" => pickups'[x].status = pickups[x].status
    BY <1>1, NoRowAssumption DEF PickupRow, PickupStatus
  <1>3. KeysIssued' /\ NoFailedPayment' /\ BilledOnce' /\ ReferentialIntegrity'
    BY <1>1, <1>2 DEF TablesInv, KeysIssued, NoFailedPayment, BilledOnce, ReferentialIntegrity,
                      PaymentRow
  <1>4. PaymentMatchesPickup'
    BY <1>1, <1>2 DEF TablesInv, PaymentMatchesPickup, PaymentRow
  <1>5. CompletedHasPayment' /\ ElectronicIsSafe'
    BY <1>1, <1>2 DEF TablesInv, CompletedHasPayment, ElectronicIsSafe, PickupIn
  <1>. QED BY <1>3, <1>4, <1>5 DEF TablesInv

\* Adding a bill that fits its pickup and clashes with no other.
LEMMA BillsTables ==
    ASSUME DbTypeOK, TablesInv, NEW q \in PaymentId, NEW bill \in PaymentRow, Bills(q, bill),
           \/ UNCHANGED pickups
           \/ pickups' = WithStatus({bill.waste}, "completed") /\ CompleteMatches(bill.waste)
    PROVE  TablesInv'
  <1>. USE DEF DbTypeOK, PickupExists, PaymentExists
  <1>1. /\ q \notin issued
        /\ issued' = issued \cup {q}
        /\ payments' = [payments EXCEPT ![q] = bill]
        /\ households' = households
        /\ bill.status = "pending"
        /\ bill.household \in households
        /\ pickups[bill.waste] # NoRow
        /\ bill.household = pickups[bill.waste].household
        /\ bill.amount = PaymentAmounts[pickups[bill.waste].type]
        /\ ~PaymentClash(bill)
    BY DEF Bills, InsertPayment, BillFits, PaymentInsertError
  <1>2. payments[q] = NoRow /\ bill.waste \in PickupId /\ bill # NoRow
    BY <1>1, NoRowAssumption DEF TablesInv, KeysIssued, PaymentRow
  <1>3. /\ \A x \in PickupId : PickupExists(x)' <=> PickupExists(x)
        /\ \A x \in PickupId : PickupExists(x) =>
              /\ pickups'[x].household = pickups[x].household
              /\ pickups'[x].type = pickups[x].type
              /\ pickups'[x].safety = pickups[x].safety
              /\ x # bill.waste => pickups'[x].status = pickups[x].status
              /\ pickups[x].status # "scheduled" => pickups'[x].status = pickups[x].status
    BY <1>1, <1>2, NoRowAssumption
       DEF PickupRow, PickupStatus, WithStatus, CompleteMatches, PickupIn
  <1>4. KeysIssued' /\ NoFailedPayment'
    BY <1>1, <1>3 DEF TablesInv, KeysIssued, NoFailedPayment
  <1>5. ReferentialIntegrity'
    BY <1>1, <1>2, <1>3 DEF TablesInv, ReferentialIntegrity, PaymentRow
  <1>6. PaymentMatchesPickup'
    BY <1>1, <1>2, <1>3 DEF TablesInv, PaymentMatchesPickup, ReferentialIntegrity, PaymentRow
  <1>7. BilledOnce'
    BY <1>1, <1>2 DEF TablesInv, BilledOnce, PaymentClash, NoFailedPayment
  <1>8. CompletedHasPayment'
    BY <1>1, <1>2, <1>3 DEF TablesInv, CompletedHasPayment, PickupIn
  <1>9. ElectronicIsSafe'
    <2>1. CASE pickups' = pickups
      BY <2>1 DEF TablesInv, ElectronicIsSafe, PickupIn
    <2>2. CASE CompleteMatches(bill.waste)
      BY <1>2, <1>3, <2>2 DEF TablesInv, ElectronicIsSafe, CompleteMatches, PickupIn
    <2>. QED BY <2>1, <2>2
  <1>. QED BY <1>4, <1>5, <1>6, <1>7, <1>8, <1>9 DEF TablesInv

LEMMA PaysTables ==
    ASSUME DbTypeOK, TablesInv, NEW q \in PaymentId, NEW u \in ProofId, Pays(q, u)
    PROVE  TablesInv'
  <1>. USE DEF DbTypeOK, PickupExists, PaymentExists
  <1>1. /\ payments[q] # NoRow
        /\ payments' = [payments EXCEPT ![q] =
                          [payments[q] EXCEPT !.status = "paid", !.proof = <<q, u>>]]
        /\ issued \subseteq issued'
        /\ UNCHANGED <<households, pickups>>
    BY DEF Pays, ConfirmMatches, Paid
  <1>a. <<q, u>> \in ProofKey /\ payments[q] \in PaymentRow
    BY <1>1 DEF ProofKey
  <1>b. [payments[q] EXCEPT !.status = "paid", !.proof = <<q, u>>] \in PaymentRow
    BY <1>a DEF PaymentRow, PaymentStatus
  <1>2. /\ \A x \in PaymentId : PaymentExists(x)' <=> PaymentExists(x)
        /\ \A x \in PaymentId : PaymentExists(x) =>
              /\ payments'[x].household = payments[x].household
              /\ payments'[x].waste = payments[x].waste
              /\ payments'[x].amount = payments[x].amount
              /\ payments'[x].status = IF x = q THEN "paid" ELSE payments[x].status
    BY <1>1, <1>a, <1>b, NoRowAssumption DEF PaymentRow
  <1>3. KeysIssued' /\ NoFailedPayment' /\ BilledOnce' /\ ReferentialIntegrity'
    BY <1>1, <1>2 DEF TablesInv, KeysIssued, NoFailedPayment, BilledOnce, ReferentialIntegrity
  <1>4. PaymentMatchesPickup'
    BY <1>1, <1>2 DEF TablesInv, PaymentMatchesPickup
  <1>5. CompletedHasPayment' /\ ElectronicIsSafe'
    BY <1>1, <1>2 DEF TablesInv, CompletedHasPayment, ElectronicIsSafe, PickupIn
  <1>. QED BY <1>3, <1>4, <1>5 DEF TablesInv

LEMMA DeleteHouseholdTables ==
    ASSUME DbTypeOK, TablesInv, NEW h \in HouseholdId, DeleteHousehold(h)
    PROVE  TablesInv'
  <1>. USE DEF DbTypeOK, PickupExists, PaymentExists
  <1>1. /\ households' = households \ {h}
        /\ issued' = issued
        /\ \A x \in PickupId : pickups'[x] # NoRow <=>
              pickups[x] # NoRow /\ pickups[x].household # h
        /\ \A x \in PickupId : pickups'[x] # NoRow => pickups'[x] = pickups[x]
        /\ \A x \in PaymentId : payments'[x] # NoRow =>
              payments'[x] = payments[x] /\ payments[x].household # h
        /\ \A x \in PaymentId : payments'[x] = NoRow =>
              \/ payments[x] = NoRow
              \/ payments[x].household = h
              \/ /\ pickups[payments[x].waste] # NoRow
                 /\ pickups[payments[x].waste].household = h
    BY DEF DeleteHousehold, PickupsWithout, PaymentsWithout
  <1>2. \A x \in PaymentId : payments'[x] # NoRow =>
           /\ payments[x].waste \in PickupId
           /\ pickups[payments[x].waste] # NoRow
           /\ pickups[payments[x].waste].household = payments[x].household
    BY <1>1 DEF TablesInv, ReferentialIntegrity, PaymentMatchesPickup, PaymentRow
  <1>3. KeysIssued' /\ NoFailedPayment' /\ BilledOnce'
    BY <1>1 DEF TablesInv, KeysIssued, NoFailedPayment, BilledOnce
  <1>4. ReferentialIntegrity'
    BY <1>1, <1>2 DEF TablesInv, ReferentialIntegrity
  <1>5. PaymentMatchesPickup'
    BY <1>1, <1>2 DEF TablesInv, PaymentMatchesPickup
  <1>6. CompletedHasPayment'
    <2>. SUFFICES ASSUME NEW p \in PickupId, PickupIn(p, {"completed"})'
                  PROVE  (\E q \in PaymentId : PaymentExists(q) /\ payments[q].waste = p)'
      BY DEF CompletedHasPayment
    <2>1. PickupIn(p, {"completed"}) /\ pickups[p].household # h
      BY <1>1 DEF PickupIn
    <2>2. PICK q \in PaymentId : PaymentExists(q) /\ payments[q].waste = p
      BY <2>1 DEF TablesInv, CompletedHasPayment
    <2>3. payments[q].household = pickups[p].household
      BY <2>1, <2>2 DEF TablesInv, PaymentMatchesPickup, PickupIn
    <2>. QED BY <1>1, <2>1, <2>2, <2>3
  <1>7. ElectronicIsSafe'
    BY <1>1 DEF TablesInv, ElectronicIsSafe, PickupIn
  <1>. QED BY <1>3, <1>4, <1>5, <1>6, <1>7 DEF TablesInv

LEMMA EffectTables ==
    ASSUME DbTypeOK, TablesInv, Effect
    PROVE  TablesInv'
  <1>1. ASSUME NEW h \in HouseholdId, CreateHousehold(h)
        PROVE  TablesInv'
    BY <1>1 DEF CreateHousehold, TablesInv, KeysIssued, NoFailedPayment, BilledOnce,
                ReferentialIntegrity, PaymentMatchesPickup, CompletedHasPayment,
                ElectronicIsSafe, PickupIn, PickupExists, PaymentExists
  <1>2. CASE NoEffect
    BY <1>2 DEF NoEffect, tables, TablesInv, KeysIssued, NoFailedPayment, BilledOnce,
                ReferentialIntegrity, PaymentMatchesPickup, CompletedHasPayment,
                ElectronicIsSafe, PickupIn, PickupExists, PaymentExists
  <1>. QED BY <1>1, <1>2, InsertsTables, SchedulesTables, CancelsTables, BillsTables,
              PaysTables, DeleteHouseholdTables DEF Effect, Completes

LEMMA EffectTypes ==
    ASSUME DbTypeOK, Effect,
           issued' \subseteq HouseholdId \cup PickupId \cup PaymentId \cup ProofId
    PROVE  DbTypeOK'
  <1>. USE DEF DbTypeOK
  <1>1. ASSUME NEW p \in PickupId, NEW h \in HouseholdId, NEW t \in Types,
               NEW s \in BOOLEAN, Inserts(p, h, t, s)
        PROVE  DbTypeOK'
    BY <1>1, TypesAssumption DEF Inserts, InsertPickup, PickupRow, PickupStatus
  <1>2. ASSUME NEW p \in PickupId, NEW d \in PickupDate, Schedules(p, d)
        PROVE  DbTypeOK'
    BY <1>2, TableTypes DEF Schedules, ScheduleMatches, PickupIn
  <1>3. ASSUME NEW q \in PaymentId, NEW bill \in PaymentRow, Bills(q, bill),
               \/ UNCHANGED pickups
               \/ pickups' = WithStatus({bill.waste}, "completed") /\ CompleteMatches(bill.waste)
        PROVE  DbTypeOK'
    <2>1. {bill.waste} \in SUBSET PickupId /\ "completed" \in PickupStatus
      BY DEF PaymentRow, PickupStatus
    <2>2. pickups' \in [PickupId -> PickupRow \cup {NoRow}]
      BY <1>3, <2>1, TableTypes DEF CompleteMatches, PickupIn
    <2>. QED BY <1>3, <2>2 DEF Bills, InsertPayment
  <1>4. ASSUME NEW P \in SUBSET PickupId, Cancels(P)
        PROVE  DbTypeOK'
    BY <1>4, TableTypes DEF Cancels, CancelMatches, PickupIn, PickupStatus
  <1>5. ASSUME NEW q \in PaymentId, NEW u \in ProofId, Pays(q, u)
        PROVE  DbTypeOK'
    BY <1>5, TableTypes DEF Pays, ConfirmMatches, ProofKey
  <1>6. ASSUME NEW h \in HouseholdId, CreateHousehold(h) \/ DeleteHousehold(h)
        PROVE  DbTypeOK'
    BY <1>6, TableTypes DEF CreateHousehold, DeleteHousehold
  <1>7. CASE NoEffect
    BY <1>7 DEF NoEffect, tables
  <1>. QED BY <1>1, <1>2, <1>3, <1>4, <1>5, <1>6, <1>7 DEF Effect, Completes

(***************************************************************************)
(* Every effect is one operation of the contract, or none.                 *)
(***************************************************************************)
LEMMA EffectIsContractStep ==
    ASSUME DbTypeOK, TablesInv, Effect
    PROVE  [Contract!ContractNext]_(Contract!contractVars)
  <1>. USE DEF DbTypeOK
  <1>1. ASSUME NEW p \in PickupId, NEW h \in HouseholdId, NEW t \in Types,
               NEW s \in BOOLEAN, Inserts(p, h, t, s)
        PROVE  Contract!Ask(p, h, t, s)
    BY <1>1 DEF Inserts, InsertPickup, Contract!Ask, Contract!Has, TablesInv, KeysIssued,
                PickupExists
  <1>2. ASSUME NEW p \in PickupId, NEW d \in PickupDate, Schedules(p, d)
        PROVE  Contract!Plan(p, d)
    <2>1. pickups[p] \in PickupRow
      BY <1>2 DEF Schedules, ScheduleMatches, PickupIn, PickupExists
    <2>. QED BY <1>2, <2>1 DEF Schedules, Scheduled, ScheduleMatches, PickupIn, PickupExists,
                               SafeToCollect, Contract!SafeToCollect, Contract!Plan,
                               Contract!Has, PickupRow
  <1>3. ASSUME NEW q \in PaymentId, NEW bill \in PaymentRow, Bills(q, bill)
        PROVE  Contract!Bill(bill.waste, q)
    <2>1. /\ q \notin issued
          /\ payments' = [payments EXCEPT ![q] = bill]
          /\ households' = households
          /\ bill.status = "pending"
          /\ bill.proof = Null
          /\ pickups[bill.waste] # NoRow
          /\ bill.household = pickups[bill.waste].household
          /\ bill.amount = PaymentAmounts[pickups[bill.waste].type]
          /\ ~PaymentClash(bill)
      BY <1>3 DEF Bills, InsertPayment, BillFits, PaymentInsertError, PickupExists
    <2>2. payments[q] = NoRow
      BY <2>1 DEF TablesInv, KeysIssued, PaymentExists
    <2>3. bill = [household |-> pickups[bill.waste].household, waste |-> bill.waste,
                  amount |-> PaymentAmounts[pickups[bill.waste].type],
                  status |-> "pending", proof |-> Null]
      BY <2>1 DEF PaymentRow
    <2>4. \A b \in PaymentId : payments[b] # NoRow =>
             /\ payments[b].waste # bill.waste
             /\ payments[b].household = pickups[bill.waste].household
                   => payments[b].status = "paid"
      BY <2>1 DEF PaymentClash, PaymentExists, TablesInv, NoFailedPayment
    <2>5. Contract!PaymentAmounts = PaymentAmounts
      BY DEF PaymentAmounts, WasteType, Contract!PaymentAmounts, Contract!WasteType
    <2>. QED BY <2>1, <2>2, <2>3, <2>4, <2>5 DEF Contract!Bill, Contract!Has
  <1>4. ASSUME NEW q \in PaymentId, NEW bill \in PaymentRow, Completes(q, bill)
        PROVE  Contract!Collect(bill.waste, q)
    <2>1. bill.waste \in PickupId
      BY DEF PaymentRow
    <2>2. pickups' = [pickups EXCEPT ![bill.waste].status = "completed"]
      BY <1>4, <2>1 DEF Completes, WithStatus
    <2>. QED BY <1>3, <1>4, <2>2
             DEF Completes, CompleteMatches, PickupIn, Contract!Collect
  <1>5. ASSUME NEW P \in SUBSET PickupId, Cancels(P)
        PROVE  Contract!Cancel(P)
    BY <1>5 DEF Cancels, CancelMatches, PickupIn, PickupExists, WithStatus,
                Cancellable, Contract!Cancellable, Contract!Cancel, Contract!Has
  <1>6. ASSUME NEW q \in PaymentId, NEW u \in ProofId, Pays(q, u)
        PROVE  Contract!Pay(q, u)
    <2>1. payments[q] \in PaymentRow
      BY <1>6 DEF Pays, ConfirmMatches, PaymentExists
    <2>. QED BY <1>6, <2>1 DEF Pays, ConfirmMatches, PaymentExists, Paid, PaymentRow,
                               Contract!Pay, Contract!Has
  <1>7. ASSUME NEW h \in HouseholdId, CreateHousehold(h)
        PROVE  Contract!Join(h) \/ UNCHANGED Contract!contractVars
    BY <1>7 DEF CreateHousehold, Contract!Join, Contract!contractVars
  <1>8. ASSUME NEW h \in HouseholdId, DeleteHousehold(h)
        PROVE  Contract!Leave(h)
    <2>1. \A q \in PaymentId : payments[q] # NoRow =>
             /\ pickups[payments[q].waste] # NoRow
             /\ pickups[payments[q].waste].household = payments[q].household
      BY DEF TablesInv, ReferentialIntegrity, PaymentMatchesPickup, PickupExists,
             PaymentExists, PaymentRow
    <2>2. payments' = [q \in PaymentId |->
             IF payments[q] # NoRow /\ payments[q].household = h THEN NoRow
             ELSE payments[q]]
      BY <1>8, <2>1 DEF DeleteHousehold, PaymentsWithout, PickupExists, PaymentExists
    <2>. QED BY <1>8, <2>2 DEF DeleteHousehold, PickupsWithout, PickupExists,
                               Contract!Leave, Contract!Has
  <1>9. ASSUME NoEffect
        PROVE  UNCHANGED Contract!contractVars
    BY <1>9 DEF NoEffect, tables, Contract!contractVars
  <1>10. ASSUME NEW q \in PaymentId, NEW bill \in PaymentRow, Bills(q, bill),
                UNCHANGED pickups
         PROVE  Contract!BillOnly(bill.waste, q) /\ bill.waste \in PickupId
    BY <1>3, <1>10 DEF Contract!BillOnly, PaymentRow
  <1>. QED BY <1>1, <1>2, <1>4, <1>5, <1>6, <1>7, <1>8, <1>9, <1>10
           DEF Effect, Contract!ContractNext, PaymentRow

=============================================================================
