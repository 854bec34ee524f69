---------------------------- MODULE ReadersProofs ----------------------------
(***************************************************************************)
(* The two kinds of reports, for any number of households, pickups and     *)
(* payments.                                                               *)
(*                                                                         *)
(* A household's history: as long as the household stays, its pickups and  *)
(* its completed pickups only become more, so each of the three            *)
(* unsynchronised SELECTs returns at least what there was at the start and *)
(* at most what there is at the end; the tables satisfy BR-05 all along.   *)
(*                                                                         *)
(* The two summaries: bills carry the prices, completed pickups stay, and  *)
(* so what the later report sums covers what the earlier one counted.  The *)
(* sums are over sets of any size; that the folds of Readers compute them  *)
(* is shown by induction on finite sets.                                   *)
(***************************************************************************)
EXTENDS Readers, FiniteSetTheorems, TLAPS

(***************************************************************************)
(* The tables                                                              *)
(***************************************************************************)
TablesType ==
    /\ households \subseteq HouseholdId
    /\ pickups \in [PickupId -> PickupRecord \cup {NoRow}]
    /\ payments \in [PaymentId -> PaymentRecord \cup {NoRow}]

\* A payment is for a pickup of its household; a completed pickup has one.
TablesFit ==
    /\ \A q \in PaymentId : Has(payments, q) =>
          /\ Has(pickups, payments[q].waste)
          /\ pickups[payments[q].waste].household = payments[q].household
    /\ \A p \in PickupId : Has(pickups, p) /\ pickups[p].status = "completed" =>
          \E q \in PaymentId : Has(payments, q) /\ payments[q].waste = p

LEMMA WritesKeepTables ==
    ASSUME TablesType, TablesFit, ContractNext
    PROVE  TablesType' /\ TablesFit'
  <1>. USE NoRowAssumption, TypesAssumption DEF TablesType, TablesFit, Has
  <1>1. ASSUME NEW h \in HouseholdId, Join(h) PROVE TablesType' /\ TablesFit'
    BY <1>1 DEF Join
  <1>2. ASSUME NEW h \in HouseholdId, Leave(h) PROVE TablesType' /\ TablesFit'
    BY <1>2 DEF Leave, PaymentRecord
  <1>3. ASSUME NEW p \in PickupId, NEW h \in HouseholdId, NEW t \in Types, NEW s \in BOOLEAN,
               Ask(p, h, t, s)
        PROVE  TablesType' /\ TablesFit'
    <2>1. PICK row : /\ row = [household |-> h, type |-> t, status |-> "pending",
                               safety |-> s, date |-> Null]
                     /\ pickups' = [pickups EXCEPT ![p] = row]
                     /\ pickups[p] = NoRow
                     /\ UNCHANGED <<households, payments>>
      BY <1>3 DEF Ask
    <2>2. row \in PickupRecord /\ row.status = "pending"
      BY <2>1 DEF PickupRecord, PickupStatus
    <2>3. TablesType'
      BY <2>1, <2>2
    <2>4. TablesFit'
      BY <2>1, <2>2 DEF PaymentRecord
    <2>. QED BY <2>3, <2>4
  <1>4. ASSUME NEW p \in PickupId, NEW d \in PickupDate, Plan(p, d)
        PROVE  TablesType' /\ TablesFit'
    <2>1. PICK row : /\ row = [pickups[p] EXCEPT !.status = "scheduled", !.date = d]
                     /\ pickups' = [pickups EXCEPT ![p] = row]
                     /\ pickups[p] \in PickupRecord
                     /\ UNCHANGED <<households, payments>>
      BY <1>4 DEF Plan
    <2>2. row \in PickupRecord /\ row.status = "scheduled"
          /\ row.household = pickups[p].household
      BY <2>1 DEF PickupRecord, PickupStatus
    <2>3. TablesType'
      BY <2>1, <2>2
    <2>4. \A x \in PickupId :
             /\ pickups'[x] # NoRow <=> pickups[x] # NoRow
             /\ pickups[x] # NoRow => pickups'[x].household = pickups[x].household
             /\ pickups'[x].status = "completed" => pickups[x].status = "completed"
      BY <2>1, <2>2
    <2>5. \A x \in PaymentId : payments[x] # NoRow => payments[x].waste \in PickupId
      BY DEF PaymentRecord
    <2>6. TablesFit'
      BY <2>1, <2>4, <2>5
    <2>. QED BY <2>3, <2>6
  <1>5. ASSUME NEW p \in PickupId, NEW q \in PaymentId, Bill(p, q),
               UNCHANGED pickups \/ pickups' = [pickups EXCEPT ![p].status = "completed"]
        PROVE  TablesType' /\ TablesFit'
    <2>1. PICK bill : /\ bill = [household |-> pickups[p].household, waste |-> p,
                                 amount |-> PaymentAmounts[pickups[p].type],
                                 status |-> "pending", proof |-> Null]
                      /\ payments' = [payments EXCEPT ![q] = bill]
                      /\ payments[q] = NoRow
                      /\ pickups[p] \in PickupRecord
                      /\ households' = households
      BY <1>5 DEF Bill
    <2>2. bill \in PaymentRecord /\ bill.waste = p /\ bill.household = pickups[p].household
      <3>1. PaymentAmounts[pickups[p].type] \in Nat
        BY <2>1 DEF PickupRecord, PaymentAmounts
      <3>. QED BY <2>1, <3>1 DEF PickupRecord, PaymentRecord, PaymentStatus
    <2>3. /\ pickups' \in [PickupId -> PickupRecord \cup {NoRow}]
          /\ \A x \in PickupId : /\ pickups'[x] # NoRow <=> pickups[x] # NoRow
                                 /\ pickups[x] # NoRow =>
                                       pickups'[x].household = pickups[x].household
                                 /\ x # p => pickups'[x] = pickups[x]
      <3>1. CASE pickups' = [pickups EXCEPT ![p].status = "completed"]
        <4>1. PICK row : /\ row = [pickups[p] EXCEPT !.status = "completed"]
                         /\ pickups' = [pickups EXCEPT ![p] = row]
          BY <3>1
        <4>2. row \in PickupRecord /\ row.household = pickups[p].household
          BY <2>1, <4>1 DEF PickupRecord, PickupStatus
        <4>3. row # NoRow
          BY <4>2
        <4>4. pickups' \in [PickupId -> PickupRecord \cup {NoRow}]
          BY <4>1, <4>2
        <4>. QED BY <2>1, <4>1, <4>2, <4>3, <4>4
      <3>. QED BY <1>5, <3>1
    <2>4. TablesType'
      BY <2>1, <2>2, <2>3
    <2>5. \A x \in PaymentId :
             /\ payments'[x] # NoRow => payments'[x].waste \in PickupId
             /\ x # q => payments'[x] = payments[x]
      BY <2>1, <2>4 DEF PaymentRecord
    <2>6. payments'[q] = bill /\ bill # NoRow
      BY <2>1, <2>2
    <2>7. ASSUME NEW x \in PaymentId, payments'[x] # NoRow
          PROVE  /\ pickups'[payments'[x].waste] # NoRow
                 /\ pickups'[payments'[x].waste].household = payments'[x].household
      BY <2>1, <2>2, <2>3, <2>5, <2>6, <2>7
    <2>8. ASSUME NEW x \in PickupId, pickups'[x] # NoRow, pickups'[x].status = "completed"
          PROVE  \E y \in PaymentId : payments'[y] # NoRow /\ payments'[y].waste = x
      <3>1. CASE x = p
        BY <2>2, <2>6, <3>1
      <3>2. CASE x # p
        <4>1. PICK y \in PaymentId : payments[y] # NoRow /\ payments[y].waste = x
          BY <2>3, <2>8, <3>2
        <4>. QED BY <2>1, <2>5, <4>1
      <3>. QED BY <3>1, <3>2
    <2>. QED BY <2>4, <2>7, <2>8
  <1>6. ASSUME NEW P \in SUBSET PickupId, Cancel(P) PROVE TablesType' /\ TablesFit'
    <2>1. /\ \A p \in P : pickups[p] \in PickupRecord
          /\ pickups' = [p \in PickupId |->
                IF p \in P THEN [pickups[p] EXCEPT !.status = "canceled"] ELSE pickups[p]]
          /\ UNCHANGED <<households, payments>>
      BY <1>6 DEF Cancel
    <2>2. /\ pickups' \in [PickupId -> PickupRecord \cup {NoRow}]
          /\ \A x \in PickupId : /\ pickups'[x] # NoRow <=> pickups[x] # NoRow
                                 /\ pickups[x] # NoRow =>
                                       /\ pickups'[x].household = pickups[x].household
                                       /\ pickups'[x].status \in {"canceled", pickups[x].status}
      BY <2>1 DEF PickupRecord, PickupStatus
    <2>. QED BY <2>1, <2>2 DEF PaymentRecord
  <1>7. ASSUME NEW q \in PaymentId, NEW u \in ProofId, Pay(q, u)
        PROVE  TablesType' /\ TablesFit'
    <2>1. PICK row : /\ row = [payments[q] EXCEPT !.status = "paid", !.proof = <<q, u>>]
                     /\ payments' = [payments EXCEPT ![q] = row]
                     /\ payments[q] \in PaymentRecord
                     /\ UNCHANGED <<households, pickups>>
      BY <1>7 DEF Pay
    <2>2. row \in PaymentRecord /\ row.waste = payments[q].waste
          /\ row.household = payments[q].household
      BY <2>1 DEF PaymentRecord, PaymentStatus
    <2>3. TablesType'
      BY <2>1, <2>2
    <2>4. \A x \in PaymentId :
             /\ payments'[x] # NoRow <=> payments[x] # NoRow
             /\ payments[x] # NoRow => /\ payments'[x].household = payments[x].household
                                       /\ payments'[x].waste = payments[x].waste
      BY <2>1, <2>2
    <2>5. TablesFit'
      BY <2>1, <2>4
    <2>. QED BY <2>3, <2>5
  <1>. QED BY <1>1, <1>2, <1>3, <1>4, <1>5, <1>6, <1>7
           DEF ContractNext, Collect, BillOnly

(***************************************************************************)
(* The client                                                              *)
(***************************************************************************)
Part == {"household", "pickups", "payments"}

HistoryReader ==
    [at : {"history", "told"}, household : HouseholdId, todo : SUBSET Part, found : BOOLEAN,
     pickups : SUBSET PickupId, completed : SUBSET PickupId, billed : SUBSET PickupId]

HistoryWatch == [at : {"history"}, asked : SUBSET PickupId, collected : SUBSET PickupId,
                 left : BOOLEAN, present : BOOLEAN, absent : BOOLEAN]

\* Whatever else it does, the client does not get into a history by accident.
ReaderType ==
    /\ reader.at \in {"history", "told"} => reader \in HistoryReader /\ during \in HistoryWatch
    /\ reader.at \in {"idle", "count", "select", "walked", "waste", "payments", "summed",
                      "history", "told"}
    /\ reader.at \in {"count", "select", "walked"} =>
          \E a, b, c, d, e, f :
             reader = [at |-> reader.at, list |-> a, perPage |-> b, page |-> c, total |-> d,
                       got |-> e, repeated |-> f]

BilledOf(h) == {payments[q].waste : q \in PaymentsOfHousehold(h)}

\* What a statement returned lies between what there was at the start and what there is
\* now, where h is the household asked for.
BetweenStartAndNow(h) ==
    /\ during.asked \subseteq PickupsOfHousehold(h)
    /\ during.collected \subseteq CompletedOf(h)
    /\ "pickups" \notin reader.todo =>
          /\ during.asked \subseteq reader.pickups
          /\ reader.pickups \subseteq PickupsOfHousehold(h)
          /\ reader.completed \subseteq CompletedOf(h)
    /\ "payments" \notin reader.todo =>
          /\ during.collected \subseteq reader.billed
          /\ reader.billed \subseteq PickupsOfHousehold(h)

HistoryInv ==
    reader.at \in {"history", "told"} =>
        /\ ~during.left => BetweenStartAndNow(reader.household)
        /\ IF reader.household \in households THEN during.present ELSE during.absent
        /\ "household" \notin reader.todo =>
              IF NotFound THEN during.absent ELSE during.present
        /\ reader.at = "told" => reader.todo = {}

ReadersInv == TablesType /\ TablesFit /\ ReaderType /\ HistoryInv

LEMMA ReadersInvInit == ReadersInit => ReadersInv
  BY DEF ReadersInit, ContractInit, Idle, ReadersInv, TablesType, TablesFit, Has, ReaderType,
         HistoryInv

\* BR-05, seen from a household: it is billed for pickups of its own, and for all that
\* are completed.
LEMMA BilledIsOwn ==
    ASSUME TablesType, TablesFit, NEW h \in HouseholdId
    PROVE  BilledOf(h) \subseteq PickupsOfHousehold(h)
  BY DEF TablesType, TablesFit, Has, BilledOf, PaymentsOfHousehold, PickupsOfHousehold,
         PaymentRecord

LEMMA CompletedIsBilled ==
    ASSUME TablesType, TablesFit, NEW h \in HouseholdId
    PROVE  CompletedOf(h) \subseteq BilledOf(h)
  <1>. SUFFICES ASSUME NEW p \in CompletedOf(h) PROVE p \in BilledOf(h)
    OBVIOUS
  <1>1. p \in PickupId /\ Has(pickups, p) /\ pickups[p].household = h
        /\ pickups[p].status = "completed"
    BY DEF CompletedOf, PickupsOfHousehold
  <1>2. PICK q \in PaymentId : Has(payments, q) /\ payments[q].waste = p
    BY <1>1 DEF TablesFit
  <1>3. payments[q].household = h
    BY <1>1, <1>2 DEF TablesFit
  <1>. QED BY <1>2, <1>3 DEF BilledOf, PaymentsOfHousehold

\* Nothing takes a pickup away from a household that stays, or undoes its completion.
LEMMA HouseholdKeepsPickups ==
    ASSUME TablesType, ContractNext, NEW h \in HouseholdId,
           h \in households => h \in households'
    PROVE  /\ PickupsOfHousehold(h) \subseteq PickupsOfHousehold(h)'
           /\ CompletedOf(h) \subseteq CompletedOf(h)'
  <1>. USE NoRowAssumption DEF TablesType, Has
  <1>. DEFINE Stays(p) ==
                 /\ pickups'[p] # NoRow
                 /\ pickups'[p].household = pickups[p].household
                 /\ pickups[p].status = "completed" => pickups'[p].status = "completed"
  <1>1. SUFFICES ASSUME NEW p \in PickupId, pickups[p] # NoRow, pickups[p].household = h
                 PROVE  Stays(p)
    BY <1>1 DEF PickupsOfHousehold, CompletedOf
  <1>2. pickups[p] \in PickupRecord
    BY <1>1
  <1>3. ASSUME NEW x \in HouseholdId, Join(x) \/ Leave(x) PROVE Stays(p)
    BY <1>1, <1>3 DEF Join, Leave
  <1>4. ASSUME NEW x \in PickupId, NEW y \in HouseholdId, NEW t \in Types, NEW s \in BOOLEAN,
               Ask(x, y, t, s)
        PROVE  Stays(p)
    BY <1>1, <1>4 DEF Ask
  <1>5. ASSUME NEW x \in PickupId, NEW d \in PickupDate, Plan(x, d) PROVE Stays(p)
    <2>1. PICK row : /\ row = [pickups[x] EXCEPT !.status = "scheduled", !.date = d]
                     /\ pickups' = [pickups EXCEPT ![x] = row]
                     /\ pickups[x] \in PickupRecord
                     /\ pickups[x].status = "pending"
      BY <1>5 DEF Plan
    <2>2. row \in PickupRecord /\ row.household = pickups[x].household
      BY <2>1 DEF PickupRecord, PickupStatus
    <2>. QED BY <1>1, <2>1, <2>2
  <1>6. ASSUME NEW x \in PickupId, NEW q \in PaymentId, Collect(x, q) \/ BillOnly(x, q)
        PROVE  Stays(p)
    <2>1. CASE BillOnly(x, q)
      BY <1>1, <2>1 DEF BillOnly
    <2>2. CASE Collect(x, q)
      <3>1. PICK row : /\ row = [pickups[x] EXCEPT !.status = "completed"]
                       /\ pickups' = [pickups EXCEPT ![x] = row]
                       /\ pickups[x] \in PickupRecord
        BY <2>2 DEF Collect, Bill
      <3>2. row \in PickupRecord /\ row.household = pickups[x].household
            /\ row.status = "completed"
        BY <3>1 DEF PickupRecord, PickupStatus
      <3>. QED BY <1>1, <3>1, <3>2
    <2>. QED BY <1>6, <2>1, <2>2
  <1>7. ASSUME NEW P \in SUBSET PickupId, Cancel(P) PROVE Stays(p)
    <2>1. CASE p \in P
      <3>1. PICK row : /\ row = [pickups[p] EXCEPT !.status = "canceled"]
                       /\ pickups'[p] = row
        BY <1>7, <2>1 DEF Cancel
      <3>2. row \in PickupRecord /\ row.household = pickups[p].household
        BY <1>2, <3>1 DEF PickupRecord, PickupStatus
      <3>3. pickups[p].status # "completed"
        BY <1>7, <2>1 DEF Cancel, Cancellable
      <3>. QED BY <3>1, <3>2, <3>3
    <2>2. CASE p \notin P
      BY <1>1, <1>7, <2>2 DEF Cancel
    <2>. QED BY <2>1, <2>2
  <1>8. ASSUME NEW q \in PaymentId, NEW u \in ProofId, Pay(q, u) PROVE Stays(p)
    BY <1>1, <1>8 DEF Pay
  <1>. QED BY <1>3, <1>4, <1>5, <1>6, <1>7, <1>8 DEF ContractNext

LEMMA WriteStep ==
    ASSUME ReadersInv, Write
    PROVE  ReadersInv'
  <1>. USE DEF ReadersInv
  <1>1. TablesType' /\ TablesFit' /\ reader' = reader
    BY WritesKeepTables DEF Write
  <1>2. CASE reader.at \in {"history", "told"}
    <2>1. reader \in HistoryReader /\ during \in HistoryWatch
      BY <1>2 DEF ReaderType
    <2>2. PICK h \in HouseholdId : h = reader.household
      BY <2>1 DEF HistoryReader
    <2>3. during' = HistoryDuring(h \in households, h \in households')
      BY <2>1, <2>2 DEF Write, HistoryWatch
    <2>4. /\ during' \in HistoryWatch
          /\ during'.asked = during.asked /\ during'.collected = during.collected
          /\ ~during'.left => ~during.left /\ (h \in households => h \in households')
          /\ during.present => during'.present
          /\ during.absent => during'.absent
          /\ IF h \in households' THEN during'.present ELSE during'.absent
      BY <2>1, <2>3 DEF HistoryDuring, HistoryWatch
    <2>5. ReaderType'
      BY <1>1, <1>2, <2>1, <2>4 DEF ReaderType
    <2>6. ASSUME ~during'.left PROVE BetweenStartAndNow(h)'
      <3>1. BetweenStartAndNow(h)
        BY <1>2, <2>2, <2>4, <2>6 DEF HistoryInv
      <3>2. /\ PickupsOfHousehold(h) \subseteq PickupsOfHousehold(h)'
            /\ CompletedOf(h) \subseteq CompletedOf(h)'
        BY <2>4, <2>6, HouseholdKeepsPickups DEF Write
      <3>. QED BY <1>1, <2>4, <3>1, <3>2 DEF BetweenStartAndNow
    <2>7. HistoryInv'
      <3>1. ~during'.left => BetweenStartAndNow(reader.household)'
        BY <1>1, <2>2, <2>6 DEF BetweenStartAndNow, PickupsOfHousehold, CompletedOf
      <3>. QED BY <1>1, <1>2, <2>2, <2>4, <3>1 DEF HistoryInv, NotFound
    <2>. QED BY <1>1, <2>5, <2>7
  <1>3. CASE reader.at \notin {"history", "told"}
    BY <1>1, <1>3 DEF ReaderType, HistoryInv
  <1>. QED BY <1>2, <1>3

LEMMA HistoryStep ==
    ASSUME ReadersInv,
           (\E h \in HouseholdId : StartHistory(h)) \/ ReadHousehold \/ ReadPickups
           \/ ReadPayments
    PROVE  ReadersInv'
  <1>. USE DEF ReadersInv
  <1>1. UNCHANGED <<households, pickups, payments>>
    BY DEF StartHistory, ReadHousehold, ReadPickups, ReadPayments, Read, contractVars
  <1>2. TablesType' /\ TablesFit'
    BY <1>1 DEF TablesType, TablesFit
  <1>3. ASSUME NEW h \in HouseholdId, StartHistory(h) PROVE ReadersInv'
    <2>1. PICK r : /\ r = [at |-> "history", household |-> h,
                           todo |-> {"household", "pickups", "payments"},
                           found |-> FALSE, pickups |-> {}, completed |-> {}, billed |-> {}]
                   /\ reader' = r
      BY <1>3 DEF StartHistory
    <2>2. PICK d : /\ d = [at |-> "history", asked |-> PickupsOfHousehold(h),
                           collected |-> CompletedOf(h), left |-> FALSE,
                           present |-> h \in households, absent |-> h \notin households]
                   /\ during' = d
      BY <1>3 DEF StartHistory
    <2>3. r \in HistoryReader /\ r.at = "history" /\ r.todo = Part /\ r.household = h
      BY <2>1 DEF HistoryReader, Part
    <2>4. /\ d \in HistoryWatch
          /\ IF h \in households THEN d.present ELSE d.absent
      <3>1. /\ (h \in households) \in BOOLEAN /\ (h \notin households) \in BOOLEAN
            /\ PickupsOfHousehold(h) \subseteq PickupId /\ CompletedOf(h) \subseteq PickupId
        BY DEF PickupsOfHousehold, CompletedOf
      <3>. QED BY <2>2, <3>1 DEF HistoryWatch
    <2>5. ReaderType'
      BY <2>1, <2>2, <2>3, <2>4 DEF ReaderType
    <2>6. BetweenStartAndNow(h)'
      <3>1. /\ PickupsOfHousehold(h)' = PickupsOfHousehold(h)
            /\ CompletedOf(h)' = CompletedOf(h)
        BY <1>1 DEF PickupsOfHousehold, CompletedOf
      <3>. QED BY <2>1, <2>2, <2>3, <3>1 DEF BetweenStartAndNow, Part
    <2>7. BetweenStartAndNow(reader.household)'
      BY <1>1, <2>1, <2>3, <2>6 DEF BetweenStartAndNow, PickupsOfHousehold, CompletedOf
    <2>8. HistoryInv'
      BY <1>1, <2>1, <2>2, <2>3, <2>4, <2>7 DEF HistoryInv, Part
    <2>. QED BY <1>2, <2>5, <2>8
  <1>4. ASSUME NEW part \in Part, NEW new \in HistoryReader, Read(part, new),
               new.at = reader.at, new.household = reader.household, new.todo = reader.todo,
               part # "household" => new.found = reader.found,
               part # "pickups" => new.pickups = reader.pickups
                                   /\ new.completed = reader.completed,
               part # "payments" => new.billed = reader.billed,
               part = "household" => new.found = (reader.household \in households),
               part = "pickups" => /\ new.pickups = PickupsOfHousehold(reader.household)
                                   /\ new.completed = CompletedOf(reader.household),
               part = "payments" => new.billed = BilledOf(reader.household)
        PROVE  ReadersInv'
    <2>1. /\ reader \in HistoryReader /\ during \in HistoryWatch
          /\ during' = during /\ part \in reader.todo /\ reader.at = "history"
      BY <1>4 DEF Read, ReaderType
    <2>2. /\ reader' \in HistoryReader
          /\ reader'.household = reader.household /\ reader'.todo = reader.todo \ {part}
          /\ reader'.found = new.found /\ reader'.pickups = new.pickups
          /\ reader'.completed = new.completed /\ reader'.billed = new.billed
          /\ reader'.at = IF reader.todo = {part} THEN "told" ELSE "history"
      BY <1>4 DEF Read, HistoryReader
    <2>3. ReaderType'
      BY <2>1, <2>2 DEF ReaderType
    <2>4. PICK h \in HouseholdId : h = reader.household
      BY <2>1 DEF HistoryReader
    <2>5. /\ PickupsOfHousehold(h)' = PickupsOfHousehold(h)
          /\ CompletedOf(h)' = CompletedOf(h)
      BY <1>1 DEF PickupsOfHousehold, CompletedOf
    <2>6. CompletedOf(h) \subseteq BilledOf(h) /\ BilledOf(h) \subseteq PickupsOfHousehold(h)
      BY BilledIsOwn, CompletedIsBilled
    <2>7. BetweenStartAndNow(h) => BetweenStartAndNow(h)'
      BY <1>4, <2>1, <2>2, <2>4, <2>5, <2>6 DEF BetweenStartAndNow
    <2>8. BetweenStartAndNow(reader.household)' <=> BetweenStartAndNow(h)'
      BY <2>2, <2>4 DEF BetweenStartAndNow, PickupsOfHousehold, CompletedOf
    <2>9. HistoryInv'
      BY <1>1, <1>4, <2>1, <2>2, <2>4, <2>7, <2>8 DEF HistoryInv, NotFound
    <2>. QED BY <1>2, <2>3, <2>9
  <1>5. ASSUME reader.at = "history"
        PROVE  /\ reader \in HistoryReader
               /\ PickupsOfHousehold(reader.household) \subseteq PickupId
               /\ CompletedOf(reader.household) \subseteq PickupId
               /\ BilledOf(reader.household) \subseteq PickupId
    BY <1>5 DEF ReaderType, PickupsOfHousehold, CompletedOf, BilledOf, PaymentsOfHousehold,
                TablesType, Has, PaymentRecord
  <1>6. CASE ReadHousehold
    <2>1. PICK new : /\ new = [reader EXCEPT !.found = reader.household \in households]
                     /\ Read("household", new) /\ reader.at = "history"
      BY <1>6 DEF ReadHousehold, Read
    <2>2. new \in HistoryReader
      <3>1. (reader.household \in households) \in BOOLEAN
        OBVIOUS
      <3>. QED BY <1>5, <2>1, <3>1 DEF HistoryReader
    <2>. QED BY <1>4, <1>5, <2>1, <2>2 DEF HistoryReader, Part
  <1>7. CASE ReadPickups
    <2>1. PICK new : /\ new = [reader EXCEPT !.pickups = PickupsOfHousehold(reader.household),
                                             !.completed = CompletedOf(reader.household)]
                     /\ Read("pickups", new) /\ reader.at = "history"
      BY <1>7 DEF ReadPickups, Read, CompletedOf
    <2>2. new \in HistoryReader
      BY <1>5, <2>1 DEF HistoryReader
    <2>. QED BY <1>4, <1>5, <2>1, <2>2 DEF HistoryReader, Part
  <1>8. CASE ReadPayments
    <2>1. PICK new : /\ new = [reader EXCEPT !.billed = BilledOf(reader.household)]
                     /\ Read("payments", new) /\ reader.at = "history"
      BY <1>8 DEF ReadPayments, Read, BilledOf
    <2>2. new \in HistoryReader
      BY <1>5, <2>1 DEF HistoryReader
    <2>. QED BY <1>4, <1>5, <2>1, <2>2 DEF HistoryReader, Part
  <1>. QED BY <1>3, <1>6, <1>7, <1>8

\* Walks, summaries, and the end of any request.
LEMMA OtherStep ==
    ASSUME ReadersInv,
           \/ \E list \in List, n \in PerPage : StartWalk(list, n)
           \/ Count \/ Select \/ StartSummaries \/ ReadWasteSummary \/ ReadPaymentSummary
           \/ Stop
           \/ UNCHANGED readerVars
    PROVE  ReadersInv'
  <1>. USE DEF ReadersInv
  <1>1. UNCHANGED <<households, pickups, payments>>
    BY DEF StartWalk, Count, Select, StartSummaries, ReadWasteSummary, ReadPaymentSummary,
           Stop, contractVars, readerVars
  <1>2. TablesType' /\ TablesFit'
    BY <1>1 DEF TablesType, TablesFit
  <1>3. ASSUME ReaderType', reader'.at \notin {"history", "told"} PROVE ReadersInv'
    BY <1>2, <1>3 DEF HistoryInv
  <1>4. ASSUME NEW list \in List, NEW n \in PerPage, StartWalk(list, n) PROVE ReadersInv'
    BY <1>3, <1>4 DEF StartWalk, ReaderType
  <1>5. CASE Count
    <2>1. PICK a, b, c, d, e, f :
             reader = [at |-> "count", list |-> a, perPage |-> b, page |-> c, total |-> d,
                       got |-> e, repeated |-> f]
      BY <1>5 DEF Count, ReaderType
    <2>2. \E t : reader' = [reader EXCEPT !.at = "select", !.total = t]
      BY <1>5 DEF Count
    <2>. QED BY <1>3, <2>1, <2>2 DEF ReaderType
  <1>6. CASE Select
    <2>1. PICK a, b, c, d, e, f :
             reader = [at |-> "select", list |-> a, perPage |-> b, page |-> c, total |-> d,
                       got |-> e, repeated |-> f]
      BY <1>6 DEF Select, ReaderType
    <2>2. \E g, r, k : \/ reader' = [reader EXCEPT !.got = g, !.repeated = r, !.at = "walked"]
                       \/ reader' = [reader EXCEPT !.got = g, !.repeated = r, !.at = "count",
                                                   !.page = k]
      BY <1>6, <2>1 DEF Select
    <2>. QED BY <1>3, <2>1, <2>2 DEF ReaderType
  <1>7. CASE StartSummaries \/ ReadWasteSummary \/ ReadPaymentSummary
    BY <1>3, <1>7 DEF StartSummaries, ReadWasteSummary, ReadPaymentSummary, ReaderType
  <1>8. CASE Stop
    BY <1>3, <1>8 DEF Stop, Idle, ReaderType
  <1>9. CASE UNCHANGED readerVars
    BY <1>2, <1>9 DEF readerVars, contractVars, ReaderType, HistoryInv, NotFound,
                      BetweenStartAndNow, PickupsOfHousehold, CompletedOf
  <1>. QED BY <1>4, <1>5, <1>6, <1>7, <1>8, <1>9

LEMMA ReadersInvAlways == ReadersSpec => []ReadersInv
  <1>1. ReadersInv /\ [ReadersNext]_readerVars => ReadersInv'
    BY WriteStep, HistoryStep, OtherStep DEF ReadersNext
  <1>. QED BY <1>1, ReadersInvInit, PTL DEF ReadersSpec

(***************************************************************************)
(* The theorem                                                             *)
(***************************************************************************)
\* The three SELECTs of a history need no transaction, and no order: what does not fit
\* together was done meanwhile, unless the household was deleted, and a 404 was true at
\* some moment.
THEOREM HistoryFits == ReadersSpec => []HistoryIsConsistent
  <1>1. ReadersInv => HistoryIsConsistent
    <2>. SUFFICES ASSUME ReadersInv, reader.at = "told"
                  PROVE  /\ ~during.left =>
                               /\ reader.billed \ reader.pickups \subseteq
                                     PickupsOfHousehold(reader.household) \ during.asked
                               /\ reader.completed \ reader.billed \subseteq
                                     CompletedOf(reader.household) \ during.collected
                         /\ IF NotFound THEN during.absent ELSE during.present
      BY DEF HistoryIsConsistent
    <2>1. reader.todo = {} /\ IF NotFound THEN during.absent ELSE during.present
      BY DEF ReadersInv, HistoryInv
    <2>2. ~during.left => BetweenStartAndNow(reader.household)
      BY DEF ReadersInv, HistoryInv
    <2>. QED BY <2>1, <2>2 DEF BetweenStartAndNow
  <1>. QED BY <1>1, ReadersInvAlways, PTL

(***************************************************************************)
(* Sums over finite sets                                                   *)
(***************************************************************************)
LEMMA FiniteInduction ==
    ASSUME NEW S, IsFiniteSet(S), NEW F, {} \in F,
           \A T \in SUBSET S : \A x \in S \ T : T \in F => T \cup {x} \in F
    PROVE  S \in F
  <1>. SUFFICES ASSUME S \notin F PROVE FALSE
    OBVIOUS
  <1>. DEFINE B == {T \in SUBSET S : T \notin F}
  <1>1. B \subseteq FiniteSubsetsOf(S) /\ B # {}
    BY FS_FiniteSubsetsOfFinite
  <1>2. IsWellFoundedOn(StrictSubsetOrdering(S), FiniteSubsetsOf(S))
    BY FS_StrictSubsetOrderingWellFounded
  <1>3. PICK T \in B : \A U \in B : ~(<<U, T>> \in StrictSubsetOrdering(S))
    <2>. HIDE DEF B
    <2>. QED BY <1>1, <1>2, WFMin
  <1>4. PICK x \in T : TRUE
    OBVIOUS
  <1>5. T \ {x} \notin B
    BY <1>3, <1>4 DEF StrictSubsetOrdering
  <1>6. T \ {x} \in F /\ (T \ {x}) \cup {x} = T
    BY <1>4, <1>5
  <1>. QED BY <1>4, <1>6

\* g gives the sum of f over every subset of S.
SumsOf(g, f, S) ==
    /\ g \in [SUBSET S -> Nat]
    /\ g[{}] = 0
    /\ \A T \in SUBSET S : \A x \in S \ T : g[T \cup {x}] = f[x] + g[T]

LEMMA SumsExist ==
    ASSUME NEW S, IsFiniteSet(S), NEW f \in [S -> Nat]
    PROVE  \E g : SumsOf(g, f, S)
  <1>. DEFINE F == {T \in SUBSET S : \E g : SumsOf(g, f, T)}
  <1>1. {} \in F
    <2>1. SumsOf([T \in SUBSET {} |-> 0], f, {})
      BY DEF SumsOf
    <2>. QED BY <2>1
  <1>2. ASSUME NEW T \in SUBSET S, NEW x \in S \ T, T \in F
        PROVE  T \cup {x} \in F
    <2>1. PICK g : SumsOf(g, f, T)
      BY <1>2
    <2>. DEFINE h == [U \in SUBSET (T \cup {x}) |->
                        g[U \ {x}] + IF x \in U THEN f[x] ELSE 0]
    <2>2. h \in [SUBSET (T \cup {x}) -> Nat]
      <3>. SUFFICES ASSUME NEW U \in SUBSET (T \cup {x})
                    PROVE  g[U \ {x}] + (IF x \in U THEN f[x] ELSE 0) \in Nat
        OBVIOUS
      <3>1. U \ {x} \in SUBSET T
        OBVIOUS
      <3>. QED BY <2>1, <3>1 DEF SumsOf
    <2>3. h[{}] = 0
      <3>1. {} \ {x} = {} /\ {} \in SUBSET (T \cup {x})
        OBVIOUS
      <3>. QED BY <2>1, <3>1 DEF SumsOf
    <2>4. ASSUME NEW U \in SUBSET (T \cup {x}), NEW y \in (T \cup {x}) \ U
          PROVE  h[U \cup {y}] = f[y] + h[U]
      <3>1. CASE y = x
        <4>1. (U \cup {x}) \ {x} = U /\ U \ {x} = U /\ x \notin U
          BY <2>4, <3>1
        <4>2. U \cup {x} \in SUBSET (T \cup {x}) /\ U \in SUBSET T
          BY <4>1
        <4>3. h[U \cup {x}] = g[U] + f[x] /\ h[U] = g[U]
          <5>1. g[U] \in Nat
            BY <2>1, <4>2 DEF SumsOf
          <5>. QED BY <4>1, <4>2, <5>1
        <4>. QED BY <2>1, <3>1, <4>2, <4>3 DEF SumsOf
      <3>2. CASE y # x
        <4>1. /\ (U \cup {y}) \ {x} = (U \ {x}) \cup {y}
              /\ x \in U \cup {y} <=> x \in U
              /\ U \ {x} \in SUBSET T
              /\ U \cup {y} \in SUBSET (T \cup {x})
              /\ y \in T \ (U \ {x})
          BY <2>4, <3>2
        <4>2. g[(U \ {x}) \cup {y}] = f[y] + g[U \ {x}]
          BY <2>1, <4>1 DEF SumsOf
        <4>3. g[U \ {x}] \in Nat /\ f[y] \in Nat /\ f[x] \in Nat
          BY <2>1, <4>1 DEF SumsOf
        <4>. QED BY <4>1, <4>2, <4>3
      <3>. QED BY <3>1, <3>2
    <2>. HIDE DEF h
    <2>5. SumsOf(h, f, T \cup {x})
      BY <2>2, <2>3, <2>4 DEF SumsOf
    <2>. QED BY <2>5
  <1>3. S \in F
    <2>. HIDE DEF F
    <2>. QED BY <1>1, <1>2, FiniteInduction
  <1>. QED BY <1>3

LEMMA SumOfUnion ==
    ASSUME NEW S, IsFiniteSet(S), NEW f \in [S -> Nat], NEW g, SumsOf(g, f, S),
           NEW T \in SUBSET S, NEW U \in SUBSET S, T \cap U = {}
    PROVE  g[T \cup U] = g[T] + g[U]
  <1>. DEFINE F == {V \in SUBSET S : V \subseteq U => g[T \cup V] = g[T] + g[V]}
  <1>1. {} \in F
    <2>1. T \cup {} = T
      OBVIOUS
    <2>. QED BY <2>1 DEF SumsOf
  <1>2. ASSUME NEW V \in SUBSET S, NEW x \in S \ V, V \in F
        PROVE  V \cup {x} \in F
    <2>. SUFFICES ASSUME V \cup {x} \subseteq U
                  PROVE  g[T \cup (V \cup {x})] = g[T] + g[V \cup {x}]
      OBVIOUS
    <2>1. g[T \cup V] = g[T] + g[V]
      BY <1>2
    <2>2. T \cup (V \cup {x}) = (T \cup V) \cup {x} /\ x \notin T \cup V
      OBVIOUS
    <2>3. /\ g[(T \cup V) \cup {x}] = f[x] + g[T \cup V]
          /\ g[V \cup {x}] = f[x] + g[V]
      BY <2>2 DEF SumsOf
    <2>4. g[T] \in Nat /\ g[V] \in Nat /\ f[x] \in Nat
      BY DEF SumsOf
    <2>5. g[T \cup (V \cup {x})] = f[x] + g[T \cup V]
      BY <2>2, <2>3
    <2>. QED BY <2>1, <2>3, <2>4, <2>5
  <1>3. U \in F
    <2>. HIDE DEF F
    <2>1. IsFiniteSet(U)
      BY FS_Subset
    <2>2. \A V \in SUBSET U : \A x \in U \ V : V \in F => V \cup {x} \in F
      BY <1>2
    <2>. QED BY <1>1, <2>1, <2>2, FiniteInduction
  <1>. QED BY <1>3

Picked(s) == CHOOSE x \in s : TRUE

\* The recursion of MapThenSumSet over T, with f for what is summed.
Recurs(iter, f, T) ==
    iter = [s \in SUBSET T |-> IF s = {} THEN 0 ELSE f[Picked(s)] + iter[s \ {Picked(s)}]]

\* A non-empty set is what is picked from it and the rest.
LEMMA PickedAndRest ==
    ASSUME NEW S, NEW T \in SUBSET S, T # {}
    PROVE  /\ Picked(T) \in S \ (T \ {Picked(T)})
           /\ T = (T \ {Picked(T)}) \cup {Picked(T)}
           /\ T \ {Picked(T)} \in SUBSET S
  <1>1. PICK x : x = Picked(T) /\ x \in T
    BY DEF Picked
  <1>. QED BY <1>1

LEMMA RecursionExists ==
    ASSUME NEW S, NEW f \in [S -> Nat], NEW g, SumsOf(g, f, S), NEW T \in SUBSET S
    PROVE  \E iter : Recurs(iter, f, T)
  <1>. DEFINE iter == [s \in SUBSET T |-> g[s]]
  <1>1. ASSUME NEW s \in SUBSET T, s # {}
        PROVE  g[s] = f[Picked(s)] + iter[s \ {Picked(s)}]
    <2>1. PICK x, U : x = Picked(s) /\ U = s \ {x}
      OBVIOUS
    <2>2. x \in S \ U /\ s = U \cup {x} /\ U \in SUBSET T /\ U \in SUBSET S
      BY <1>1, <2>1, PickedAndRest
    <2>3. g[s] = f[x] + g[U]
      BY <2>2 DEF SumsOf
    <2>. QED BY <2>1, <2>2, <2>3
  <1>2. g[{}] = 0
    BY DEF SumsOf
  <1>3. iter = [s \in SUBSET T |->
                  IF s = {} THEN 0 ELSE f[Picked(s)] + iter[s \ {Picked(s)}]]
    BY <1>1, <1>2
  <1>. HIDE DEF iter
  <1>. QED BY <1>3 DEF Recurs

\* What the recursion finds is the sum.
LEMMA RecursionIsSum ==
    ASSUME NEW S, IsFiniteSet(S), NEW f \in [S -> Nat], NEW g, SumsOf(g, f, S),
           NEW T \in SUBSET S, NEW iter, Recurs(iter, f, T)
    PROVE  iter[T] = g[T]
  <1>. DEFINE B == {U \in SUBSET T : iter[U] # g[U]}
  <1>. SUFFICES ASSUME T \in B PROVE FALSE
    OBVIOUS
  <1>1. B \subseteq FiniteSubsetsOf(S) /\ B # {}
    BY FS_FiniteSubsetsOfFinite
  <1>2. IsWellFoundedOn(StrictSubsetOrdering(S), FiniteSubsetsOf(S))
    BY FS_StrictSubsetOrderingWellFounded
  <1>3. PICK V \in B : \A U \in B : ~(<<U, V>> \in StrictSubsetOrdering(S))
    <2>. HIDE DEF B
    <2>. QED BY <1>1, <1>2, WFMin
  <1>4. iter[V] = IF V = {} THEN 0 ELSE f[Picked(V)] + iter[V \ {Picked(V)}]
    BY <1>3 DEF Recurs
  <1>5. CASE V = {}
    BY <1>3, <1>4, <1>5 DEF SumsOf
  <1>6. CASE V # {}
    <2>1. PICK x, U : x = Picked(V) /\ U = V \ {x}
      OBVIOUS
    <2>2. x \in S \ U /\ V = U \cup {x} /\ U \in SUBSET T /\ U \in SUBSET S
      BY <1>3, <1>6, <2>1, PickedAndRest
    <2>3. iter[U] = g[U]
      <3>1. V \in SUBSET S /\ U \subseteq V /\ U # V
        BY <1>3, <2>2
      <3>2. <<U, V>> \in StrictSubsetOrdering(S)
        BY <2>2, <3>1 DEF StrictSubsetOrdering
      <3>. QED BY <1>3, <2>2, <3>2
    <2>4. g[V] = f[x] + g[U]
      BY <2>2 DEF SumsOf
    <2>. QED BY <1>3, <1>4, <1>6, <2>1, <2>3, <2>4
  <1>. QED BY <1>5, <1>6

LEMMA AmountsAreSums ==
    ASSUME NEW S, IsFiniteSet(S), NEW f \in [S -> Nat], NEW g, SumsOf(g, f, S),
           NEW Q \in SUBSET S, \A q \in Q : f[q] = payments[q].amount
    PROVE  Amounts(Q) = g[Q]
  <1>. DEFINE Follows(iter) ==
         iter = [s \in SUBSET Q |->
                   IF s = {} THEN 0
                   ELSE payments[Picked(s)].amount + iter[s \ {Picked(s)}]]
  <1>1. Amounts(Q) = (CHOOSE iter : Follows(iter))[Q]
    BY DEF Amounts, MapThenSumSet, MapThenFoldSet, Picked
  <1>2. PICK iter : Recurs(iter, f, Q)
    BY RecursionExists
  <1>3. ASSUME NEW i PROVE Follows(i) <=> Recurs(i, f, Q)
    <2>1. \A s \in SUBSET Q : s # {} => f[Picked(s)] = payments[Picked(s)].amount
      BY DEF Picked
    <2>. QED BY <2>1 DEF Recurs
  <1>. HIDE DEF Follows
  <1>4. PICK i : i = (CHOOSE j : Follows(j))
    OBVIOUS
  <1>5. Recurs(i, f, Q)
    BY <1>2, <1>3, <1>4
  <1>. QED BY <1>1, <1>4, <1>5, RecursionIsSum
LEMMA TwoPrices == \A t \in WasteType : PaymentAmounts[t] \in {50000, 100000}
  BY DEF PaymentAmounts

LEMMA OwedIsSum ==
    ASSUME NEW by, \A t \in WasteType : by[t]["completed"] \in Nat
    PROVE  Owed(by) = 50000 * (by["organic"]["completed"] + by["plastic"]["completed"]
                               + by["paper"]["completed"])
                      + 100000 * by["electronic"]["completed"]
  <1>. DEFINE f == [t \in WasteType |-> by[t]["completed"] * PaymentAmounts[t]]
              Follows(iter) ==
                iter = [s \in SUBSET WasteType |->
                          IF s = {} THEN 0
                          ELSE by[Picked(s)]["completed"] * PaymentAmounts[Picked(s)]
                               + iter[s \ {Picked(s)}]]
  <1>1. Owed(by) = (CHOOSE iter : Follows(iter))[WasteType]
    BY DEF Owed, MapThenSumSet, MapThenFoldSet, Picked
  <1>2. /\ \A t \in WasteType : f[t] = by[t]["completed"] * PaymentAmounts[t]
        /\ f \in [WasteType -> Nat]
    <2>1. \A n \in Nat : n * 50000 \in Nat /\ n * 100000 \in Nat
      OBVIOUS
    <2>2. ASSUME NEW t \in WasteType PROVE by[t]["completed"] * PaymentAmounts[t] \in Nat
      <3>1. PICK n \in Nat : n = by[t]["completed"]
        OBVIOUS
      <3>2. PaymentAmounts[t] = 50000 \/ PaymentAmounts[t] = 100000
        BY TwoPrices
      <3>. QED BY <2>1, <3>1, <3>2
    <2>. QED BY <2>2
  <1>3. /\ f["electronic"] = 100000 * by["electronic"]["completed"]
        /\ f["organic"] = 50000 * by["organic"]["completed"]
        /\ f["plastic"] = 50000 * by["plastic"]["completed"]
        /\ f["paper"] = 50000 * by["paper"]["completed"]
    BY <1>2 DEF WasteType, PaymentAmounts
  <1>. HIDE DEF f
  <1>4. IsFiniteSet(WasteType)
    <2>1. IsFiniteSet({"organic"} \cup {"plastic"} \cup {"paper"} \cup {"electronic"})
      BY FS_Singleton, FS_Union
    <2>2. WasteType = {"organic"} \cup {"plastic"} \cup {"paper"} \cup {"electronic"}
      BY DEF WasteType
    <2>. QED BY <2>1, <2>2
  <1>5. PICK g : SumsOf(g, f, WasteType)
    BY <1>2, <1>4, SumsExist
  <1>6. ASSUME NEW i PROVE Follows(i) <=> Recurs(i, f, WasteType)
    <2>1. \A s \in SUBSET WasteType :
             s # {} => f[Picked(s)] = by[Picked(s)]["completed"] * PaymentAmounts[Picked(s)]
      BY <1>2 DEF Picked
    <2>. QED BY <2>1 DEF Recurs
  <1>. HIDE DEF Follows
  <1>7. PICK i : i = (CHOOSE j : Follows(j))
    OBVIOUS
  <1>8. Recurs(i, f, WasteType)
    <2>1. \E iter : Recurs(iter, f, WasteType)
      BY <1>2, <1>5, RecursionExists
    <2>. QED BY <1>6, <1>7, <2>1
  <1>9. Owed(by) = g[WasteType]
    BY <1>1, <1>2, <1>4, <1>5, <1>7, <1>8, RecursionIsSum
  <1>10. g[WasteType] = f["electronic"] + (f["paper"] + (f["plastic"] + (f["organic"] + 0)))
    <2>1. g[{} \cup {"organic"}] = f["organic"] + 0
      <3>1. {} \in SUBSET WasteType /\ "organic" \in WasteType \ {}
        BY DEF WasteType
      <3>2. g[{} \cup {"organic"}] = f["organic"] + g[{}] /\ g[{}] = 0
        BY <1>5, <3>1 DEF SumsOf
      <3>. QED BY <3>2
    <2>2. g[{"organic"} \cup {"plastic"}] = f["plastic"] + g[{} \cup {"organic"}]
      <3>1. {} \cup {"organic"} = {"organic"}
        OBVIOUS
      <3>. QED BY <1>5, <3>1 DEF SumsOf, WasteType
    <2>3. g[{"organic", "plastic"} \cup {"paper"}] = f["paper"] + g[{"organic"} \cup {"plastic"}]
      <3>1. {"organic"} \cup {"plastic"} = {"organic", "plastic"}
        OBVIOUS
      <3>. QED BY <1>5, <3>1 DEF SumsOf, WasteType
    <2>4. g[{"organic", "plastic", "paper"} \cup {"electronic"}]
             = f["electronic"] + g[{"organic", "plastic"} \cup {"paper"}]
      <3>1. {"organic", "plastic"} \cup {"paper"} = {"organic", "plastic", "paper"}
        OBVIOUS
      <3>. QED BY <1>5, <3>1 DEF SumsOf, WasteType
    <2>5. WasteType = {"organic", "plastic", "paper"} \cup {"electronic"}
      BY DEF WasteType
    <2>. QED BY <2>1, <2>2, <2>3, <2>4, <2>5
  <1>. QED BY <1>3, <1>9, <1>10 DEF WasteType

(***************************************************************************)
(* The price of what was collected                                         *)
(***************************************************************************)
\* A bill says the price of its pickup's type, and is either open or paid.
PricesFit ==
    \A q \in PaymentId : Has(payments, q) =>
        /\ payments[q].amount = PaymentAmounts[pickups[payments[q].waste].type]
        /\ payments[q].status \in {"pending", "paid"}

Completed == {p \in PickupId : Has(pickups, p) /\ pickups[p].status = "completed"}

OfType(C, t) == {p \in C : pickups[p].type = t}

\* What the pickups of C cost.
Due(C) ==
    50000 * (Cardinality(OfType(C, "organic")) + Cardinality(OfType(C, "plastic"))
             + Cardinality(OfType(C, "paper")))
    + 100000 * Cardinality(OfType(C, "electronic"))

BillsFor(C) == {q \in PaymentId : Has(payments, q) /\ payments[q].waste \in C}

\* What every payment adds to the revenue.
AmountOf == [q \in PaymentId |-> IF Has(payments, q) THEN payments[q].amount ELSE 0]

LEMMA AmountOfType ==
    ASSUME TablesType
    PROVE  /\ AmountOf \in [PaymentId -> Nat]
           /\ \A q \in PaymentId : Has(payments, q) => AmountOf[q] = payments[q].amount
  BY DEF TablesType, AmountOf, Has, PaymentRecord

\* One more pickup costs its price more.
LEMMA DueOfOneMore ==
    ASSUME TablesType, NEW C \in SUBSET PickupId, NEW p \in PickupId \ C, Has(pickups, p)
    PROVE  /\ Due(C) \in Nat
           /\ Due(C \cup {p}) = Due(C) + PaymentAmounts[pickups[p].type]
  <1>1. pickups[p].type \in WasteType
    BY DEF TablesType, Has, PickupRecord
  <1>2. ASSUME NEW t
        PROVE  /\ Cardinality(OfType(C, t)) \in Nat
               /\ Cardinality(OfType(C \cup {p}, t)) =
                     Cardinality(OfType(C, t)) + IF pickups[p].type = t THEN 1 ELSE 0
    <2>1. IsFiniteSet(OfType(C, t))
      BY FiniteAssumption, FS_Subset DEF OfType
    <2>2. p \notin OfType(C, t)
      BY DEF OfType
    <2>3. OfType(C \cup {p}, t) =
             IF pickups[p].type = t THEN OfType(C, t) \cup {p} ELSE OfType(C, t)
      BY DEF OfType
    <2>4. Cardinality(OfType(C, t)) \in Nat
      BY <2>1, FS_CardinalityType
    <2>5. Cardinality(OfType(C, t) \cup {p}) = Cardinality(OfType(C, t)) + 1
      BY <2>1, <2>2, FS_AddElement
    <2>. QED BY <2>3, <2>4, <2>5
  <1>3. PaymentAmounts[pickups[p].type] =
           IF pickups[p].type = "electronic" THEN 100000 ELSE 50000
    BY <1>1 DEF PaymentAmounts
  <1>4. PICK n, m :
           /\ n \in [WasteType -> Nat]
           /\ \A t \in WasteType : /\ n[t] = Cardinality(OfType(C, t))
                                   /\ m[t] = Cardinality(OfType(C \cup {p}, t))
    <2>. DEFINE n == [t \in WasteType |-> Cardinality(OfType(C, t))]
                m == [t \in WasteType |-> Cardinality(OfType(C \cup {p}, t))]
    <2>1. /\ n \in [WasteType -> Nat]
          /\ \A t \in WasteType : /\ n[t] = Cardinality(OfType(C, t))
                                  /\ m[t] = Cardinality(OfType(C \cup {p}, t))
      BY <1>2
    <2>. HIDE DEF n, m
    <2>. QED BY <2>1
  <1>5. \A t \in WasteType : m[t] = n[t] + IF pickups[p].type = t THEN 1 ELSE 0
    BY <1>2, <1>4
  <1>6. /\ Due(C) = 50000 * (n["organic"] + n["plastic"] + n["paper"])
                    + 100000 * n["electronic"]
        /\ Due(C \cup {p}) = 50000 * (m["organic"] + m["plastic"] + m["paper"])
                             + 100000 * m["electronic"]
    BY <1>4 DEF Due, WasteType
  <1>7. /\ n["organic"] \in Nat /\ n["plastic"] \in Nat /\ n["paper"] \in Nat
        /\ n["electronic"] \in Nat
    BY <1>4 DEF WasteType
  <1>8. /\ m["organic"] = n["organic"] + IF pickups[p].type = "organic" THEN 1 ELSE 0
        /\ m["plastic"] = n["plastic"] + IF pickups[p].type = "plastic" THEN 1 ELSE 0
        /\ m["paper"] = n["paper"] + IF pickups[p].type = "paper" THEN 1 ELSE 0
        /\ m["electronic"] = n["electronic"] + IF pickups[p].type = "electronic" THEN 1 ELSE 0
    BY <1>5 DEF WasteType
  <1>9. CASE pickups[p].type = "electronic"
    BY <1>3, <1>6, <1>7, <1>8, <1>9
  <1>10. CASE pickups[p].type \in {"organic", "plastic", "paper"}
    BY <1>3, <1>6, <1>7, <1>8, <1>10
  <1>. QED BY <1>1, <1>9, <1>10 DEF WasteType

\* What is summed over more is no less.
LEMMA SumOfSubset ==
    ASSUME NEW S, IsFiniteSet(S), NEW f \in [S -> Nat], NEW g, SumsOf(g, f, S),
           NEW U \in SUBSET S, NEW T \in SUBSET U
    PROVE  g[T] <= g[U]
  <1>1. PICK V : V = U \ T
    OBVIOUS
  <1>2. T \cup V = U /\ T \cap V = {} /\ T \in SUBSET S /\ V \in SUBSET S
    BY <1>1
  <1>3. g[U] = g[T] + g[V]
    BY <1>2, SumOfUnion
  <1>4. g[T] \in Nat /\ g[V] \in Nat
    BY <1>2 DEF SumsOf
  <1>. QED BY <1>3, <1>4

\* The bills for completed pickups come to at least their price.
LEMMA BillsCoverDue ==
    ASSUME TablesType, TablesFit, PricesFit, NEW g, SumsOf(g, AmountOf, PaymentId)
    PROVE  Due(Completed) <= g[BillsFor(Completed)]
  <1>. DEFINE F == {C \in SUBSET Completed : Due(C) <= g[BillsFor(C)]}
  <1>1. {} \in F
    <2>1. \A t : OfType({}, t) = {}
      BY DEF OfType
    <2>2. BillsFor({}) = {}
      BY DEF BillsFor
    <2>3. Due({}) = 0
      BY <2>1, FS_EmptySet DEF Due
    <2>. QED BY <2>2, <2>3 DEF SumsOf
  <1>2. ASSUME NEW C \in SUBSET Completed, NEW p \in Completed \ C, C \in F
        PROVE  C \cup {p} \in F
    <2>1. PICK q \in PaymentId : Has(payments, q) /\ payments[q].waste = p
      BY DEF Completed, TablesFit
    <2>2. payments[q].amount = PaymentAmounts[pickups[p].type]
      BY <2>1 DEF PricesFit
    <2>3. /\ BillsFor(C) \cup {q} \in SUBSET BillsFor(C \cup {p})
          /\ BillsFor(C \cup {p}) \in SUBSET PaymentId
          /\ BillsFor(C) \in SUBSET PaymentId
          /\ q \in PaymentId \ BillsFor(C)
      BY <2>1 DEF BillsFor
    <2>4. g[BillsFor(C) \cup {q}] = AmountOf[q] + g[BillsFor(C)]
      BY <2>3 DEF SumsOf
    <2>5. g[BillsFor(C) \cup {q}] <= g[BillsFor(C \cup {p})]
      BY <2>3, SumOfSubset, FiniteAssumption, AmountOfType
    <2>6. /\ Due(C) \in Nat
          /\ Due(C \cup {p}) = Due(C) + PaymentAmounts[pickups[p].type]
      BY DueOfOneMore DEF Completed
    <2>7. /\ AmountOf[q] = PaymentAmounts[pickups[p].type]
          /\ AmountOf[q] \in Nat
          /\ g[BillsFor(C)] \in Nat
          /\ g[BillsFor(C \cup {p})] \in Nat
      BY <2>1, <2>2, <2>3, AmountOfType DEF SumsOf
    <2>8. Due(C) <= g[BillsFor(C)]
      BY <1>2
    <2>9. Due(C \cup {p}) <= g[BillsFor(C \cup {p})]
      BY <2>4, <2>5, <2>6, <2>7, <2>8
    <2>. QED BY <2>9
  <1>3. IsFiniteSet(Completed)
    BY FiniteAssumption, FS_Subset DEF Completed
  <1>4. Completed \in F
    <2>. HIDE DEF F
    <2>. QED BY <1>1, <1>2, <1>3, FiniteInduction
  <1>. QED BY <1>4

\* The count of a type is the number of its completed pickups.
CountsFit ==
    \A t \in WasteType : /\ WasteSummary[t]["completed"] = Cardinality(OfType(Completed, t))
                         /\ WasteSummary[t]["completed"] \in Nat
                         /\ IsFiniteSet(OfType(Completed, t))

LEMMA CompletedCount == CountsFit
  <1>. SUFFICES ASSUME NEW t \in WasteType
                PROVE  /\ WasteSummary[t]["completed"] = Cardinality(OfType(Completed, t))
                       /\ WasteSummary[t]["completed"] \in Nat
                       /\ IsFiniteSet(OfType(Completed, t))
    BY DEF CountsFit
  <1>1. {p \in PickupId : /\ Has(pickups, p)
                          /\ pickups[p].type = t
                          /\ pickups[p].status = "completed"} = OfType(Completed, t)
    BY DEF OfType, Completed
  <1>2. WasteSummary[t]["completed"] = Cardinality(OfType(Completed, t))
    BY <1>1 DEF WasteSummary, PickupStatus
  <1>3. IsFiniteSet(OfType(Completed, t))
    BY FiniteAssumption, FS_Subset DEF OfType, Completed
  <1>. QED BY <1>2, <1>3, FS_CardinalityType

LEMMA CompletedCountNext == CountsFit'
  BY CompletedCount, PTL

\* At any moment the bills cover the completed pickups, and every earlier count of them.
LEMMA RevenueCovers ==
    ASSUME TablesType, TablesFit, PricesFit, NEW by,
           \A t \in WasteType : /\ by[t]["completed"] \in Nat
                                /\ by[t]["completed"] <= WasteSummary[t]["completed"]
    PROVE  Owed(by) <= Revenue["pending"] + Revenue["paid"]
  <1>1. PICK g : SumsOf(g, AmountOf, PaymentId)
    BY FiniteAssumption, AmountOfType, SumsExist
  <1>2. Due(Completed) <= g[BillsFor(Completed)]
    BY <1>1, BillsCoverDue
  <1>3. PICK Q, P : /\ Q = {q \in PaymentId : Has(payments, q) /\ payments[q].status = "pending"}
                    /\ P = {q \in PaymentId : Has(payments, q) /\ payments[q].status = "paid"}
    OBVIOUS
  <1>4. Revenue["pending"] = g[Q] /\ Revenue["paid"] = g[P]
    <2>1. \A U \in SUBSET PaymentId : (\A q \in U : Has(payments, q)) => Amounts(U) = g[U]
      BY <1>1, FiniteAssumption, AmountOfType, AmountsAreSums
    <2>2. Revenue["pending"] = Amounts(Q) /\ Revenue["paid"] = Amounts(P)
      BY <1>3 DEF Revenue, PaymentStatus
    <2>. QED BY <1>3, <2>1, <2>2
  <1>5. g[Q \cup P] = g[Q] + g[P]
    BY <1>1, <1>3, SumOfUnion, FiniteAssumption, AmountOfType
  <1>6. g[BillsFor(Completed)] <= g[Q \cup P]
    <2>1. /\ BillsFor(Completed) \in SUBSET (Q \cup P)
          /\ Q \cup P \in SUBSET PaymentId
      BY <1>3 DEF BillsFor, PricesFit
    <2>. QED BY <1>1, <2>1, SumOfSubset, FiniteAssumption, AmountOfType
  <1>7. \A t \in WasteType : /\ WasteSummary[t]["completed"] = Cardinality(OfType(Completed, t))
                             /\ WasteSummary[t]["completed"] \in Nat
    BY CompletedCount DEF CountsFit
  <1>8. Owed(by) \in Nat /\ Due(Completed) \in Nat /\ Owed(by) <= Due(Completed)
    <2>1. PICK n, m : \A t \in WasteType : /\ n[t] = by[t]["completed"]
                                           /\ m[t] = Cardinality(OfType(Completed, t))
      <3>. DEFINE n == [t \in WasteType |-> by[t]["completed"]]
                  m == [t \in WasteType |-> Cardinality(OfType(Completed, t))]
      <3>1. \A t \in WasteType : /\ n[t] = by[t]["completed"]
                                 /\ m[t] = Cardinality(OfType(Completed, t))
        OBVIOUS
      <3>. HIDE DEF n, m
      <3>. QED BY <3>1
    <2>2. Owed(by) = 50000 * (n["organic"] + n["plastic"] + n["paper"])
                      + 100000 * n["electronic"]
      BY <2>1, OwedIsSum DEF WasteType
    <2>3. Due(Completed) = 50000 * (m["organic"] + m["plastic"] + m["paper"])
                      + 100000 * m["electronic"]
      BY <2>1 DEF Due, WasteType
    <2>4. \A t \in WasteType : n[t] \in Nat /\ m[t] \in Nat /\ n[t] <= m[t]
      BY <1>7, <2>1
    <2>. QED BY <2>2, <2>3, <2>4 DEF WasteType
  <1>9. g[BillsFor(Completed)] \in Nat /\ g[Q] \in Nat /\ g[P] \in Nat
    <2>1. /\ BillsFor(Completed) \in SUBSET PaymentId
          /\ Q \in SUBSET PaymentId /\ P \in SUBSET PaymentId
      BY <1>3 DEF BillsFor
    <2>. QED BY <1>1, <2>1 DEF SumsOf
  <1>. QED BY <1>2, <1>4, <1>5, <1>6, <1>8, <1>9

LEMMA WritesKeepPrices ==
    ASSUME TablesType, TablesFit, PricesFit, ContractNext
    PROVE  PricesFit'
  <1>. USE NoRowAssumption DEF TablesType, TablesFit, PricesFit, Has
  <1>1. \A q \in PaymentId : payments[q] # NoRow =>
           /\ payments[q].waste \in PickupId
           /\ pickups[payments[q].waste] # NoRow
    BY DEF PaymentRecord
  <1>2. \A p \in PickupId : pickups[p] # NoRow => pickups[p] \in PickupRecord
    OBVIOUS
  <1>3. ASSUME UNCHANGED payments,
               \A p \in PickupId : pickups[p] # NoRow => pickups'[p].type = pickups[p].type
        PROVE  PricesFit'
    BY <1>1, <1>3
  <1>4. ASSUME NEW h \in HouseholdId, Leave(h) PROVE PricesFit'
    BY <1>1, <1>4 DEF Leave
  <1>5. ASSUME NEW p \in PickupId, NEW d \in PickupDate, Plan(p, d) PROVE PricesFit'
    BY <1>2, <1>3, <1>5 DEF Plan, PickupRecord
  <1>6. ASSUME NEW p \in PickupId, NEW h \in HouseholdId, NEW t \in Types, NEW s \in BOOLEAN,
               Ask(p, h, t, s)
        PROVE  PricesFit'
    BY <1>3, <1>6 DEF Ask
  <1>7. ASSUME NEW P \in SUBSET PickupId, Cancel(P) PROVE PricesFit'
    BY <1>2, <1>3, <1>7 DEF Cancel, PickupRecord
  <1>8. ASSUME NEW q \in PaymentId, NEW u \in ProofId, Pay(q, u) PROVE PricesFit'
    <2>1. PICK row : /\ row = [payments[q] EXCEPT !.status = "paid", !.proof = <<q, u>>]
                     /\ payments' = [payments EXCEPT ![q] = row]
                     /\ payments[q] \in PaymentRecord
                     /\ UNCHANGED pickups
      BY <1>8 DEF Pay
    <2>2. /\ row.waste = payments[q].waste /\ row.amount = payments[q].amount
          /\ row.status = "paid"
      BY <2>1 DEF PaymentRecord
    <2>3. payments[q] # NoRow
      BY <2>1
    <2>. QED BY <2>1, <2>2, <2>3
  <1>9. ASSUME NEW p \in PickupId, NEW q \in PaymentId, Bill(p, q),
               UNCHANGED pickups \/ pickups' = [pickups EXCEPT ![p].status = "completed"]
        PROVE  PricesFit'
    <2>1. PICK bill : /\ bill = [household |-> pickups[p].household, waste |-> p,
                                 amount |-> PaymentAmounts[pickups[p].type],
                                 status |-> "pending", proof |-> Null]
                      /\ payments' = [payments EXCEPT ![q] = bill]
                      /\ pickups[p] \in PickupRecord
      BY <1>9 DEF Bill
    <2>2. /\ bill.waste = p /\ bill.amount = PaymentAmounts[pickups[p].type]
          /\ bill.status = "pending"
      BY <2>1
    <2>3. \A x \in PickupId : pickups[x] # NoRow => pickups'[x].type = pickups[x].type
      BY <1>2, <1>9 DEF PickupRecord
    <2>4. \A x \in PaymentId : x # q => payments'[x] = payments[x]
      BY <2>1
    <2>5. payments'[q] = bill /\ pickups[p] # NoRow
      BY <2>1
    <2>. QED BY <1>1, <2>2, <2>3, <2>4, <2>5
  <1>10. ASSUME NEW h \in HouseholdId, Join(h) PROVE PricesFit'
    BY <1>3, <1>10 DEF Join
  <1>. QED BY <1>4, <1>5, <1>6, <1>7, <1>8, <1>9, <1>10 DEF ContractNext, Collect, BillOnly

\* As long as no household leaves, what is completed stays completed, and of its type.
LEMMA CompletedStays ==
    ASSUME TablesType, ContractNext, households \subseteq households'
    PROVE  \A p \in Completed : p \in Completed' /\ pickups'[p].type = pickups[p].type
  <1>. USE NoRowAssumption DEF TablesType, Completed, Has
  <1>. SUFFICES ASSUME NEW p \in Completed
                PROVE  p \in Completed' /\ pickups'[p].type = pickups[p].type
    OBVIOUS
  <1>1. p \in PickupId /\ pickups[p] \in PickupRecord /\ pickups[p].status = "completed"
    OBVIOUS
  <1>2. ASSUME pickups'[p] = pickups[p] PROVE p \in Completed' /\ pickups'[p].type = pickups[p].type
    BY <1>1, <1>2
  <1>3. ASSUME NEW h \in HouseholdId, Join(h) \/ Leave(h) PROVE pickups'[p] = pickups[p]
    BY <1>3 DEF Join, Leave
  <1>4. ASSUME NEW x \in PickupId, NEW h \in HouseholdId, NEW t \in Types, NEW s \in BOOLEAN,
               Ask(x, h, t, s)
        PROVE  pickups'[p] = pickups[p]
    BY <1>1, <1>4 DEF Ask
  <1>5. ASSUME NEW x \in PickupId, NEW d \in PickupDate, Plan(x, d)
        PROVE  pickups'[p] = pickups[p]
    BY <1>1, <1>5 DEF Plan
  <1>6. ASSUME NEW x \in PickupId, NEW q \in PaymentId, Collect(x, q) \/ BillOnly(x, q)
        PROVE  pickups'[p] = pickups[p]
    BY <1>1, <1>6 DEF Collect, BillOnly
  <1>7. ASSUME NEW P \in SUBSET PickupId, Cancel(P) PROVE pickups'[p] = pickups[p]
    BY <1>1, <1>7 DEF Cancel, Cancellable
  <1>8. ASSUME NEW q \in PaymentId, NEW u \in ProofId, Pay(q, u) PROVE pickups'[p] = pickups[p]
    BY <1>8 DEF Pay
  <1>. QED BY <1>2, <1>3, <1>4, <1>5, <1>6, <1>7, <1>8 DEF ContractNext

(***************************************************************************)
(* The two summaries                                                       *)
(***************************************************************************)
\* The counts of the first summary are not above what is completed now, unless a
\* household has left.
SummaryInv ==
    /\ PricesFit
    /\ reader.at \in {"waste", "payments", "summed"} =>
          during \in [at : {"summary"}, left : BOOLEAN]
    /\ reader.at = "payments" =>
          /\ reader = [at |-> "payments", byType |-> reader.byType]
          /\ ~during.left => \A t \in WasteType :
                /\ reader.byType[t]["completed"] \in Nat
                /\ reader.byType[t]["completed"] <= WasteSummary[t]["completed"]
    /\ SummariesAgree

LEMMA SummaryWriteStep ==
    ASSUME ReadersInv, SummaryInv, Write
    PROVE  SummaryInv'
  <1>. USE DEF ReadersInv, SummaryInv
  <1>1. PricesFit' /\ reader' = reader
    BY WritesKeepPrices DEF Write
  <1>2. CASE reader.at \in {"waste", "payments", "summed"}
    <2>1. /\ during' = [during EXCEPT !.left = @ \/ ~(households \subseteq households')]
          /\ during \in [at : {"summary"}, left : BOOLEAN]
      BY <1>2 DEF Write
    <2>2. /\ during' \in [at : {"summary"}, left : BOOLEAN]
          /\ ~during'.left => ~during.left /\ households \subseteq households'
      BY <2>1
    <2>3. ASSUME reader.at = "payments", ~during'.left, NEW t \in WasteType
          PROVE  WasteSummary[t]["completed"] <= WasteSummary'[t]["completed"]
      <3>1. OfType(Completed, t) \subseteq OfType(Completed, t)'
        BY <2>2, <2>3, CompletedStays DEF OfType, Write
      <3>2. PICK A, B : A = OfType(Completed, t) /\ B = OfType(Completed, t)'
        OBVIOUS
      <3>3. WasteSummary[t]["completed"] = Cardinality(A)
        BY <3>2, CompletedCount DEF CountsFit
      <3>4. IsFiniteSet(B) /\ WasteSummary'[t]["completed"] = Cardinality(B)
        BY <3>2, CompletedCountNext DEF CountsFit
      <3>5. A \in SUBSET B
        BY <3>1, <3>2
      <3>6. Cardinality(A) <= Cardinality(B)
        BY <3>4, <3>5, FS_Subset
      <3>. QED BY <3>3, <3>4, <3>6
    <2>4. ASSUME reader.at = "payments", ~during'.left, NEW t \in WasteType
          PROVE  /\ reader.byType[t]["completed"] \in Nat
                 /\ reader.byType[t]["completed"] <= WasteSummary'[t]["completed"]
      <3>1. PICK n, k, m : /\ n = reader.byType[t]["completed"]
                           /\ k = WasteSummary[t]["completed"]
                           /\ m = WasteSummary'[t]["completed"]
        OBVIOUS
      <3>2. k \in Nat /\ m \in Nat
        BY <3>1, CompletedCount, CompletedCountNext DEF CountsFit
      <3>3. n \in Nat /\ n <= k
        BY <2>2, <2>4, <3>1
      <3>4. k <= m
        BY <2>3, <2>4, <3>1
      <3>. QED BY <3>1, <3>2, <3>3, <3>4
    <2>. QED BY <1>1, <2>2, <2>4 DEF SummariesAgree
  <1>3. CASE reader.at \notin {"waste", "payments", "summed"}
    BY <1>1, <1>3 DEF SummariesAgree
  <1>. QED BY <1>2, <1>3

LEMMA SummaryReadStep ==
    ASSUME ReadersInv, SummaryInv, StartSummaries \/ ReadWasteSummary \/ ReadPaymentSummary
    PROVE  SummaryInv'
  <1>. USE DEF ReadersInv, SummaryInv
  <1>1. UNCHANGED <<households, pickups, payments>>
    BY DEF StartSummaries, ReadWasteSummary, ReadPaymentSummary, contractVars
  <1>2. PricesFit'
    BY <1>1 DEF PricesFit, Has
  <1>3. CASE StartSummaries
    BY <1>2, <1>3 DEF StartSummaries, SummariesAgree
  <1>4. CASE ReadWasteSummary
    <2>1. PICK w : w = WasteSummary /\ reader' = [at |-> "payments", byType |-> w]
                   /\ during' = during /\ reader.at = "waste"
      BY <1>4 DEF ReadWasteSummary
    <2>2. WasteSummary' = w
      BY <1>1, <2>1 DEF WasteSummary, Has
    <2>3. \A t \in WasteType : w[t]["completed"] \in Nat /\ w[t]["completed"] <= w[t]["completed"]
      BY <2>1, CompletedCount DEF CountsFit
    <2>. QED BY <1>2, <2>1, <2>2, <2>3 DEF SummariesAgree
  <1>5. CASE ReadPaymentSummary
    <2>1. PICK by, rev : /\ by = reader.byType /\ rev = Revenue
                         /\ reader' = [at |-> "summed", byType |-> by, revenue |-> rev]
                         /\ during' = during /\ reader.at = "payments"
      BY <1>5 DEF ReadPaymentSummary
    <2>2. ~during.left => Owed(by) <= rev["pending"] + rev["paid"]
      BY <2>1, RevenueCovers
    <2>3. SummariesAgree'
      <3>1. reader'.byType = by /\ reader'.revenue = rev
        BY <2>1
      <3>. QED BY <2>1, <2>2, <3>1 DEF SummariesAgree
    <2>. QED BY <1>2, <2>1, <2>3
  <1>. QED BY <1>3, <1>4, <1>5

LEMMA SummaryOtherStep ==
    ASSUME ReadersInv, SummaryInv,
           \/ \E list \in List, n \in PerPage : StartWalk(list, n)
           \/ Count \/ Select
           \/ \E h \in HouseholdId : StartHistory(h)
           \/ ReadHousehold \/ ReadPickups \/ ReadPayments \/ Stop
           \/ UNCHANGED readerVars
    PROVE  SummaryInv'
  <1>. USE DEF ReadersInv, SummaryInv
  <1>1. UNCHANGED <<households, pickups, payments>>
    BY DEF StartWalk, Count, Select, StartHistory, ReadHousehold, ReadPickups, ReadPayments,
           Read, Stop, contractVars, readerVars
  <1>2. PricesFit'
    BY <1>1 DEF PricesFit, Has
  <1>3. CASE reader'.at \notin {"waste", "payments", "summed"}
    BY <1>2, <1>3 DEF SummariesAgree
  <1>4. CASE reader'.at \in {"waste", "payments", "summed"}
    <2>1. UNCHANGED <<reader, during>>
      <3>1. CASE \/ \E list \in List, n \in PerPage : StartWalk(list, n)
                 \/ \E h \in HouseholdId : StartHistory(h)
                 \/ Stop
        BY <1>4, <3>1 DEF StartWalk, StartHistory, Stop, Idle
      <3>2. CASE Count
        BY <1>4, <3>2, OtherStep DEF Count, ReaderType
      <3>3. CASE Select
        BY <1>4, <3>3, OtherStep DEF Select, ReaderType
      <3>4. CASE ReadHousehold \/ ReadPickups \/ ReadPayments
        BY <1>4, <3>4 DEF ReadHousehold, ReadPickups, ReadPayments, Read, ReaderType, HistoryReader
      <3>. QED BY <3>1, <3>2, <3>3, <3>4 DEF readerVars
    <2>2. WasteSummary' = WasteSummary
      BY <1>1 DEF WasteSummary, Has
    <2>. QED BY <1>2, <2>1, <2>2 DEF SummariesAgree
  <1>. QED BY <1>3, <1>4

\* The two reports are two statements, and payments are made and confirmed meanwhile:
\* still no completed pickup of the first lacks its price in the second.
THEOREM SummariesFit == ReadersSpec => []SummariesAgree
  <1>1. ReadersInit => SummaryInv
    BY DEF ReadersInit, ContractInit, Idle, SummaryInv, PricesFit, Has, SummariesAgree
  <1>2. ReadersInv /\ SummaryInv /\ [ReadersNext]_readerVars => SummaryInv'
    BY SummaryWriteStep, SummaryReadStep, SummaryOtherStep DEF ReadersNext
  <1>3. SummaryInv => SummariesAgree
    BY DEF SummaryInv
  <1>. QED BY <1>1, <1>2, <1>3, ReadersInvAlways, PTL DEF ReadersSpec

=============================================================================
