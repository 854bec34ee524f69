------------------------------- MODULE Readers -------------------------------
(***************************************************************************)
(* The reading half of the API: the paged lists of households, pickups and *)
(* payments, the two summary reports and a household's history.  Each of   *)
(* them reads in several statements, on connections of their own and       *)
(* without a transaction, while writers change the tables as               *)
(* CollectionContract says, which WasteCollection and Transactions are     *)
(* shown to implement.                                                     *)
(*                                                                         *)
(* The reader is one client: it walks through a list page by page, asks    *)
(* for a history, or for one summary after the other.                      *)
(***************************************************************************)
EXTENDS CollectionContract, FiniteSetsExt

CONSTANTS
    FilterHousehold,    \* household_id of the filters clients ask with, or NoFilter
    FilterStatus,       \* ... and status
    PerPage,            \* ... and their per_page
    NoFilter

ASSUME ReadersAssumption == PerPage \subseteq Nat \ {0}

\* Keys are UUIDs: there are finitely many.
ASSUME FiniteAssumption ==
    IsFiniteSet(HouseholdId) /\ IsFiniteSet(PickupId) /\ IsFiniteSet(PaymentId)

PickupRecord == [household : HouseholdId, type : WasteType, status : PickupStatus,
                 safety : BOOLEAN, date : PickupDate \cup {Null}]

PaymentRecord == [household : HouseholdId, waste : PickupId, amount : Nat,
                  status : PaymentStatus, proof : (PaymentId \X ProofId) \cup {Null}]

ASSUME NoRowAssumption == NoRow \notin PickupRecord \cup PaymentRecord
ASSUME TypesAssumption == Types \subseteq WasteType

\* A key tells of which table its row is.
ASSUME KeysAssumption ==
    HouseholdId \cap PickupId = {} /\ HouseholdId \cap PaymentId = {}
    /\ PickupId \cap PaymentId = {}

VARIABLES
    created,        \* rank by created_at of every row there ever was; 0 for none
    reader,         \* what the client is doing, and has been told so far
    during          \* what writers did in the meantime

readerVars == <<households, pickups, payments, created, reader, during>>

Row == HouseholdId \cup PickupId \cup PaymentId

\* created_at counts microseconds: no two rows of a table share it.
Ranks(x) ==
    LET K == CHOOSE K \in {HouseholdId, PickupId, PaymentId} : x \in K
    IN (1 .. Cardinality(K)) \ {created[y] : y \in K}

RowsOf(h, p, q) ==
    h \cup {x \in PickupId : Has(p, x)} \cup {x \in PaymentId : Has(q, x)}

\* The list endpoints, with the filters their queries build.
List == [table : {"households"}] \cup
        [table : {"pickups"}, household : FilterHousehold,
         status : FilterStatus \cap (PickupStatus \cup {NoFilter})] \cup
        [table : {"payments"}, household : FilterHousehold,
         status : FilterStatus \cap (PaymentStatus \cup {NoFilter})]

Where(table, list, x) ==
    /\ Has(table, x)
    /\ list.household \in {NoFilter, table[x].household}
    /\ list.status \in {NoFilter, table[x].status}

ResultIn(list, h, p, q) ==
    CASE list.table = "households" -> h
      [] list.table = "pickups"    -> {x \in PickupId : Where(p, list, x)}
      [] list.table = "payments"   -> {x \in PaymentId : Where(q, list, x)}

Result(list) == ResultIn(list, households, pickups, payments)

Idle == [at |-> "idle"]

ReadersInit ==
    /\ ContractInit
    /\ created = [x \in Row |-> 0]
    /\ reader = Idle
    /\ during = Idle

(***************************************************************************)
(* Writers                                                                 *)
(***************************************************************************)
\* What a walk is told apart by: the rows that stayed in the result from its first
\* statement on, how many left it, how many came in since, and since the last COUNT.
WalkDuring(before, after) ==
    [during EXCEPT !.stayed = @ \cap after,
                   !.left = @ + Cardinality(before \ after),
                   !.joined = @ + Cardinality(after \ before),
                   !.joinedSinceCount = @ + Cardinality(after \ before)]

\* Whether the household of a history left in the meantime, and whether it was there,
\* and not there, at some moment.
HistoryDuring(was, is) ==
    [during EXCEPT !.left = @ \/ (was /\ ~is),
                   !.present = @ \/ is,
                   !.absent = @ \/ ~is]

\* No key is used again.  created_at is when a row's INSERT began: it may lie before
\* that of rows that were there earlier.
Write ==
    /\ ContractNext
    /\ LET new == RowsOf(households', pickups', payments')
                  \ RowsOf(households, pickups, payments)
       IN \/ new = {} /\ UNCHANGED created
          \/ \E x \in new : \E t \in Ranks(x) :
                /\ created[x] = 0
                /\ created' = [created EXCEPT ![x] = t]
    /\ during' =
          CASE during.at = "walk" ->
                 WalkDuring(Result(reader.list),
                            ResultIn(reader.list, households', pickups', payments'))
            [] during.at = "history" ->
                 HistoryDuring(reader.household \in households,
                               reader.household \in households')
            [] during.at = "summary" ->
                 [during EXCEPT !.left = @ \/ ~(households \subseteq households')]
            [] OTHER -> during
    /\ UNCHANGED reader

(***************************************************************************)
(* A walk through a list: GET ...?page=1, 2, ... up to meta.total_pages    *)
(***************************************************************************)
StartWalk(list, perPage) ==
    /\ reader = Idle
    /\ reader' = [at |-> "count", list |-> list, perPage |-> perPage, page |-> 1,
                  total |-> 0, got |-> {}, repeated |-> 0]
    /\ during' = [at |-> "walk", stayed |-> Result(list), left |-> 0, joined |-> 0,
                  joinedSinceCount |-> 0]
    /\ UNCHANGED <<contractVars, created>>

\* SELECT COUNT(*), with the filters of the page.
Count ==
    /\ reader.at = "count"
    /\ reader' = [reader EXCEPT !.at = "select", !.total = Cardinality(Result(reader.list))]
    /\ during' = [during EXCEPT !.joinedSinceCount = 0]
    /\ UNCHANGED <<contractVars, created>>

\* The OFFSET of a row in ORDER BY created_at DESC.
Before(x, S) == Cardinality({y \in S : created[y] > created[x]})

OnPageOneOff(S, page, perPage) ==                   \* mutant: OFFSET page * per_page
    {x \in S : Before(x, S) \in page * perPage .. (page + 1) * perPage - 1}

\* LIMIT perPage OFFSET (page - 1) * perPage.
OnPage(S, page, perPage) ==
    {x \in S : Before(x, S) \in (page - 1) * perPage .. page * perPage - 1}

FullPages(total, perPage) == total \div perPage     \* mutant: the last page is cut off

\* respondList.
TotalPages(total, perPage) ==
    IF total = 0 THEN 1 ELSE (total + perPage - 1) \div perPage

\* SELECT of the page; the reply has the total of the statement before.
Select ==
    /\ reader.at = "select"
    /\ LET rows == OnPage(Result(reader.list), reader.page, reader.perPage)
           told == [reader EXCEPT !.got = @ \cup rows,
                                  !.repeated = @ + Cardinality(rows \cap reader.got)]
       IN reader' = IF reader.page < TotalPages(reader.total, reader.perPage)
                    THEN [told EXCEPT !.at = "count", !.page = @ + 1]
                    ELSE [told EXCEPT !.at = "walked"]
    /\ UNCHANGED <<contractVars, created, during>>

(***************************************************************************)
(* GET /api/reports/households/:id/history: three SELECTs at once          *)
(***************************************************************************)
PickupsOfHousehold(h) == {p \in PickupId : Has(pickups, p) /\ pickups[p].household = h}

CompletedOf(h) == {p \in PickupsOfHousehold(h) : pickups[p].status = "completed"}

\* during: the pickups, and the completed ones, that were there before.
StartHistory(h) ==
    /\ reader = Idle
    /\ reader' = [at |-> "history", household |-> h,
                  todo |-> {"household", "pickups", "payments"},
                  found |-> FALSE, pickups |-> {}, completed |-> {}, billed |-> {}]
    /\ during' = [at |-> "history", asked |-> PickupsOfHousehold(h),
                  collected |-> CompletedOf(h), left |-> FALSE,
                  present |-> h \in households, absent |-> h \notin households]
    /\ UNCHANGED <<contractVars, created>>

Read(part, new) ==
    /\ reader.at = "history"
    /\ part \in reader.todo
    /\ reader' = [new EXCEPT
                    !.todo = @ \ {part},
                    !.at = IF reader.todo = {part} THEN "told" ELSE "history"]
    /\ UNCHANGED <<contractVars, created, during>>

ReadHousehold ==
    Read("household", [reader EXCEPT !.found = reader.household \in households])

ReadPickups ==
    Read("pickups", [reader EXCEPT !.pickups = PickupsOfHousehold(reader.household),
                                   !.completed = CompletedOf(reader.household)])

PaidPaymentsOfHousehold(h) ==                       \* mutant: the open bill is missing
    {q \in PaymentId : /\ Has(payments, q)
                       /\ payments[q].household = h
                       /\ payments[q].status = "paid"}

PaymentsOfHousehold(h) ==
    {q \in PaymentId : Has(payments, q) /\ payments[q].household = h}

ReadPayments ==
    Read("payments", [reader EXCEPT
        !.billed = {payments[q].waste : q \in PaymentsOfHousehold(reader.household)}])

\* What the client is told: 404, or the three lists.
NotFound == ~reader.found

(***************************************************************************)
(* GET /api/reports/waste-summary, then GET /api/reports/payment-summary   *)
(***************************************************************************)
StartSummaries ==
    /\ reader = Idle
    /\ reader' = [at |-> "waste"]
    /\ during' = [at |-> "summary", left |-> FALSE]
    /\ UNCHANGED <<contractVars, created>>

\* GROUP BY type, status; a group that is not there counts none.
WasteSummary ==
    [t \in WasteType |-> [s \in PickupStatus |->
        Cardinality({p \in PickupId : /\ Has(pickups, p)
                                      /\ pickups[p].type = t
                                      /\ pickups[p].status = s})]]

ReadWasteSummary ==
    /\ reader.at = "waste"
    /\ reader' = [at |-> "payments", byType |-> WasteSummary]
    /\ UNCHANGED <<contractVars, created, during>>

Amounts(Q) == MapThenSumSet(LAMBDA q : payments[q].amount, Q)

RevenueOfPaidOnly ==                                \* mutant: WHERE status = 'paid'
    [s \in PaymentStatus |->
        IF s # "paid" THEN 0
        ELSE Amounts({q \in PaymentId : Has(payments, q) /\ payments[q].status = s})]

\* GROUP BY status: the sum of the amounts.  total_revenue is that of "paid".
Revenue ==
    [s \in PaymentStatus |->
        Amounts({q \in PaymentId : Has(payments, q) /\ payments[q].status = s})]

ReadPaymentSummary ==
    /\ reader.at = "payments"
    /\ reader' = [at |-> "summed", byType |-> reader.byType, revenue |-> Revenue]
    /\ UNCHANGED <<contractVars, created, during>>

\* The client is through, or a statement failed: 500.
Stop ==
    /\ reader # Idle
    /\ reader' = Idle
    /\ during' = Idle
    /\ UNCHANGED <<contractVars, created>>

ReadersNext ==
    \/ Write
    \/ \E list \in List, n \in PerPage : StartWalk(list, n)
    \/ Count \/ Select
    \/ \E h \in HouseholdId : StartHistory(h)
    \/ ReadHousehold \/ ReadPickups \/ ReadPayments
    \/ StartSummaries \/ ReadWasteSummary \/ ReadPaymentSummary
    \/ Stop

ReadersSpec == ReadersInit /\ [][ReadersNext]_readerVars

(***************************************************************************)
(* Properties                                                              *)
(***************************************************************************)
\* A walk to the last page tells of every row that was in the list all the time,
\* except that each row that leaves may hide one, and so may each that comes in
\* between the last page's COUNT and its SELECT; and it repeats no more rows than
\* came in.
WalkIsComplete ==
    reader.at = "walked" =>
        /\ Cardinality(during.stayed \ reader.got) <= during.left + during.joinedSinceCount
        /\ reader.repeated <= during.joined

\* What does not fit together in a history was done while it was read: a payment
\* without its pickup is for a pickup that was not there before, a completed pickup
\* without its payment was not completed before, and neither has been undone.  Only a
\* household that left takes more away.  It is reported as found, or as not found, only
\* if it was so at some moment of the request.
HistoryIsConsistent ==
    reader.at = "told" =>
        /\ ~during.left =>
              /\ reader.billed \ reader.pickups
                    \subseteq PickupsOfHousehold(reader.household) \ during.asked
              /\ reader.completed \ reader.billed
                    \subseteq CompletedOf(reader.household) \ during.collected
        /\ IF NotFound THEN during.absent ELSE during.present

\* What the completed pickups of a waste summary cost.
Owed(byType) ==
    MapThenSumSet(LAMBDA t : byType[t]["completed"] * PaymentAmounts[t], WasteType)

\* Whoever reads the two summaries one after the other finds every completed pickup
\* billed at its price, unless a household left in between.
SummariesAgree ==
    reader.at = "summed" /\ ~during.left =>
        Owed(reader.byType) <= reader.revenue["pending"] + reader.revenue["paid"]

=============================================================================
