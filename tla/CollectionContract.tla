-------------------------- MODULE CollectionContract --------------------------
(***************************************************************************)
(* What the system promises about its tables, with every business          *)
(* operation a single step: the lifecycle of a pickup (BR-02), the safety  *)
(* check (BR-03), payment created together with completion (BR-05), proof  *)
(* with confirmation (BR-06), cascading removal.  WasteCollection, where   *)
(* an operation is several statements interleaved with others, implements  *)
(* it.  BR-01 and the "pending" of BR-04 are absent: the code does not     *)
(* keep them between its statements (see the README).                      *)
(***************************************************************************)
EXTENDS WasteDomain

CONSTANTS HouseholdId, PickupId, PaymentId, ProofId, Types, PickupDate, NoRow, Null

VARIABLES households, pickups, payments

contractVars == <<households, pickups, payments>>

ContractInit ==
    /\ households = {}
    /\ pickups = [p \in PickupId |-> NoRow]
    /\ payments = [q \in PaymentId |-> NoRow]

Has(table, k) == table[k] # NoRow

Join(h) ==
    /\ h \notin households
    /\ households' = households \cup {h}
    /\ UNCHANGED <<pickups, payments>>

\* A household leaves, and takes all its pickups and payments along.
Leave(h) ==
    /\ h \in households
    /\ households' = households \ {h}
    /\ pickups' = [p \in PickupId |->
          IF Has(pickups, p) /\ pickups[p].household = h THEN NoRow ELSE pickups[p]]
    /\ payments' = [q \in PaymentId |->
          IF Has(payments, q) /\ payments[q].household = h THEN NoRow ELSE payments[q]]

Ask(p, h, type, safety) ==
    /\ ~Has(pickups, p)
    /\ h \in households
    /\ pickups' = [pickups EXCEPT ![p] =
                     [household |-> h, type |-> type, status |-> "pending",
                      safety |-> safety, date |-> Null]]
    /\ UNCHANGED <<households, payments>>

Plan(p, d) ==
    /\ Has(pickups, p)
    /\ pickups[p].status = "pending"
    /\ SafeToCollect(pickups[p].type, pickups[p].safety)
    /\ pickups' = [pickups EXCEPT ![p].status = "scheduled", ![p].date = d]
    /\ UNCHANGED <<households, payments>>

\* The bill for p: its own household, the price of its own type; there is no
\* other bill for p and no other open bill of the household.
Bill(p, q) ==
    /\ Has(pickups, p) /\ ~Has(payments, q)
    /\ \A b \in PaymentId : Has(payments, b) =>
          /\ payments[b].waste # p
          /\ payments[b].household = pickups[p].household => payments[b].status = "paid"
    /\ payments' = [payments EXCEPT ![q] =
                      [household |-> pickups[p].household, waste |-> p,
                       amount |-> PaymentAmounts[pickups[p].type],
                       status |-> "pending", proof |-> Null]]
    /\ UNCHANGED households

Collect(p, q) ==
    /\ Bill(p, q)
    /\ pickups[p].status = "scheduled"
    /\ pickups' = [pickups EXCEPT ![p].status = "completed"]

BillOnly(p, q) == Bill(p, q) /\ UNCHANGED pickups

\* One pickup by request, or several by the canceler.
Cancel(P) ==
    /\ \A p \in P : Has(pickups, p) /\ pickups[p].status \in Cancellable
    /\ pickups' = [p \in PickupId |->
          IF p \in P THEN [pickups[p] EXCEPT !.status = "canceled"] ELSE pickups[p]]
    /\ UNCHANGED <<households, payments>>

Pay(q, u) ==
    /\ Has(payments, q)
    /\ payments[q].status = "pending"
    /\ payments' = [payments EXCEPT ![q].status = "paid", ![q].proof = <<q, u>>]
    /\ UNCHANGED <<households, pickups>>

ContractNext ==
    \/ \E h \in HouseholdId : Join(h) \/ Leave(h)
    \/ \E p \in PickupId, h \in HouseholdId, t \in Types, s \in BOOLEAN :
          Ask(p, h, t, s)
    \/ \E p \in PickupId, d \in PickupDate : Plan(p, d)
    \/ \E p \in PickupId, q \in PaymentId : Collect(p, q) \/ BillOnly(p, q)
    \/ \E P \in SUBSET PickupId : Cancel(P)
    \/ \E q \in PaymentId, u \in ProofId : Pay(q, u)

ContractSpec == ContractInit /\ [][ContractNext]_contractVars

=============================================================================
