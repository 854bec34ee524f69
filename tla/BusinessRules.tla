---------------------------- MODULE BusinessRules ----------------------------
(***************************************************************************)
(* What the tables must satisfy whenever a statement has committed, and    *)
(* the contract they follow: stated once, for WasteCollection, which looks *)
(* at requests, and for Transactions, which looks inside transactions.     *)
(***************************************************************************)
EXTENDS HouseholdService

\* Foreign keys: no pickup and no payment outlives its household, no payment its
\* pickup, though households are deleted between a request's statements.
ReferentialIntegrity ==
    /\ \A p \in PickupId : PickupExists(p) => pickups[p].household \in households
    /\ \A q \in PaymentId : PaymentExists(q) =>
          payments[q].household \in households /\ PickupExists(payments[q].waste)

\* A payment is made out to the household of its pickup, at the price of its
\* pickup's type, although both services compute it from a row they read earlier.
PaymentMatchesPickup ==
    \A q \in PaymentId :
        LET w == pickups[payments[q].waste] IN
        PaymentExists(q) /\ w # NoRow =>
            /\ payments[q].household = w.household
            /\ payments[q].amount = PaymentAmounts[w.type]

\* Billing: one payment per pickup, one open payment per household, whichever
\* mix of completions and POST /api/payments produced them.
BilledOnce ==
    \A q1, q2 \in PaymentId :
        q1 # q2 /\ PaymentExists(q1) /\ PaymentExists(q2) =>
            /\ payments[q1].waste # payments[q2].waste
            /\ payments[q1].household = payments[q2].household =>
                  "paid" \in {payments[q1].status, payments[q2].status}

\* BR-05: no failure and no crash leaves a completed pickup without its payment.
CompletedHasPayment ==
    \A p \in PickupId : PickupIn(p, {"completed"}) =>
        \E q \in PaymentId : PaymentExists(q) /\ payments[q].waste = p

\* BR-03: no electronic pickup is scheduled or collected without its safety check.
ElectronicIsSafe ==
    \A p \in PickupId : PickupIn(p, {"scheduled", "completed"}) =>
        SafeToCollect(pickups[p].type, pickups[p].safety)

(***************************************************************************)
(* The abstract specification                                              *)
(***************************************************************************)
\* The contract's state is what is committed: the rows of the three tables.  The keys
\* issued, the requests, the locks and the objects of the store are the detail.
Contract == INSTANCE CollectionContract
            WITH households <- households, pickups <- pickups, payments <- payments

\* Each step changes the tables as one operation of the contract does, or not at all.
ImplementsContract == Contract!ContractSpec

=============================================================================
