--------------------------- MODULE MCTransactions ---------------------------
(***************************************************************************)
(* A small instance of Transactions for TLC.                               *)
(***************************************************************************)
EXTENDS Transactions, TLC

TxSymmetry == Permutations(PickupId) \cup Permutations(PaymentId)
              \cup Permutations(Session) \cup Permutations(HouseholdId)

=============================================================================
