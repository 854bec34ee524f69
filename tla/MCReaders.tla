------------------------------ MODULE MCReaders ------------------------------
(***************************************************************************)
(* A small instance of Readers for TLC.                                    *)
(***************************************************************************)
EXTENDS Readers, TLC

ReadersSymmetry == Permutations(PickupId) \cup Permutations(PaymentId)
                   \cup Permutations(HouseholdId) \cup Permutations(ProofId)

=============================================================================
