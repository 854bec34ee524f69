-------------------------- MODULE MCWasteCollection --------------------------
(***************************************************************************)
(* Small instances of WasteCollection for TLC.  Rows, slots and dates are  *)
(* interchangeable model values, so permuting them is a symmetry.          *)
(***************************************************************************)
EXTENDS WasteCollection, TLC

Symmetry ==
    Permutations(HouseholdId) \cup Permutations(PickupId) \cup Permutations(PaymentId)
    \cup Permutations(ProofId) \cup Permutations(PickupDate) \cup Permutations(Request)

=============================================================================
