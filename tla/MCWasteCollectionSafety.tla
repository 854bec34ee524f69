----------------------- MODULE MCWasteCollectionSafety -----------------------
(***************************************************************************)
(* The inductive invariant of the proofs, on an instance for TLC.          *)
(***************************************************************************)
EXTENDS MCWasteCollection, WasteCollectionSafety

=============================================================================
