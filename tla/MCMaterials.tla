---------------------------- MODULE MCMaterials -----------------------------
(***************************************************************************)
(* Instances of Materials for TLC.                                         *)
(***************************************************************************)
EXTENDS Materials, TLC

Symmetry == Permutations(Files) \cup Permutations(Sessions) \cup Permutations(Readers)
=============================================================================
