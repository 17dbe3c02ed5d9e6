------------------------- MODULE MCFrozenArtifacts -------------------------
(* FrozenArtifacts for TLC. *)
EXTENDS FrozenArtifacts, TLC

Symmetry == Permutations(Captures) \cup Permutations(Versions) \cup Permutations(Complete)
=============================================================================
