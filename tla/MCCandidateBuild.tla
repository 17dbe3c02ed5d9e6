-------------------------- MODULE MCCandidateBuild --------------------------
(* CandidateBuild for TLC. *)
EXTENDS CandidateBuild, TLC

Symmetry ==
  Permutations(Preparers) \cup Permutations(Headers) \cup Permutations(Objects)
=============================================================================
