------------------------------ MODULE MCKvInt4 ------------------------------
(* KvInt4 for TLC. *)
EXTENDS KvInt4, TLC

Symmetry == Permutations(Slots) \union Permutations(Blocks) \union Permutations(Values)
=============================================================================
