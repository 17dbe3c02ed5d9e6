---------------------------- MODULE MCHadCounters ----------------------------
(* HadCounters for TLC: three tiles to a group, two widths of matrices.     *)
EXTENDS HadCounters, TLC

TileSymmetry == Permutations(Tiles)
=============================================================================
