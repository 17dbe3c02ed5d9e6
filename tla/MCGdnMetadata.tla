--------------------------- MODULE MCGdnMetadata ---------------------------
(* GdnMetadata for TLC. *)
EXTENDS GdnMetadata, TLC

(* Buffers of four tokens under two rows, and of one under three. *)
SmallSizes == {[bs |-> 4, rows |-> 2], [bs |-> 1, rows |-> 3]}

Symmetry == Permutations(Requests)
=============================================================================
