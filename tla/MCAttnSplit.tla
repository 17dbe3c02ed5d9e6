---------------------------- MODULE MCAttnSplit ----------------------------
(* AttnSplit for TLC. *)
EXTENDS AttnSplit, TLC
=============================================================================
