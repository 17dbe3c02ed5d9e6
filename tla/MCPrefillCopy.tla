---------------------------- MODULE MCPrefillCopy ----------------------------
(* PrefillCopy for TLC: prompts of up to six positions, that share their    *)
(* first block, in batches of up to four, one of them over the budget.      *)
EXTENDS PrefillCopy, TLC

KnobSymmetry == Permutations(Knobs)

Lens == {1, 4, 6}
Columns == 4  \* of the block table; entries past a sequence are the null block

Table(s, len) ==
  [i \in 1 .. Columns |->
     IF (i - 1) * BLOCK_SIZE >= len THEN 0 ELSE IF i = 1 THEN 1 ELSE 3 * s + i]

(* Ring tags that match: all of the newest, the last one, none.             *)
Hits(which, len) ==
  CASE which = "all" -> (len - TAIL) .. (len - 1)
    [] which = "last" -> {len - 1}
    [] which = "none" -> {}

MCBatches ==
  UNION {{[tables |-> [s \in 1 .. n |-> Table(s, lens[s])], lens |-> lens, q |-> q,
           hits |-> [s \in 1 .. n |-> Hits(which, lens[s])]] :
            lens \in [1 .. n -> IF n < 4 THEN Lens ELSE {6}], q \in {1, 2}, which \in {"all", "last", "none"}} :
           n \in 1 .. 4}
=============================================================================
