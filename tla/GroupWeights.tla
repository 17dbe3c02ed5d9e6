---------------------------- MODULE GroupWeights ----------------------------
(***************************************************************************)
(* Exl3LinearMethod and _visual_qkv_stream of exl3rocm/plugin.py: how one   *)
(* vLLM linear module, fused from several checkpoint members, gets its      *)
(* tensors.  create_weights maps the module's output partitions onto the    *)
(* members ("groups"), the loader routes each checkpoint tensor by its      *)
(* shard id, in whatever order the stream has them, and                     *)
(* process_weights_after_loading splits the lm_head for the drafter,        *)
(* reserves the shared reconstruction buffer and takes the device pointers  *)
(* of the grouped GEMV.                                                     *)
(*                                                                          *)
(* Widths and columns count Hadamard blocks of 128 output columns, from 0.  *)
(* A tensor is [of, lo, hi]: columns lo .. hi - 1 of the tensor of          *)
(* checkpoint member `of' (0: torch.empty).  Tensors live in `heap' at      *)
(* addresses <<kind, group, generation>>, so that a pointer taken before a  *)
(* buffer is replaced dangles.  An assertion of the code that fails ends    *)
(* the load: phase "failed".                                                *)
(***************************************************************************)
EXTENDS Integers, Sequences, FiniteSets, SequencesExt, FiniteSetsExt

CONSTANTS
  Setups,      \* [module, codebook, drafting, bf16, mgemm, draftBlocks]: the checkpoint
               \* and the name of its codebook scalar, and the settings
  TailBlocks,  \* blocks of special tokens at the end of the head (16)
  SliceN,      \* RECON_SLICE_N, in blocks
  Reserved     \* sizes of the reconstruction buffer that other modules left

ASSUME WeightsAssumption ==
  TailBlocks \in Nat /\ SliceN \in Nat \ {0} /\ Reserved \subseteq Nat

VARIABLES
  setup,      \* the member of Setups being loaded
  phase,      \* "new", "loading", "ready" or "failed"
  stray,      \* a tensor arrived that the module has no parameter for
  stream,     \* checkpoint tensors still to come: <<kind, member>>
  loaded,     \* exl3_loaded, and the tensors vLLM's own loaders took
  codebook,   \* exl3_mul1 / exl3_mcg, 0 for None
  partToGroup,  \* exl3_part_to_group
  layer,      \* exl3_K, exl3_n and the addresses of the buffers, per group
  heap,       \* address -> tensor
  draft,      \* exl3_draft_groups and exl3_draft_cols
  ptrs,       \* exl3_mgemm_ptrs: the addresses each table holds, <<>> for None
  wbuf        \* the shared reconstruction buffer: [gen, size]

wvars == <<setup, phase, stray, stream, loaded, codebook, partToGroup, layer,
           heap, draft, ptrs, wbuf>>

module == setup.module
Members == DOMAIN module.members
Quantized == {i \in Members : module.members[i].exl3}
Vision == module.kind = "vision"

Smaller(a, b) == IF a <= b THEN a ELSE b
-----------------------------------------------------------------------------
(* The checkpoint and the stream of its tensors.                            *)

Checkpoint ==
  ({"trellis", "suh", "svh", "code"} \X Quantized)
    \cup {<<"weight", i>> : i \in {j \in Members \ Quantized : ~Vision}}
    \cup (IF Vision THEN {<<"bias", i>> : i \in Quantized \cup {0}} ELSE {})
    \cup (IF module.fused THEN {<<"weight", 0>>} ELSE {})

(* Vision q, k and v come as EXL3 members and as one fused bf16 weight.     *)
(* _VISUAL_QKV_SPLIT knows the names of the members' tensors, of the two    *)
(* codebook scalars only mul1.                                              *)
Split(t) == t[2] # 0 /\ (t[1] = "code" => setup.codebook = "mul1")

(* Mutant: the bf16 copy is kept as well.                                   *)
VisualQkvBoth ==
  {t \in Checkpoint : Vision /\ Quantized # {} /\ Split(t) => ~setup.bf16 /\ t[1] # "bias"}

(* A tensor neither expression matches passes under its own name.           *)
VisualQkvStream ==
  IF ~Vision \/ Quantized = {} THEN Checkpoint
  ELSE {t \in Checkpoint :
          /\ Split(t) => ~setup.bf16 /\ t[1] # "bias"
          /\ t = <<"weight", 0>> => setup.bf16}

(* _groups_for: {} when the module is left to vLLM.                         *)
GroupsFor == IF Vision /\ setup.bf16 THEN {} ELSE Quantized
-----------------------------------------------------------------------------
(* create_weights                                                           *)

(* Each partition belongs to the group being filled, which it must not      *)
(* overfill; a group that is full makes place for the next.                 *)
TilePart(m, s, p) ==
  LET full == s.acc + p = m.members[s.gi].n
  IN IF ~s.ok \/ s.gi > Len(m.members) THEN [s EXCEPT !.ok = FALSE]
     ELSE [map |-> Append(s.map, s.gi),
           gi |-> IF full THEN s.gi + 1 ELSE s.gi,
           acc |-> IF full THEN 0 ELSE s.acc + p,
           ok |-> s.acc + p <= m.members[s.gi].n]

Tiling(m) ==
  LET s[p \in 0 .. Len(m.parts)] ==
        IF p = 0 THEN [map |-> <<>>, gi |-> 1, acc |-> 0, ok |-> TRUE]
        ELSE TilePart(m, s[p - 1], m.parts[p])
  IN s[Len(m.parts)]

CanCreate ==
  /\ GroupsFor \in {{}, Members}
  /\ GroupsFor # {} =>
       /\ module.k = module.input
       /\ Tiling(module).ok /\ Tiling(module).gi = Len(module.members) + 1
       /\ \A i \in Members : module.members[i].k = module.k

Empty(n) == [of |-> 0, lo |-> 0, hi |-> n]

CreateWeights ==
  /\ phase = "new"
  /\ phase' = IF CanCreate THEN "loading" ELSE "failed"
  /\ IF CanCreate /\ GroupsFor # {}
     THEN /\ partToGroup' = Tiling(module).map
          /\ layer' = [K |-> [i \in Members |-> module.members[i].K],
                       n |-> [i \in Members |-> module.members[i].n],
                       trellis |-> [i \in Members |-> <<"trellis", i, 0>>],
                       suh |-> [i \in Members |-> <<"suh", i, 0>>],
                       svh |-> [i \in Members |-> <<"svh", i, 0>>]]
          /\ heap' = [a \in {"trellis", "suh", "svh"} \X Members \X {0} |->
                        Empty(IF a[1] = "suh" THEN 0 ELSE module.members[a[2]].n)]
     ELSE UNCHANGED <<partToGroup, layer, heap>>
  /\ UNCHANGED <<setup, stray, stream, loaded, codebook, draft, ptrs, wbuf>>
-----------------------------------------------------------------------------
(* The loaders                                                              *)

QKV_IDS == [q |-> 1, k |-> 2, v |-> 3]

PartsOf(shard) ==
  IF shard.by = "letter" THEN {QKV_IDS[c] : c \in shard.ids} ELSE shard.ids

(* The groups of ng that a shard id names, given the groups of the          *)
(* partitions; the code asserts that there is one.                          *)
GroupsOfShard(ng, map, shard) ==
  IF shard.by = "none"
  THEN IF ng = 1 THEN {1} ELSE {}
  ELSE {map[p] : p \in PartsOf(shard)}

(* What checkpoints and settings may be.  A member has columns, and a       *)
(* codebook scalar that is not 0; FUSED lists at most three members for a   *)
(* module, in output order, so that shard ids that name every group name    *)
(* each member's own; only the vision tower has a second, fused copy.       *)
IsModule(m) ==
  /\ m.k \in Nat /\ m.parts \in Seq(Nat)
  /\ m.members \in Seq(Range(m.members)) /\ Len(m.members) <= 4
  /\ \A i \in DOMAIN m.members :
       LET t == m.members[i]
       IN /\ t.n \in Nat \ {0} /\ t.code \in Nat \ {0}
          /\ t.shard.by # "none" => PartsOf(t.shard) \subseteq DOMAIN m.parts
  /\ m.fused => m.kind = "vision"

InOutputOrder(m) ==
  LET Names(i) == GroupsOfShard(Len(m.members), Tiling(m).map, m.members[i].shard)
  IN Tiling(m).ok /\ (\A g \in DOMAIN m.members : \E i \in DOMAIN m.members : Names(i) = {g})
       => \A i \in DOMAIN m.members : Names(i) = {i}

ASSUME SetupsAssumption ==
  \A s \in Setups :
    s.codebook \in {"mul1", "mcg"} /\ s.draftBlocks \in Int /\ IsModule(s.module) /\ InOutputOrder(s.module)

Shape(kind, k, n, K) ==
  CASE kind = "trellis" -> <<k, n, K>> [] kind = "suh" -> <<k>> [] kind = "svh" -> <<n>>

Fits(t, g) ==
  LET m == module.members[t[2]]
  IN Shape(t[1], m.k, m.n, m.K) = Shape(t[1], module.k, layer.n[g], layer.K[g])

(* A tensor for which the module registered a target, by Exl3LinearMethod   *)
(* or, for a module left to vLLM and for a bias, by vLLM.  The vision       *)
(* tower has no parameter under a name that the stream left as it was.      *)
HasTarget(t) ==
  \/ t = <<"bias", 0>>
  \/ IF GroupsFor = {} THEN t[1] = "weight"
     ELSE t[1] \notin {"weight", "bias"} /\ (Vision => Split(t))

LoadDense(t) ==
  /\ loaded' = loaded \cup {t}
  /\ UNCHANGED <<phase, stray, codebook, heap>>

LoadCodebook(t, g) ==
  LET value == module.members[t[2]].code
  IN IF codebook \in {0, value}
     THEN /\ codebook' = value
          /\ loaded' = loaded \cup {<<"code", g>>}
          /\ UNCHANGED <<phase, stray, heap>>
     ELSE phase' = "failed" /\ UNCHANGED <<stray, loaded, codebook, heap>>

LoadGroup(t, g) ==
  IF Fits(t, g)
  THEN /\ heap' = [heap EXCEPT ![layer[t[1]][g]] =
                     [of |-> t[2], lo |-> 0,
                      hi |-> IF t[1] = "suh" THEN 0 ELSE module.members[t[2]].n]]
       /\ loaded' = loaded \cup {<<t[1], g>>}
       /\ UNCHANGED <<phase, stray, codebook>>
  ELSE phase' = "failed" /\ UNCHANGED <<stray, loaded, codebook, heap>>

Load(t) ==
  /\ phase = "loading" /\ t \in stream
  /\ stream' = stream \ {t}
  /\ IF ~HasTarget(t)
     THEN phase' = "failed" /\ stray' = TRUE /\ UNCHANGED <<loaded, codebook, heap>>
     ELSE IF t[1] \in {"weight", "bias"} THEN LoadDense(t)
     ELSE LET gs == GroupsOfShard(Len(layer.n), partToGroup, module.members[t[2]].shard)
          IN IF Cardinality(gs) # 1
             THEN phase' = "failed" /\ UNCHANGED <<stray, loaded, codebook, heap>>
             ELSE \E g \in gs :
                    IF t[1] = "code" THEN LoadCodebook(t, g) ELSE LoadGroup(t, g)
  /\ UNCHANGED <<setup, partToGroup, layer, draft, ptrs, wbuf>>
-----------------------------------------------------------------------------
(* process_weights_after_loading, whenever the stream ends: a checkpoint    *)
(* may lack any of the tensors.                                             *)

(* Blocks the drafter scores: the first n, and the special tokens.          *)
DraftBlocks(total) ==
  LET n == setup.draftBlocks
  IN IF n <= 0 \/ n >= total THEN {}
     ELSE (0 .. n - 1) \cup {i \in n .. total - 1 : i >= total - TailBlocks}

Gap(total) == (0 .. total - 1) \ DraftBlocks(total)

(* A prefix and a contiguous tail, with something between them.             *)
Splits ==
  /\ module.kind = "head" /\ setup.drafting /\ Len(layer.n) = 1
  /\ LET n == layer.n[1]
         drafted == DraftBlocks(n)
         tail == {i \in drafted : \E j \in Gap(n) : j < i}
     IN /\ 0 \in drafted /\ tail # {}
        /\ tail = Min(tail) .. n - 1

(* Column bounds of the three groups: [prefix | middle | tail].             *)
Bounds ==
  LET n == layer.n[1] IN <<0, Min(Gap(n)), Max(Gap(n)) + 1, n>>

Slice(t, lo, hi) == [of |-> t.of, lo |-> t.lo + lo, hi |-> t.lo + hi]

SplitLayer ==
  LET b == Bounds
  IN [K |-> [i \in 1 .. 3 |-> layer.K[1]],
      n |-> [i \in 1 .. 3 |-> b[i + 1] - b[i]],
      trellis |-> [i \in 1 .. 3 |-> <<"trellis", i, 1>>],
      suh |-> [i \in 1 .. 3 |-> layer.suh[1]],
      svh |-> [i \in 1 .. 3 |-> <<"svh", i, 1>>]]

SplitHeap ==
  LET b == Bounds
      new == {"trellis", "svh"} \X (1 .. 3) \X {1}
  IN [a \in new \cup {layer.suh[1]} |->
        IF a \in new THEN Slice(heap[layer[a[1]][1]], b[a[2]], b[a[2] + 1])
        ELSE heap[a]]

SplitDraft ==
  LET b == Bounds
  IN [groups |-> <<1, 3>>,
      cols |-> [i \in 1 .. b[2] + b[4] - b[3] |->
                  IF i <= b[2] THEN i - 1 ELSE b[3] + i - 1 - b[2]]]

(* reserve_weight_buffer: a larger buffer replaces the old one.             *)
Reserve(w, numel) ==
  IF w.size < numel THEN [gen |-> w.gen + 1, size |-> numel] ELSE w

(* Mutant: the widest group is taken for the first.                         *)
NeedOfFirst(l) == module.k * Smaller(l.n[1], SliceN)

Need(l) == module.k * Max({Smaller(l.n[i], SliceN) : i \in DOMAIN l.n})

(* Mutant: the widths may differ.                                           *)
MgemmPtrsByBitrate(l) ==
  IF Len(l.n) > 1 /\ setup.mgemm /\ \A i \in DOMAIN l.n : l.K[i] = l.K[1]
  THEN [trellis |-> l.trellis, suh |-> l.suh, svh |-> l.svh]
  ELSE <<>>

MgemmPtrs(l) ==
  IF /\ Len(l.n) > 1 /\ setup.mgemm
     /\ \A i \in DOMAIN l.n : l.K[i] = l.K[1] /\ l.n[i] = l.n[1]
  THEN [trellis |-> l.trellis, suh |-> l.suh, svh |-> l.svh]
  ELSE <<>>

Missing ==
  \E kind \in {"trellis", "suh", "svh"}, g \in DOMAIN layer.n : <<kind, g>> \notin loaded

(* vLLM refuses a registered parameter that nothing was loaded into.        *)
Unloaded ==
  IF GroupsFor = {}
  THEN \A t \in loaded : t[1] # "weight"
  ELSE \A g \in DOMAIN layer.n : <<"code", g>> \notin loaded

ProcessWeights ==
  /\ phase = "loading"
  /\ IF Unloaded \/ (GroupsFor # {} /\ Missing)
     THEN phase' = "failed" /\ UNCHANGED <<layer, heap, draft, ptrs, wbuf>>
     ELSE /\ phase' = "ready"
          /\ IF GroupsFor = {} THEN UNCHANGED <<layer, heap, draft, ptrs, wbuf>>
             ELSE LET l == IF Splits THEN SplitLayer ELSE layer
                  IN /\ layer' = l
                     /\ heap' = IF Splits THEN SplitHeap ELSE heap
                     /\ draft' = IF Splits THEN SplitDraft ELSE draft
                     /\ wbuf' = Reserve(wbuf, Need(l))
                     /\ ptrs' = MgemmPtrs(l)
  /\ UNCHANGED <<setup, stray, stream, loaded, codebook, partToGroup>>
-----------------------------------------------------------------------------
NoLayer == [K |-> <<>>, n |-> <<>>, trellis |-> <<>>, suh |-> <<>>, svh |-> <<>>]

WeightsInit ==
  /\ setup \in Setups
  /\ phase = "new" /\ stray = FALSE
  /\ stream = VisualQkvStream
  /\ loaded = {} /\ codebook = 0 /\ partToGroup = <<>>
  /\ layer = NoLayer /\ heap = <<>>
  /\ draft = [groups |-> <<>>, cols |-> <<>>] /\ ptrs = <<>>
  /\ \E size \in Reserved : wbuf = [gen |-> 0, size |-> size]

WeightsNext ==
  \/ CreateWeights
  \/ \E t \in stream : Load(t)
  \/ ProcessWeights
=============================================================================
