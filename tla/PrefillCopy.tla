----------------------------- MODULE PrefillCopy -----------------------------
(***************************************************************************)
(* The attention hooks of exl3rocm/plugin.py and the fp16 copy of           *)
(* kv_dequant.py and kv_int4.prefill.  A step runs the layers one after the *)
(* other: forward names the layer, do_kv_cache_update makes the layer's     *)
(* exact buffers on first use, unified_attention sends a long eager query   *)
(* to the copy path and everything else to the decode kernel.  The copy     *)
(* gathers the blocks of every sequence of the batch into two buffers that  *)
(* all layers share and that grow, overlays the newest positions from the   *)
(* exact ring, and calls vLLM's fp16 kernel on a block table of its own     *)
(* under tiling knobs in os.environ.  Any allocation may fail: the          *)
(* exception ends the step.                                                 *)
(*                                                                          *)
(* A row of a copy is where it came from: [layer, side, from, at], from the *)
(* quantised cache ("cache", at <<block, slot>>), a sink ("sink", the same) *)
(* or the ring ("ring", at <<sequence, position>>).  Which newest positions *)
(* have a matching ring tag is an input here: KvInt4 models the ring.       *)
(* Positions, blocks of a table and slots count from 0; entries of a copy   *)
(* from 0, as in the code.                                                  *)
(***************************************************************************)
EXTENDS Integers, Sequences, FiniteSets, SequencesExt, FiniteSetsExt

CONSTANTS
  NumLayers,   \* attention layers, 1 .. NumLayers
  Batches,     \* what a step may attend to: [tables, lens, q, hits]
  Pool,        \* blocks of the KV pool
  BLOCK_SIZE,  \* slots of a block
  SINKS, TAIL, \* exact rows
  MinQ,        \* EXL3_PTH_PREFILL_MIN_Q
  Budget,      \* EXL3_PTH_PREFILL_MAX_MB, in blocks of K and V
  TilingOn,    \* EXL3_PREFILL_TILING
  Knobs        \* the VLLM_RDNA_* variables

ASSUME CopyAssumption ==
  /\ NumLayers \in Nat \ {0} /\ Pool \in Nat /\ Budget \in Nat /\ TilingOn \in BOOLEAN
  /\ BLOCK_SIZE \in Nat \ {0} /\ SINKS \in 0 .. BLOCK_SIZE /\ TAIL \in Nat

(* The block table is a matrix, wide enough for every sequence; the overlay looks
   for tags of positions that the sequence has. *)
ASSUME BatchAssumption ==
  \A b \in Batches :
    LET n == Len(b.tables)
    IN /\ b.tables \in Seq(Seq(Nat)) /\ n > 0 /\ b.q \in Nat
       /\ b.lens \in [1 .. n -> Nat] /\ b.hits \in [1 .. n -> SUBSET Int]
       /\ \A s \in 1 .. n : /\ Len(b.tables[s]) = Len(b.tables[1])
                            /\ b.lens[s] <= Len(b.tables[1]) * BLOCK_SIZE
                            /\ \A p \in b.hits[s] : p < b.lens[s]

VARIABLES
  quant,   \* "int4", "int8" (and fp8) per token and head, or "none"
  user,    \* the knobs that the user set
  environ, \* the knobs now: knob -> "unset", "user" or "prefill"
  exact,   \* layers with exact buffers
  batch,   \* the batch of the running step
  mode,    \* "idle", or how the step runs: "eager" or "capture"
  layer,   \* the layer whose turn it is
  pc,      \* "update", "attend", or in the attention kernel: "fp16", "decode" or "vllm"
  cur,     \* cur["layer"], 0 for None
  bufs,    \* tag -> [size, rows]: the persistent fp16 buffers; rows are those
           \* of the running copy, all others are stale
  kernel,  \* the kernel's inputs: [layer, nb, table]
  warm     \* an eager step has run through every layer

vars == <<quant, user, environ, exact, batch, mode, layer, pc, cur, bufs, kernel, warm>>

Layers == 1 .. NumLayers
Capturing == mode = "capture"
Sequences == DOMAIN batch.lens
Smaller(a, b) == IF a <= b THEN a ELSE b
Larger(a, b) == IF a >= b THEN a ELSE b

NoBatch == [tables |-> <<>>, lens |-> <<>>, q |-> 0, hits |-> <<>>]
NoKernel == [layer |-> 0, nb |-> 0, table |-> <<>>]
NoBuffer == [size |-> 0, rows |-> <<>>]

(* An exception, or the last layer: the step is over.                       *)
Idle == mode' = "idle" /\ batch' = NoBatch /\ layer' = 1 /\ pc' = "idle"
-----------------------------------------------------------------------------
(* kv_dequant._buffer: the copy of n blocks in the tag's buffer, which      *)
(* grows in steps of a quarter, rounded up to four blocks, up to cap.       *)
(* Mutant: not capped.                                                      *)
GrownUncapped(size, n, cap) ==
  LET grow == Larger(n, IF size = 0 THEN 1 ELSE (size * 5) \div 4 + 1)
  IN Larger(((grow + 3) \div 4) * 4, n)

Grown(size, n, cap) ==
  LET grow == Larger(n, IF size = 0 THEN 1 ELSE (size * 5) \div 4 + 1)
  IN Smaller(Larger(((grow + 3) \div 4) * 4, n), Larger(cap, n))

Buffer(buf, n, cap) ==
  IF buf.size < n THEN [size |-> Grown(buf.size, n, cap), rows |-> <<>>] ELSE buf

(* Blocks that a copy of the batch lists per sequence.                      *)
NumBlocks == (Max({batch.lens[s] : s \in Sequences}) + BLOCK_SIZE - 1) \div BLOCK_SIZE

Cap == Smaller(Pool, Len(batch.tables) * Len(batch.tables[1]))

(* Entry j of the flattened block table.                                    *)
Flat(nb, j) == batch.tables[j \div nb + 1][(j % nb) + 1]

(* The layer whose exact buffers and means the hooks use: cur["layer"].     *)
LayerName == layer

ExactHere == quant = "int4" /\ LayerName \in exact

(* _int4_dequant_kernel and _pth_dequant_kernel, one program per row.       *)
SinkOfBatch(nb, j, slot) == ExactHere /\ slot < SINKS /\ j = 0  \* mutant

SinkRow(nb, j, slot) == ExactHere /\ slot < SINKS /\ j % nb = 0

Gathered(side, nb) ==
  [j \in 0 .. Len(batch.tables) * nb - 1 |->
     [slot \in 0 .. BLOCK_SIZE - 1 |->
        [layer |-> layer, side |-> side,
         from |-> IF SinkRow(nb, j, slot) THEN "sink" ELSE "cache",
         at |-> <<Flat(nb, j), slot>>]]]

(* _tail_overlay: the newest TAIL positions of each sequence whose tag      *)
(* matches, over the gathered rows.                                         *)
OverlaidAt(s, nb, pos) == <<(s - 1) * nb + pos \div BLOCK_SIZE, pos % BLOCK_SIZE>>

Overlaid(rows, side, nb) ==
  LET Hits(s) == {p \in batch.hits[s] : p >= 0 /\ p >= batch.lens[s] - TAIL}
      Source(j, slot) ==
        {w \in Sequences \X UNION {Hits(s) : s \in Sequences} :
           w[2] \in Hits(w[1]) /\ OverlaidAt(w[1], nb, w[2]) = <<j, slot>>}
  IN IF ~ExactHere THEN rows
     ELSE [j \in DOMAIN rows |-> [slot \in DOMAIN rows[j] |->
             IF Source(j, slot) = {} THEN rows[j][slot]
             ELSE [layer |-> LayerName, side |-> side, from |-> "ring",
                   at |-> CHOOSE x \in Source(j, slot) : TRUE]]]

Tag(side) == side

(* K is gathered first, then V, then both are overlaid.                     *)
Copied(nb) ==
  LET n == Len(batch.tables) * nb
      Fill(b, side) ==
        LET buf == Buffer(b[Tag(side)], n, Cap)
        IN [b EXCEPT ![Tag(side)] =
              [buf EXCEPT !.rows = Overlaid(Gathered(side, nb), side, nb)]]
  IN Fill(Fill(bufs, "k"), "v")

(* torch.empty raises in the gathering of one side: its old buffer is gone, *)
(* given back to the driver to make place for the larger one.               *)
LostOn(side, nb) ==
  LET n == Len(batch.tables) * nb
      gathered == IF side = "v" THEN {Tag("k")} ELSE {}
  IN [t \in DOMAIN bufs |->
        IF t = Tag(side) THEN NoBuffer
        ELSE IF t \in gathered THEN [Buffer(bufs[t], n, Cap) EXCEPT !.rows = <<>>]
        ELSE bufs[t]]
-----------------------------------------------------------------------------
(* A step of the model runner: a batch through all layers, or a graph       *)
(* captured over a batch, which may come first.                             *)
Begin(b, m) ==
  /\ mode = "idle"
  /\ mode' = m /\ batch' = b /\ layer' = 1 /\ pc' = "update"
  /\ UNCHANGED <<quant, user, environ, exact, cur, bufs, kernel, warm>>

(* exact_buffers: None for a layer first seen during a capture.             *)
(* Mutant: made when a long query first needs them.                         *)
ExactIfLong ==
  IF quant = "int4" /\ ~Capturing /\ batch.q >= MinQ THEN exact \cup {layer} ELSE exact

ExactAfter ==
  IF quant = "int4" /\ ~Capturing /\ SINKS + TAIL > 0 THEN exact \cup {layer} ELSE exact

(* do_kv_cache_update                                                       *)
Update ==
  /\ mode # "idle" /\ pc = "update"
  /\ exact' = ExactAfter
  /\ pc' = "attend"
  /\ UNCHANGED <<quant, user, environ, batch, mode, layer, cur, bufs, kernel, warm>>

(* The layer's slab or tags cannot be allocated.                            *)
UpdateRaises ==
  /\ mode # "idle" /\ pc = "update" /\ ExactAfter # exact
  /\ Idle
  /\ UNCHANGED <<quant, user, environ, exact, cur, bufs, kernel, warm>>

(* unified_attention, of the int4 hook and of the int8 one under it.        *)
LongQuery == batch.q >= MinQ
FitsBudget == Len(batch.tables) * NumBlocks <= Budget
TakesCopy == quant \in {"int4", "int8"} /\ LongQuery /\ ~Capturing /\ FitsBudget

(* prefill_attention sets the knobs that the user left alone.               *)
SetKnobs == IF TilingOn THEN {k \in Knobs : environ[k] = "unset"} ELSE {}

(* forward names the layer until the attention kernel has returned.         *)
EnterCopy ==
  /\ mode # "idle" /\ pc = "attend" /\ TakesCopy
  /\ cur' = LayerName
  /\ LET nb == NumBlocks
     IN /\ kernel' = [layer |-> layer, nb |-> nb,
                      table |-> [s \in Sequences |-> [i \in 1 .. nb |-> (s - 1) * nb + i - 1]]]
        /\ bufs' = Copied(nb)
  /\ environ' = [k \in Knobs |-> IF k \in SetKnobs THEN "prefill" ELSE environ[k]]
  /\ pc' = "fp16"
  /\ UNCHANGED <<quant, user, exact, batch, mode, layer, warm>>

EnterCopyRaises ==
  /\ mode # "idle" /\ pc = "attend" /\ TakesCopy
  /\ \E side \in {"k", "v"} :
       /\ bufs[Tag(side)].size < Len(batch.tables) * NumBlocks
       /\ bufs' = LostOn(side, NumBlocks)
  /\ Idle
  /\ UNCHANGED <<quant, user, environ, exact, cur, kernel, warm>>

EnterOther ==
  /\ mode # "idle" /\ pc = "attend" /\ ~TakesCopy
  /\ cur' = LayerName
  /\ kernel' = [NoKernel EXCEPT !.layer = layer]
  /\ pc' = IF quant = "int4" THEN "decode" ELSE "vllm"
  /\ UNCHANGED <<quant, user, environ, exact, batch, mode, layer, bufs, warm>>

(* The finally clauses of prefill_attention and forward.                    *)
Restored == [k \in Knobs |-> IF environ[k] = "prefill" THEN "unset" ELSE environ[k]]

Leave ==
  /\ pc \in {"fp16", "decode", "vllm"}
  /\ environ' = Restored /\ cur' = 0 /\ kernel' = NoKernel
  /\ bufs' = [t \in DOMAIN bufs |-> [bufs[t] EXCEPT !.rows = <<>>]]
  /\ UNCHANGED <<quant, user, exact>>

Return ==
  /\ Leave
  /\ IF layer < NumLayers
     THEN layer' = layer + 1 /\ pc' = "update" /\ UNCHANGED <<batch, mode, warm>>
     ELSE Idle /\ warm' = (warm \/ mode = "eager")

(* Mutant: the knobs are set back only when the kernel returns.             *)
RaiseWithKnobs ==
  /\ pc \in {"fp16", "decode", "vllm"}
  /\ cur' = 0 /\ kernel' = NoKernel /\ Idle
  /\ bufs' = [t \in DOMAIN bufs |-> [bufs[t] EXCEPT !.rows = <<>>]]
  /\ UNCHANGED <<quant, user, environ, exact, warm>>

(* The kernel raises, out of memory for instance: the step is over.         *)
Raise == Leave /\ Idle /\ UNCHANGED warm

Init ==
  /\ quant \in {"int4", "int8", "none"}
  /\ user \in SUBSET Knobs
  /\ environ = [k \in Knobs |-> IF k \in user THEN "user" ELSE "unset"]
  /\ exact = {} /\ batch = NoBatch
  /\ mode = "idle" /\ layer = 1 /\ pc = "idle" /\ cur = 0
  /\ bufs = [side \in {"k", "v"} |-> NoBuffer]
  /\ kernel = NoKernel /\ warm = FALSE

Next ==
  \/ \E b \in Batches, m \in {"eager", "capture"} : Begin(b, m)
  \/ Update \/ UpdateRaises
  \/ EnterCopy \/ EnterCopyRaises \/ EnterOther
  \/ Return \/ Raise

Spec == Init /\ [][Next]_vars
-----------------------------------------------------------------------------
(* Properties                                                               *)

(* The row that position p of sequence s must read on one side.             *)
Due(s, p, side) ==
  LET has == quant = "int4" /\ layer \in exact
      block == batch.tables[s][p \div BLOCK_SIZE + 1]
      newest == has /\ p >= batch.lens[s] - TAIL /\ p \in batch.hits[s]
  IN [layer |-> layer, side |-> side,
      from |-> IF newest THEN "ring" ELSE IF has /\ p < SINKS THEN "sink" ELSE "cache",
      at |-> IF newest THEN <<s, p>> ELSE <<block, p % BLOCK_SIZE>>]

(* The fp16 kernel reads, for every position of every sequence of the       *)
(* batch, the running layer's own key and value of that position: from the  *)
(* ring where the tag matches, from the sink copy for a sequence's first    *)
(* positions, and from the cache otherwise, whatever other layers, batches  *)
(* and sides left in the shared buffers (gather_dequant, _tail_overlay).    *)
CopiesOwnRows ==
  pc = "fp16" =>
    \A s \in Sequences, side \in {"k", "v"} : \A p \in 0 .. batch.lens[s] - 1 :
      LET j == kernel.table[s][p \div BLOCK_SIZE + 1]
      IN /\ j \in DOMAIN bufs[side].rows /\ j < bufs[side].size
         /\ bufs[side].rows[j][p % BLOCK_SIZE] = Due(s, p, side)

(* Where there are exact rows, a graph captured after one whole eager step  *)
(* has the exact buffers of every layer in it, whatever steps failed half   *)
(* way: replays of a graph without them would leave sinks and ring rows of  *)
(* that layer stale for the eager steps that read them (exact_buffers).     *)
GraphsWriteExact ==
  warm /\ SINKS + TAIL > 0 /\ Capturing /\ pc \in {"fp16", "decode"} /\ quant = "int4" => layer \in exact

(* The prefill tiling is seen by the fp16 kernel and by nothing else, a     *)
(* knob that the user set is never touched, and an exception leaves no      *)
(* knob behind (prefill_attention).                                         *)
KnobsOnlyInCopy ==
  \A k \in Knobs :
    environ[k] = IF k \in user THEN "user"
                 ELSE IF pc = "fp16" /\ TilingOn THEN "prefill" ELSE "unset"

(* A buffer that is replaced grows, by a quarter at least or straight to    *)
(* what the batch can reference, and never past it: chunks of a growing     *)
(* context replace it a few times, not every time, and no replacement       *)
(* wastes more than the batch can need.  It is lost only when it was too    *)
(* small and the larger one cannot be allocated, which ends the step; no    *)
(* graph capture replaces or loses one (_buffer).                           *)
GrowsInSteps ==
  [][\A t \in DOMAIN bufs :
       LET old == bufs[t].size
           new == bufs'[t].size
           need == Len(batch.tables) * NumBlocks
           most == Larger(Cap, need)
       IN new # old =>
            /\ ~Capturing /\ old < need
            /\ \/ /\ new >= need /\ new <= most
                  /\ 4 * new >= 5 * old \/ new = most
               \/ new = 0 /\ mode' = "idle"]_vars
=============================================================================
