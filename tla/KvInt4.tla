------------------------------- MODULE KvInt4 -------------------------------
(***************************************************************************)
(* The int4_per_token_head KV cache of vllm_plugin/exl3rocm/kv_int4.py, one *)
(* attention layer, after that layer's exact-row buffers exist.  A key or   *)
(* value row lives in up to three places:                                   *)
(*   cache   the packed 4-bit rows, by physical block and slot;             *)
(*   sink    an fp16 copy of the first SINKS slots of every block;          *)
(*   ring    an fp16 copy of a request's newest TAIL positions, one ring    *)
(*           per request-state slot, each entry tagged with its position.   *)
(* A step of the engine is: schedule and prepare_inputs, the layer's cache  *)
(* write (_quant_pack), the layer's attention (_attn_int4 or the prefill    *)
(* copy), and sampling, which may reject draft positions.  The scheduler,   *)
(* its prefix cache and RequestState belong to vLLM; they are modelled by   *)
(* what the plugin's hooks see of them.                                     *)
(*                                                                          *)
(* A row's data is one of Values.  text[s][p] is what position p of the     *)
(* request in slot s holds: the history that every copy is judged by.       *)
(***************************************************************************)
EXTENDS Integers, Sequences

CONSTANTS
  Slots,      \* request-state indices, 0 .. max_num_reqs - 1 in the code
  Scratch,    \* ring row max_num_reqs
  Blocks,     \* physical KV blocks
  NoBlock,    \* an unused block-table entry
  Values,     \* what a row may hold
  Blank,      \* a row nobody wrote yet
  TAIL,       \* TAIL: positions of a request kept in its ring
  SINKS,      \* SINKS: leading slots of a block with an fp16 copy
  BLOCK_SIZE,  \* slots of a block
  MaxLen,     \* bound: positions of a request (max_model_len)
  MaxQ,       \* bound: tokens of one request in one step
  MaxBatch    \* requests of one step (max_num_seqs), the size of _req["slot"]

ASSUME KvAssumption ==
  /\ TAIL \in Nat \ {0} /\ SINKS \in Nat /\ BLOCK_SIZE \in Nat \ {0}
  /\ MaxLen \in Nat \ {0} /\ MaxQ \in Nat \ {0} /\ MaxBatch \in Nat \ {0}
  /\ Scratch \notin Slots /\ NoBlock \notin Blocks /\ Blank \notin Values

VARIABLES
  phase,   \* where the engine step is: "schedule", "update" or "attend"
  active,  \* slots that hold a request
  mode,    \* slot -> "prefill" until its prompt is computed, then "decode"
  len,     \* slot -> computed positions
  query,   \* slot -> tokens scheduled for it in this step
  text,    \* slot -> position -> the row's true content
  table,   \* slot -> block-table index -> physical block
  batch,   \* the step's batch rows: a sequence of slots (idx_mapping)
  buf,     \* _req["slot"]: batch row -> ring row, read by the kernels
  hash,    \* block -> the prefix it is cached under, <<>> when none
  cache, sink,           \* block -> slot -> content
  tag, ringK, ringV,     \* ring row -> entry -> position, key row, value row
  hit, top               \* history: positions taken from the prefix cache, and
                         \* the largest seq_len, of the request in the slot

engine == <<phase, active, mode, len, query, text, table, batch, hash, hit, top>>
exact == <<cache, sink, tag, ringK, ringV>>
vars == <<engine, buf, exact>>

Rows == Slots \union {Scratch}
Positions == 0 .. MaxLen - 1
Entries == 0 .. TAIL - 1
Offsets == 0 .. BLOCK_SIZE - 1
TableIdx == 0 .. (MaxLen - 1) \div BLOCK_SIZE
BatchRows == 1 .. MaxBatch
Content == Values \union {Blank}
EmptyRow == [e \in Entries |-> -1]
NoText == [p \in Positions |-> Blank]
NoTable == [i \in TableIdx |-> NoBlock]

SeqLen(s) == len[s] + query[s]
Owned == {table[s][i] : s \in active, i \in TableIdx}
Free == Blocks \ Owned

(* Where position p of slot s is stored in the paged cache. *)
BlockOf(s, p) == table[s][p \div BLOCK_SIZE]

Init ==
  /\ phase = "schedule" /\ active = {} /\ batch = <<>>
  /\ mode = [s \in Slots |-> "prefill"]
  /\ len = [s \in Slots |-> 0] /\ query = [s \in Slots |-> 0]
  /\ hit = [s \in Slots |-> 0] /\ top = [s \in Slots |-> 0]
  /\ text = [s \in Slots |-> NoText]
  /\ table = [s \in Slots |-> NoTable]
  /\ buf = [r \in BatchRows |-> Scratch]
  /\ hash = [b \in Blocks |-> <<>>]
  /\ cache = [b \in Blocks |-> [o \in Offsets |-> Blank]]
  /\ sink = [b \in Blocks |-> [o \in Offsets |-> Blank]]
  /\ tag = [r \in Rows |-> EmptyRow]
  /\ ringK = [r \in Rows |-> [e \in Entries |-> Blank]]
  /\ ringV = [r \in Rows |-> [e \in Entries |-> Blank]]
-----------------------------------------------------------------------------
(* Requests come and go *)

(* The cached prefix that ends in block b: the blocks that hold its parts,
   first to last, whichever block vLLM finds for each hash. *)
Chains(b) ==
  LET n == Len(hash[b]) \div BLOCK_SIZE
  IN {c \in [0 .. n - 1 -> Blocks] :
        /\ c[n - 1] = b
        /\ \A i \in 0 .. n - 1 : hash[c[i]] = SubSeq(hash[b], 1, (i + 1) * BLOCK_SIZE)}

(* Mutant: the slot keeps the tags of its previous request. *)
KeptTags(s) == tag

(* request_added: the tags of ring row s go to -1. *)
ClearedTags(s) == [tag EXCEPT ![s] = EmptyRow]

(* RequestState.add_request, then request_added.
   The first hits positions come from the prefix cache; at least one position
   is left to compute.  A preempted request comes back this way too. *)
Admit(s, hits, prefix, blocks) ==
  /\ phase = "schedule" /\ s \notin active /\ hits < MaxLen
  /\ active' = active \union {s}
  /\ mode' = [mode EXCEPT ![s] = "prefill"]
  /\ len' = [len EXCEPT ![s] = hits]
  /\ hit' = [hit EXCEPT ![s] = hits]
  /\ top' = [top EXCEPT ![s] = hits]
  /\ text' = [text EXCEPT ![s] = [p \in Positions |->
                                    IF p < hits THEN prefix[p + 1] ELSE Blank]]
  /\ table' = [table EXCEPT ![s] = [i \in TableIdx |->
                                      IF i \in DOMAIN blocks THEN blocks[i] ELSE NoBlock]]
  /\ tag' = ClearedTags(s)
  /\ UNCHANGED <<phase, query, batch, hash, buf, cache, sink, ringK, ringV>>

AddRequest(s) ==
  \/ Admit(s, 0, <<>>, <<>>)
  \/ \E b \in Blocks :
       /\ hash[b] # <<>>
       /\ \E c \in Chains(b) : Admit(s, Len(hash[b]), hash[b], c)

(* The request ends, or is preempted: its blocks are free to be reused and
   stay in the prefix cache until they are.  Its ring row is left as it is. *)
RemoveRequest(s) ==
  /\ phase = "schedule" /\ s \in active /\ query[s] = 0
  /\ active' = active \ {s}
  /\ mode' = [mode EXCEPT ![s] = "prefill"]
  /\ len' = [len EXCEPT ![s] = 0] /\ hit' = [hit EXCEPT ![s] = 0]
  /\ top' = [top EXCEPT ![s] = 0]
  /\ text' = [text EXCEPT ![s] = NoText]
  /\ table' = [table EXCEPT ![s] = NoTable]
  /\ UNCHANGED <<phase, query, batch, hash, buf, exact>>
-----------------------------------------------------------------------------
(* One engine step *)

(* The scheduler gives slot s q more tokens: a prompt chunk, or the last
   sampled token and q - 1 drafts.  New table entries take blocks nobody owns,
   which leave the prefix cache; the blocks whose every token is known (drafts
   are not) enter it. *)
ScheduleRequest(s, q) ==
  /\ phase = "schedule" /\ s \in active /\ query[s] = 0 /\ len[s] + q <= MaxLen
  /\ Len(batch) < MaxBatch
  /\ LET need == {i \in TableIdx : i * BLOCK_SIZE < len[s] + q /\ table[s][i] = NoBlock}
         known == IF mode[s] = "prefill" THEN len[s] + q ELSE len[s] + 1
     IN \E new \in [need -> Free], vals \in [0 .. q - 1 -> Values] :
          /\ \A i, j \in need : new[i] = new[j] => i = j
          /\ text' = [text EXCEPT ![s] = [p \in Positions |->
                        IF p \in len[s] .. len[s] + q - 1 THEN vals[p - len[s]] ELSE @[p]]]
          /\ table' = [table EXCEPT ![s] = [i \in TableIdx |->
                                              IF i \in need THEN new[i] ELSE @[i]]]
          /\ hash' = [b \in Blocks |->
               LET full == {i \in TableIdx : table'[s][i] = b /\ (i + 1) * BLOCK_SIZE <= known}
               IN CASE full # {} -> [k \in 1 .. ((CHOOSE i \in full : TRUE) + 1) * BLOCK_SIZE
                                        |-> text'[s][k - 1]]
                    [] full = {} /\ b \in {new[i] : i \in need} -> <<>>
                    [] OTHER -> hash[b]]
  /\ query' = [query EXCEPT ![s] = q]
  /\ batch' = Append(batch, s)
  /\ UNCHANGED <<phase, active, mode, len, hit, top, buf, exact>>

(* Mutants: the buffer is never filled, or a row keeps its first slot. *)
UnsetBatchSlots == buf
StickyBatchSlots ==
  [r \in BatchRows |-> IF r <= Len(batch) /\ buf[r] = Scratch THEN batch[r] ELSE buf[r]]

(* set_batch_slots: the first rows take the batch's slots (idx_mapping), the
   rest point at the scratch row. *)
BatchSlots == [r \in BatchRows |-> IF r <= Len(batch) THEN batch[r] ELSE Scratch]

(* GPUModelRunner.prepare_inputs, then set_batch_slots. *)
PrepareInputs ==
  /\ phase = "schedule" /\ batch # <<>>
  /\ buf' = BatchSlots
  /\ top' = [s \in Slots |-> IF query[s] > 0 /\ SeqLen(s) > top[s] THEN SeqLen(s) ELSE top[s]]
  /\ phase' = "update"
  /\ UNCHANGED <<active, mode, len, query, text, table, batch, hash, hit, exact>>

(* The tokens of the step: batch row and position.  _quant_pack finds them by
   pos = seq_len - (q1 - q0) + (t - q0). *)
Tokens == {t \in (1 .. Len(batch)) \X Positions :
             t[2] \in SeqLen(batch[t[1]]) - query[batch[t[1]]] .. SeqLen(batch[t[1]]) - 1}

(* Mutants: no tail window, and a window one position short. *)
InTailAlways(r, p) == TRUE
InTailShort(r, p) == p > SeqLen(batch[r]) - TAIL

(* Position p is among the newest TAIL of batch row r. *)
InTail(r, p) == p >= SeqLen(batch[r]) - TAIL

(* The tokens whose program stores to entry e of ring row w. *)
RingWriters(w, e) ==
  {t \in Tokens : buf[t[1]] = w /\ InTail(t[1], t[2]) /\ t[2] % TAIL = e}

(* The tokens whose program stores to slot o of block b (slot_mapping). *)
CacheWriters(b, o) ==
  {t \in Tokens : BlockOf(batch[t[1]], t[2]) = b /\ t[2] % BLOCK_SIZE = o}

(* Mutant: the sink is taken to be the sequence's first positions. *)
SinkWritersByPosition(b, o) == {t \in CacheWriters(b, o) : t[2] < SINKS}

(* The tokens whose program stores to the fp16 copy of that slot. *)
SinkWriters(b, o) == {t \in CacheWriters(b, o) : o < SINKS}

TextOf(t) == text[batch[t[1]]][t[2]]

(* Mutant: the tag is the sequence length, not the token's position. *)
TagOfEnd(t) == SeqLen(batch[t[1]])

TagOf(t) == t[2]

(* _quant_pack: one program per token and side, in no order.  Which of two
   programs that store to one place comes last is not defined: see
   WritesDoNotRace. *)
CacheUpdate ==
  /\ phase = "update"
  /\ cache' = [b \in Blocks |-> [o \in Offsets |->
       IF CacheWriters(b, o) = {} THEN cache[b][o]
       ELSE TextOf(CHOOSE t \in CacheWriters(b, o) : TRUE)]]
  /\ sink' = [b \in Blocks |-> [o \in Offsets |->
       IF SinkWriters(b, o) = {} THEN sink[b][o]
       ELSE TextOf(CHOOSE t \in SinkWriters(b, o) : TRUE)]]
  /\ tag' = [w \in Rows |-> [e \in Entries |->
       IF RingWriters(w, e) = {} THEN tag[w][e]
       ELSE TagOf(CHOOSE t \in RingWriters(w, e) : TRUE)]]
  /\ ringK' = [w \in Rows |-> [e \in Entries |->
       IF RingWriters(w, e) = {} THEN ringK[w][e]
       ELSE TextOf(CHOOSE t \in RingWriters(w, e) : TRUE)]]
  /\ ringV' = [w \in Rows |-> [e \in Entries |->
       IF RingWriters(w, e) = {} THEN ringV[w][e]
       ELSE TextOf(CHOOSE t \in RingWriters(w, e) : TRUE)]]
  /\ phase' = "attend"
  /\ UNCHANGED <<active, mode, len, query, text, table, batch, hash, hit, top, buf>>

(* After attention, sampling keeps a prompt chunk whole and, of a decode or
   verify step, the first token and the accepted drafts.  Rejected positions
   are rolled back; the ring keeps their rows and tags. *)
Sample ==
  /\ phase = "attend"
  /\ \E kept \in [Slots -> 0 .. MaxQ] :
       /\ \A s \in Slots : /\ kept[s] <= query[s]
                           /\ query[s] > 0 => kept[s] > 0
                           /\ mode[s] = "prefill" => kept[s] = query[s]
       /\ len' = [s \in Slots |-> len[s] + kept[s]]
       /\ text' = [s \in Slots |-> [p \in Positions |->
                     IF p < len[s] + kept[s] THEN text[s][p] ELSE Blank]]
  /\ \E done \in SUBSET {s \in active : query[s] > 0 /\ mode[s] = "prefill"} :
       mode' = [s \in Slots |-> IF s \in done THEN "decode" ELSE mode[s]]
  /\ query' = [s \in Slots |-> 0]
  /\ batch' = <<>> /\ phase' = "schedule"
  /\ UNCHANGED <<active, table, hash, hit, top, buf, exact>>

Next ==
  \/ \E s \in Slots : AddRequest(s) \/ RemoveRequest(s)
  \/ \E s \in Slots, q \in 1 .. MaxQ : ScheduleRequest(s, q)
  \/ PrepareInputs
  \/ CacheUpdate
  \/ Sample

Spec == Init /\ [][Next]_vars
-----------------------------------------------------------------------------
(* Attention *)

(* Mutant: the window alone decides. *)
TagHitUntagged(r, p) == InTail(r, p)

(* _attn_tile's is_t: position p is in the tail window and its tag matches. *)
TagHit(r, p) == InTail(r, p) /\ tag[buf[r]][p % TAIL] = p

(* What a kernel that chooses between the three copies reads for position p of
   batch row r; side is ringK or ringV. *)
Pick(r, p, side, useSink) ==
  IF TagHit(r, p) THEN side[buf[r]][p % TAIL]
  ELSE IF useSink THEN sink[BlockOf(batch[r], p)][p % BLOCK_SIZE]
  ELSE cache[BlockOf(batch[r], p)][p % BLOCK_SIZE]

(* _attn_int4: sink rows for the sequence's first SINKS positions. *)
DecodeRead(r, p, side) == Pick(r, p, side, p < SINKS)

(* prefill: gather_dequant_int4 takes sink rows in the sequence's first block,
   then _tail_overlay stores the matching ring rows over the copy. *)
PrefillRead(r, p, side) == Pick(r, p, side, p < BLOCK_SIZE /\ p % BLOCK_SIZE < SINKS)
-----------------------------------------------------------------------------
(* Properties *)

(* Every variable keeps its type: no tag or length beyond the positions. *)
TypeOK ==
  /\ phase \in {"schedule", "update", "attend"}
  /\ active \in SUBSET Slots
  /\ mode \in [Slots -> {"prefill", "decode"}]
  /\ len \in [Slots -> 0 .. MaxLen] /\ query \in [Slots -> 0 .. MaxQ]
  /\ hit \in [Slots -> 0 .. MaxLen] /\ top \in [Slots -> 0 .. MaxLen]
  /\ text \in [Slots -> [Positions -> Content]]
  /\ table \in [Slots -> [TableIdx -> Blocks \union {NoBlock}]]
  /\ batch \in Seq(Slots)
  /\ buf \in [BatchRows -> Rows]
  /\ hash \in [Blocks -> Seq(Content)]
  /\ cache \in [Blocks -> [Offsets -> Content]]
  /\ sink \in [Blocks -> [Offsets -> Content]]
  /\ tag \in [Rows -> [Entries -> -1 .. MaxLen - 1]]
  /\ ringK \in [Rows -> [Entries -> Content]]
  /\ ringV \in [Rows -> [Entries -> Content]]

(* The programs of one _quant_pack launch run in no order, so no two of them
   may store to the same ring entry (not two tokens of a chunk longer than the
   ring, not two requests of the batch) or to the same cache row. *)
RingWritesDoNotRace ==
  phase = "update" =>
    \A t, u \in Tokens : /\ t # u
                         /\ InTail(t[1], t[2]) /\ InTail(u[1], u[2])
                         => <<buf[t[1]], t[2] % TAIL>> # <<buf[u[1]], u[2] % TAIL>>

CacheWritesDoNotRace ==
  phase = "update" =>
    \A t, u \in Tokens : t # u => <<BlockOf(batch[t[1]], t[2]), t[2] % BLOCK_SIZE>>
                                   # <<BlockOf(batch[u[1]], u[2]), u[2] % BLOCK_SIZE>>

WritesDoNotRace == RingWritesDoNotRace /\ CacheWritesDoNotRace

(* A ring row whose tag matches is the request's own row of that position, not
   its slot's previous request's and not a rejected draft's. *)
TailReadsOwnText ==
  phase = "attend" =>
    \A r \in 1 .. Len(batch) : \A p \in 0 .. SeqLen(batch[r]) - 1 :
      TagHit(r, p) => \A side \in {ringK, ringV} :
                        side[buf[r]][p % TAIL] = text[batch[r]][p]

(* Whatever copy attention takes, it reads the request's own row of that
   position: no row of the slot's previous request, of a rejected draft, of a
   reused block or of another batch row, on the decode and on the prefill path. *)
AttentionReadsOwnText ==
  phase = "attend" =>
    \A r \in 1 .. Len(batch) : \A p \in 0 .. SeqLen(batch[r]) - 1 :
      \A side \in {ringK, ringV} :
        /\ DecodeRead(r, p, side) = text[batch[r]][p]
        /\ PrefillRead(r, p, side) = text[batch[r]][p]

(* The fp16 copy of a block's first slots is the copy of the rows the block
   holds now, so that a prefix-cache hit on the block finds both. *)
SinksMirrorCache ==
  \A b \in Blocks, o \in Offsets : o < SINKS => sink[b][o] = cache[b][o]

(* What the ring does promise: a position the request computed itself is read
   exact while no longer sequence than seq_len + TAIL pushed it out. *)
OwnTailExact ==
  phase = "attend" =>
    \A r \in 1 .. Len(batch) : \A p \in Positions :
      p >= hit[batch[r]] /\ p >= top[batch[r]] - TAIL /\ p < SeqLen(batch[r]) => TagHit(r, p)
=============================================================================
