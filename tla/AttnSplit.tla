------------------------------ MODULE AttnSplit ------------------------------
(***************************************************************************)
(* How _attn_int4 of vllm_plugin/exl3rocm/kv_int4.py splits attention: one  *)
(* program per query block and, for short queries, per segment of the keys; *)
(* each program visits its tiles in three passes (tile 0 with the sinks, a  *)
(* plain body, the tiles of the tail window); reduce_segments joins the     *)
(* segments' partials, kept in a buffer that earlier launches used too.     *)
(*                                                                         *)
(* A partial result is the set of key reads it was made of.  Which row a    *)
(* read finds is the subject of KvInt4; here only which exact copies the    *)
(* read is allowed to take.  One kv head; the others run alike.             *)
(***************************************************************************)
EXTENDS Integers, Sequences

CONSTANTS
  TILE_SIZE,      \* keys per tile (the code has one for each kind of launch)
  NUM_SEGMENTS,   \* segments of a split launch
  BLOCK_M,        \* query rows (token, head) of one program (block_m)
  QueriesPerKv,   \* query heads of one kv head
  SINKS, TAIL,    \* as in KvInt4; 0 turns them off
  Rows3D,         \* rows_3d: query tokens the partials have room for
  MAX_QLEN_3D,    \* query tokens of a request in a split launch
  MaxSeqs,        \* bound: requests of a launch
  MaxTokens,      \* bound: query tokens of a launch
  MaxLen,         \* bound: keys of a request
  Stale           \* what an earlier launch left was made of

ASSUME SplitAssumption ==
  /\ TILE_SIZE \in Nat \ {0} /\ NUM_SEGMENTS \in Nat \ {0}
  /\ QueriesPerKv \in Nat \ {0} /\ BLOCK_M \in Nat /\ BLOCK_M >= QueriesPerKv
  /\ SINKS \in Nat /\ TAIL \in Nat
  /\ Rows3D \in Nat \ {0} /\ MAX_QLEN_3D \in Nat \ {0}
  /\ MaxSeqs \in Nat \ {0} /\ MaxTokens \in Nat \ {0} /\ MaxLen \in Nat \ {0}

VARIABLES
  phase,  \* "idle", "run" or "done"
  seqs,   \* the launch's requests: first query row, query tokens, keys
  split,  \* use_3d
  left,   \* programs that have not run
  segm,   \* the partials: query row -> head -> segment
  out     \* the result: query row -> head

vars == <<phase, seqs, split, left, segm, out>>

Heads == 0 .. QueriesPerKv - 1
Segments == 0 .. NUM_SEGMENTS - 1
SegmRows == 0 .. Rows3D - 1
OutRows == 0 .. MaxTokens - 1

(* What a partial result is made of. *)
Reads == [segment : Segments, pass : {"sinks", "body", "tail"}, pos : Nat,
          loaded : BOOLEAN, sink : BOOLEAN, tail : BOOLEAN]

ASSUME StaleAssumption == Stale \notin Reads

NumTokens == IF seqs = <<>> THEN 0 ELSE seqs[Len(seqs)].start + seqs[Len(seqs)].q

CDiv(a, b) == (a + b - 1) \div b
Least(a, b) == IF a < b THEN a ELSE b
Most(a, b) == IF a < b THEN b ELSE a

(* attention: whole tokens of a kv head's queries per program. *)
BLOCK_Q == BLOCK_M \div QueriesPerKv

(* Mutant: short queries are split however many there are. *)
UseSplitIfShort(b) == \A i \in DOMAIN b : b[i].q <= MAX_QLEN_3D

(* attention: decode and draft verification go through the partials. *)
UseSplit(b) ==
  /\ \A i \in DOMAIN b : b[i].q <= MAX_QLEN_3D
  /\ b[Len(b)].start + b[Len(b)].q <= Rows3D

Init ==
  /\ phase = "idle" /\ seqs = <<>> /\ split = FALSE /\ left = {}
  /\ segm = [r \in SegmRows |-> [h \in Heads |-> [s \in Segments |-> {Stale}]]]
  /\ out = [r \in OutRows |-> [h \in Heads |-> {Stale}]]
-----------------------------------------------------------------------------
(* The grid *)

Requests == [start : 0 .. MaxTokens, q : 0 .. MaxTokens, len : 0 .. MaxLen]

(* cu_seqlens_q and seqused_k: consecutive rows, no more queries than keys; a
   request without either pads the batch of a captured graph. *)
Batches ==
  {b \in UNION {[1 .. n -> Requests] : n \in 1 .. MaxSeqs} :
     /\ b[1].start = 0 /\ b[Len(b)].start + b[Len(b)].q <= MaxTokens
     /\ \A i \in DOMAIN b : b[i].q <= b[i].len /\ (b[i].q = 0 => b[i].len = 0)
     /\ \A i \in 1 .. Len(b) - 1 : b[i + 1].start = b[i].start + b[i].q}

Blocks == 0 .. (NumTokens \div BLOCK_Q) + Len(seqs) - 1

(* resolve_seq_and_query_len: the request of a query block and the block's
   place in it. *)
FirstBlock(i) == (seqs[i].start \div BLOCK_Q) + i - 1
SeqOf(g) == CHOOSE i \in DOMAIN seqs : /\ FirstBlock(i) <= g
                                       /\ \A j \in DOMAIN seqs : j > i => FirstBlock(j) > g
LocalBlock(g) == g - FirstBlock(SeqOf(g))

(* The query tokens and heads of a program's rows; BLOCK_M need not be a
   multiple of the heads, so that the last rows are of the next block. *)
RowToken(b, m) == b * BLOCK_Q + (m \div QueriesPerKv)
RowHead(m) == m % QueriesPerKv
RowsOf(x, b) == {m \in 0 .. BLOCK_M - 1 : RowToken(b, m) < x.q}
-----------------------------------------------------------------------------
(* The keys of one program *)

TilesPerSegment(x) == CDiv(x.len, NUM_SEGMENTS * TILE_SIZE)

(* A program without keys of its own stores nothing. *)
HasKeys(x, s) == ~split \/ s * TilesPerSegment(x) * TILE_SIZE < x.len

(* compute_tile_loop_bounds *)
MaxPrefix(x, b) == Least((x.len - x.q) + b * BLOCK_Q + ((BLOCK_M - 1) \div QueriesPerKv) + 1, x.len)
LoopLo(x, s) == IF split THEN s * TilesPerSegment(x) ELSE 0
LoopHi(x, b, s) ==
  LET tiles == CDiv(MaxPrefix(x, b), TILE_SIZE)
  IN IF split THEN Least((s + 1) * TilesPerSegment(x), tiles) ELSE tiles

(* Mutant: only tiles that lie in the tail window. *)
TailStartRoundedUp(x, hi) == IF TAIL > 0 THEN Most(CDiv(x.len - TAIL, TILE_SIZE), 0) ELSE hi

(* The first tile that overlaps the tail window. *)
TailStart(x, hi) == IF TAIL > 0 THEN Most((x.len - TAIL) \div TILE_SIZE, 0) ELSE hi

SinkTiles(x, lo, hi) == IF SINKS > 0 /\ lo = 0 /\ hi > 0 /\ TailStart(x, hi) > 0 THEN {0} ELSE {}

(* Mutant: j_lo is not moved past tile 0. *)
RestFromLo(x, lo, hi) == lo

(* j_lo *)
RestFrom(x, lo, hi) == IF SinkTiles(x, lo, hi) # {} THEN 1 ELSE lo

BodyTiles(x, lo, hi) == RestFrom(x, lo, hi) .. Least(hi, TailStart(x, hi)) - 1

TailTiles(x, lo, hi) ==
  IF TAIL > 0 THEN Most(RestFrom(x, lo, hi), TailStart(x, hi)) .. hi - 1 ELSE {}

Passes(x, lo, hi) ==
  {<<"sinks", j>> : j \in SinkTiles(x, lo, hi)}
  \union {<<"body", j>> : j \in BodyTiles(x, lo, hi)}
  \union {<<"tail", j>> : j \in TailTiles(x, lo, hi)}

(* Mutant: a query sees all keys of its block. *)
UpToBlock(x, b, t) == MaxPrefix(x, b) - 1

(* query_abs: the last key a query token sees. *)
QueryAbs(x, b, t) == (x.len - x.q) + t

(* _attn_tile: a read of position pos in pass w, with the exact copies it may
   take and whether its key is loaded at all. *)
KeyRead(x, b, s, w, pos) ==
  [segment |-> s, pass |-> w, pos |-> pos,
   loaded |-> pos < MaxPrefix(x, b),
   sink |-> w # "body" /\ pos < SINKS,
   tail |-> w = "tail" /\ pos >= x.len - TAIL]

(* What token t of block b collects in segment s. *)
Collected(x, b, s, t) ==
  UNION {{KeyRead(x, b, s, w[1], pos) :
            pos \in {p \in w[2] * TILE_SIZE .. w[2] * TILE_SIZE + TILE_SIZE - 1 : p <= QueryAbs(x, b, t)}} :
         w \in Passes(x, LoopLo(x, s), LoopHi(x, b, s))}
-----------------------------------------------------------------------------
(* Steps *)

(* attention, up to the launch.  The partials are not cleared: what earlier
   launches left in them is marked, as is the uninitialised result. *)
Launch(b) ==
  /\ phase # "run"
  /\ seqs' = b /\ split' = UseSplit(b)
  /\ left' = Blocks' \X (IF split' THEN Segments ELSE {0})
  /\ segm' = [r \in SegmRows |-> [h \in Heads |-> [s \in Segments |-> {Stale}]]]
  /\ out' = [r \in OutRows |-> [h \in Heads |-> {Stale}]]
  /\ phase' = "run"

(* The row m of program <<g, s>>'s request that is query row r and head h. *)
Stored(g, r, h) ==
  {m \in RowsOf(seqs[SeqOf(g)], LocalBlock(g)) :
     r = seqs[SeqOf(g)].start + RowToken(LocalBlock(g), m) /\ h = RowHead(m)}

(* A program of the launch: they run in no order. *)
Program(g, s) ==
  /\ phase = "run" /\ <<g, s>> \in left
  /\ left' = left \ {<<g, s>>}
  /\ LET x == seqs[SeqOf(g)]
         b == LocalBlock(g)
         stores == b * BLOCK_Q < x.q /\ HasKeys(x, s)
         value(r) == Collected(x, b, s, r - x.start)
     IN /\ segm' = IF ~(stores /\ split) THEN segm
                   ELSE [r \in SegmRows |-> [h \in Heads |->
                           IF Stored(g, r, h) = {} THEN segm[r][h]
                           ELSE [segm[r][h] EXCEPT ![s] = value(r)]]]
        /\ out' = IF ~stores \/ split THEN out
                  ELSE [r \in OutRows |-> [h \in Heads |->
                          IF Stored(g, r, h) = {} THEN out[r][h] ELSE value(r)]]
  /\ UNCHANGED <<phase, seqs, split>>

(* reduce_segments: the segments of the request that have keys. *)
Joined(x) == {s \in Segments : s < CDiv(x.len, TilesPerSegment(x) * TILE_SIZE)}

RequestOf(r) == seqs[CHOOSE i \in DOMAIN seqs : seqs[i].start <= r /\ r < seqs[i].start + seqs[i].q]

Reduce ==
  /\ phase = "run" /\ left = {} /\ split
  /\ out' = [r \in OutRows |-> [h \in Heads |->
       IF r >= NumTokens THEN out[r][h]
       ELSE UNION {segm[r][h][s] : s \in Joined(RequestOf(r))}]]
  /\ phase' = "done"
  /\ UNCHANGED <<seqs, split, left, segm>>

(* Without a split the launch itself stores the result. *)
Finish ==
  /\ phase = "run" /\ left = {} /\ ~split
  /\ phase' = "done"
  /\ UNCHANGED <<seqs, split, left, segm, out>>

Next ==
  \/ \E b \in Batches : Launch(b)
  \/ \E p \in left : Program(p[1], p[2])
  \/ Reduce \/ Finish

Spec == Init /\ [][Next]_vars
-----------------------------------------------------------------------------
(* Properties *)

(* Every variable keeps its type, and a split launch has rows for its tokens. *)
TypeOK ==
  /\ phase \in {"idle", "run", "done"} /\ split \in BOOLEAN
  /\ left \subseteq Blocks \X Segments
  /\ NumTokens <= MaxTokens /\ (split => NumTokens <= Rows3D)
  /\ \A r \in SegmRows, h \in Heads, s \in Segments :
       segm[r][h][s] = {Stale} \/ segm[r][h][s] \subseteq Reads
  /\ \A r \in OutRows, h \in Heads : out[r][h] \subseteq Reads \union {Stale}

(* The finished rows: request, query token and what its result was made of. *)
Results ==
  {w \in (DOMAIN seqs) \X (0 .. MaxTokens - 1) \X Heads : phase = "done" /\ w[2] < seqs[w[1]].q}
Result(w) == out[seqs[w[1]].start + w[2]][w[3]]

(* Every query row is computed, from this launch's partials only, and every key
   it may see counts once: in one segment, one pass and one tile. *)
EachKeyOnce ==
  \A w \in Results :
    LET last == (seqs[w[1]].len - seqs[w[1]].q) + w[2]
    IN /\ Stale \notin Result(w)
       /\ {read.pos : read \in Result(w)} = 0 .. last
       /\ \A a, b \in Result(w) : a.pos = b.pos => a = b
       /\ \A a \in Result(w) : a.loaded

(* The three passes take the exact copies where KvInt4's DecodeRead does, at the
   first SINKS and the newest TAIL positions, whatever tile and segment they
   fall in.  Only tile 0 has a pass for sinks of its own, so that the sinks have
   to fit in it. *)
ExactWhereDue ==
  SINKS <= TILE_SIZE =>
    \A w \in Results : \A a \in Result(w) :
      /\ a.sink = (a.pos < SINKS)
      /\ a.tail = (a.pos >= seqs[w[1]].len - TAIL)

(* Two programs that store one row (the last rows of a query block and the first
   of the next) store the same, so that their order does not matter. *)
StoresAgree ==
  [][phase = "run" /\ phase' = "run" =>
       /\ \A r \in SegmRows, h \in Heads, s \in Segments :
            segm[r][h][s] # {Stale} => segm'[r][h][s] = segm[r][h][s]
       /\ \A r \in OutRows, h \in Heads : out[r][h] # {Stale} => out'[r][h] = out[r][h]]_vars
=============================================================================
