----------------------------- MODULE GdnMetadata -----------------------------
(***************************************************************************)
(* GDNAttentionMetadataBuilder of patches/vllm-0.28.0-rdna4/gdn_attn.py.    *)
(* Every group of linear-attention layers has a builder of its own, with    *)
(* persistent buffers that the captured CUDA graphs of its layers read.     *)
(* In a step the first group builds its metadata; each other group takes    *)
(* that metadata over (update_block_table) and replaces only what its own   *)
(* block table says, unless the batch has prefills.                         *)
(*                                                                          *)
(* A batch is a sequence of rows, one per request, padded at the back with  *)
(* rows of length 0 up to the size of a captured graph.  A request's state  *)
(* blocks in group g are <<g, request, 0>>, <<g, request, 1>>, ...  Tensors  *)
(* are sequences, None is <<>>.  Not modelled: the chunk indices and the    *)
(* causal-conv1d metadata, functions of the prefill query starts.           *)
(***************************************************************************)
EXTENDS Integers, Sequences, FiniteSets, SequencesExt

CONSTANTS
  NumGroups,   \* builders, 1 .. NumGroups
  Requests,    \* requests that may be in a batch
  Pad,         \* the request of a padding or dummy row
  NULL_BLOCK,  \* NULL_BLOCK_ID
  Garbage,     \* what torch.empty holds
  MaxSpec,     \* bound: num_speculative_tokens
  Sizes,       \* [bs |-> decode_cudagraph_max_bs, rows |-> bound: requests, and rows of a batch]
  MaxChunk     \* bound: tokens of a prefill chunk

ASSUME GdnAssumption ==
  /\ NumGroups \in Nat \ {0} /\ MaxSpec \in Nat /\ MaxChunk \in Nat \ {0}
  /\ Sizes \subseteq [bs : Nat \ {0}, rows : Nat \ {0}]
  /\ Pad \notin Requests

VARIABLES
  num_spec,  \* num_speculative_tokens, 0 without speculative decoding
  size,   \* one of Sizes
  known,  \* the requests there are
  full,   \* use_full_cuda_graph
  batch,  \* the step's rows: [req, q, draft, acc, started]
  done,   \* groups whose metadata is ready, 1 .. done
  mds,    \* group -> its GDNAttentionMetadata
  bufs    \* group -> the persistent buffers of its builder

vars == <<size, known, num_spec, full, batch, done, mds, bufs>>

Groups == 1 .. NumGroups

NoMetadata ==
  [prefills |-> 0, decodes |-> 0, specs |-> 0, specTokens |-> 0,
   specState |-> <<>>, specMask |-> <<>>, specTok |-> <<>>, specStart |-> <<>>,
   accepted |-> <<>>, state |-> <<>>, tok |-> <<>>, start |-> <<>>,
   prefillStart |-> <<>>, prefillState |-> <<>>, prefillStarted |-> <<>>,
   size |-> 0, usedSpec |-> FALSE, usedDecode |-> FALSE]

Filled(n) == [i \in 1 .. n |-> Garbage]

(* __init__: torch.empty. *)
NewBuffers ==
  [specState |-> Filled(size.bs), specMask |-> Filled(size.bs),
   specTok |-> Filled(size.bs * (num_spec + 1)), tok |-> Filled(size.bs * (num_spec + 1)),
   specStart |-> Filled(size.bs + 1), accepted |-> Filled(size.bs),
   state |-> Filled(size.bs), start |-> Filled(size.bs + 1)]

Init ==
  /\ size \in Sizes /\ known \in kSubset(size.rows, Requests)
  /\ num_spec \in 0 .. MaxSpec /\ full \in BOOLEAN
  /\ batch = <<>> /\ done = 0
  /\ mds = [g \in Groups |-> NoMetadata]
  /\ bufs = [g \in Groups |-> NewBuffers]
-----------------------------------------------------------------------------
(* Tensors *)

Lens(rows) == [i \in DOMAIN rows |-> rows[i].q]

Sums(lens) ==
  LET sum[i \in 0 .. Len(lens)] == IF i = 0 THEN 0 ELSE sum[i - 1] + lens[i]
  IN sum

(* query_start_loc of rows of these lengths. *)
Starts(lens) == [i \in 1 .. Len(lens) + 1 |-> Sums(lens)[i - 1]]

NumTokens(rows) == Sums(Lens(rows))[Len(rows)]

(* Row i's tokens, and the row of token t. *)
TokensOf(rows, i) == Sums(Lens(rows))[i - 1] .. Sums(Lens(rows))[i] - 1
RowOf(rows, t) == CHOOSE i \in DOMAIN rows : t \in TokensOf(rows, i)

(* The block table of group g: a row's state blocks; a padding row's are null. *)
BlockRow(g, r) == [j \in 1 .. num_spec + 1 |-> IF r.req = Pad THEN NULL_BLOCK ELSE <<g, r.req, j - 1>>]
BlockTable(g, rows) == [i \in DOMAIN rows |-> BlockRow(g, rows[i])]
FirstColumn(bt) == [i \in DOMAIN bt |-> bt[i][1]]

(* The k-th of a set of indices, and s[mask], the elements it selects, in order. *)
Nth(mask, k) == CHOOSE i \in mask : Cardinality({j \in mask : j <= i}) = k
Masked(s, mask) == [k \in 1 .. Cardinality(mask) |-> s[Nth(mask, k)]]

(* buf[:n], which a slice past the end cuts short. *)
View(buf, n) == [i \in 1 .. IF n < Len(buf) THEN n ELSE Len(buf) |-> buf[i]]

(* buf[:Len(vals)].copy_(vals) *)
CopyInto(buf, vals) == [i \in DOMAIN buf |-> IF i <= Len(vals) THEN vals[i] ELSE buf[i]]

(* buf[:Len(vals)].copy_(vals); buf[:n][Len(vals):].fill_(v) *)
CopyAndFill(buf, vals, n, v) ==
  [i \in DOMAIN buf |-> IF i <= Len(vals) THEN vals[i] ELSE IF i <= n THEN v ELSE buf[i]]
-----------------------------------------------------------------------------
(* build *)

(* A step is speculative when some request has a draft to verify. *)
Speculative(rows) == num_spec > 0 /\ \E i \in DOMAIN rows : rows[i].draft > 0

IsSpec(row) == row.draft >= 0
SpecMask(rows) == {i \in DOMAIN rows : IsSpec(rows[i])}
OtherMask(rows) == DOMAIN rows \ SpecMask(rows)
SpecRows(rows) == Masked(rows, SpecMask(rows))
OtherRows(rows) == Masked(rows, OtherMask(rows))

(* split_decodes_and_prefills: the rows before the first of more than one token. *)
FrontDecodes(rows) ==
  IF \A i \in DOMAIN rows : rows[i].q <= 1 THEN Len(rows)
  ELSE (CHOOSE i \in DOMAIN rows : rows[i].q > 1 /\ \A j \in 1 .. i - 1 : rows[j].q <= 1) - 1

(* num_prefills, num_decodes, num_spec_decodes; in a speculative step the
   one-token rows of other requests count as prefills, empty rows as nothing. *)
Counts(rows) ==
  IF Speculative(rows)
  THEN [prefills |-> Cardinality({i \in OtherMask(rows) : rows[i].q > 0}),
        decodes |-> 0, specs |-> Cardinality(SpecMask(rows))]
  ELSE [prefills |-> Len(rows) - FrontDecodes(rows), decodes |-> FrontDecodes(rows), specs |-> 0]

(* The tokens of the step, those of other rows first, each in order. *)
TokenOrder(rows) ==
  LET all == [t \in 1 .. NumTokens(rows) |-> t - 1]
      spec == {t \in DOMAIN all : RowOf(rows, all[t]) \in SpecMask(rows)}
  IN Masked(all, DOMAIN all \ spec) \o Masked(all, spec)

(* The speculative and the other part of the batch. *)
Parts(g, rows) ==
  LET bt == BlockTable(g, rows)
      c == Counts(rows)
      spec == SpecRows(rows)
      others == OtherRows(rows)
      numOther == NumTokens(others)
      accepted == [i \in DOMAIN spec |-> spec[i].acc]
      common == [NoMetadata EXCEPT !.prefills = c.prefills, !.decodes = c.decodes,
                                   !.specs = c.specs, !.size = Len(rows)]
  IN IF ~Speculative(rows)
     THEN [common EXCEPT !.state = FirstColumn(bt), !.start = Starts(Lens(rows))]
     ELSE LET withSpec == [common EXCEPT !.specState = BlockTable(g, spec),
                             !.specMask = [i \in DOMAIN rows |-> IsSpec(rows[i])],
                             !.specTokens = NumTokens(spec), !.accepted = accepted]
          IN IF c.prefills = 0 /\ c.decodes = 0
             THEN [withSpec EXCEPT
                     !.specTok = [t \in 1 .. NumTokens(rows) |-> t - 1],
                     !.specStart = SubSeq(Starts(Lens(rows)), 1, c.specs + 1)]
             ELSE [withSpec EXCEPT
                     !.tok = SubSeq(TokenOrder(rows), 1, numOther),
                     !.specTok = SubSeq(TokenOrder(rows), numOther + 1, NumTokens(rows)),
                     !.specStart = Starts(Lens(spec)),
                     !.state = FirstColumn(BlockTable(g, others)),
                     !.start = Starts(Lens(others))]

(* Inputs of the chunk kernels.  Beside decodes, the prefills' own starts. *)
WithPrefills(rows, md) ==
  IF md.prefills = 0 THEN md
  ELSE LET kept == IF md.specs > 0 THEN OtherRows(rows) ELSE rows
           started == [i \in DOMAIN kept |-> kept[i].started]
           front == IF md.specs = 0 THEN md.decodes ELSE 0
       IN [md EXCEPT
             !.prefillStart = [i \in 1 .. Len(md.start) - front |-> md.start[front + i] - md.start[front + 1]],
             !.prefillState = SubSeq(md.state, front + 1, Len(md.state)),
             !.prefillStarted = SubSeq(started, front + 1, Len(started))]

(* Which persistent buffers the metadata goes through. *)
UsesSpecBuffers(md) ==
  full /\ md.prefills = 0 /\ md.decodes = 0 /\ md.specs <= size.bs /\ md.specTokens <= size.bs

(* Mutant: however many decodes there are. *)
UsesDecodeBuffersUnbounded(md) == full /\ md.prefills = 0 /\ md.specs = 0

UsesDecodeBuffers(md) ==
  full /\ md.prefills = 0 /\ md.specs = 0 /\ md.decodes <= size.bs

(* The buffers after the copies of build. *)
Persist(buf, md) ==
  IF UsesSpecBuffers(md)
  THEN [buf EXCEPT
          !.specState = CopyAndFill(@, md.specState, md.size, BlockRow(1, [req |-> Pad])),
          !.specMask = CopyAndFill(@, SubSeq(md.specMask, 1, md.specs), md.size, FALSE),
          !.tok = CopyInto(@, md.tok), !.specTok = CopyInto(@, md.specTok),
          !.specStart = CopyAndFill(@, md.specStart, md.size + 1, Last(md.specStart)),
          !.accepted = CopyAndFill(@, md.accepted, md.size, 1)]
  ELSE IF UsesDecodeBuffers(md)
  THEN [buf EXCEPT
          !.state = CopyAndFill(@, SubSeq(md.state, 1, md.decodes), md.size, NULL_BLOCK),
          !.start = CopyAndFill(@, SubSeq(md.start, 1, md.decodes + 1), md.size + 1, Last(md.start))]
  ELSE buf

(* The metadata whose tensors are views of the buffers. *)
Viewed(buf, md) ==
  IF UsesSpecBuffers(md)
  THEN [md EXCEPT !.usedSpec = TRUE,
          !.specState = View(buf.specState, md.size),
          !.specMask = View(buf.specMask, md.size),
          !.tok = View(buf.tok, Len(md.tok)),
          !.specTok = View(buf.specTok, Len(md.specTok)),
          !.specStart = View(buf.specStart, md.size + 1),
          !.accepted = View(buf.accepted, md.size)]
  ELSE IF UsesDecodeBuffers(md)
  THEN [md EXCEPT !.usedDecode = TRUE,
          !.state = View(buf.state, md.size),
          !.start = View(buf.start, md.size + 1)]
  ELSE md

(* build for group g: its metadata, and the buffers of its builder. *)
Built(g, rows, buf) ==
  LET md == WithPrefills(rows, Parts(g, rows))
      new == Persist(buf, md)
  IN [buf |-> new, md |-> Viewed(new, md)]
-----------------------------------------------------------------------------
(* update_block_table *)

(* Mutant: the number of accepted drafts stays that of an earlier step. *)
MirroredNotAccepted(g, rows, md, buf) ==
  [buf EXCEPT
     !.specState = CopyAndFill(@, SubSeq(BlockTable(g, rows), 1, md.specs), md.size,
                               BlockRow(1, [req |-> Pad])),
     !.specMask = CopyInto(@, md.specMask), !.specTok = CopyInto(@, md.specTok),
     !.tok = CopyInto(@, md.tok), !.specStart = CopyInto(@, md.specStart)]

(* Mutant: rows past the batch keep the blocks of an earlier step. *)
MirroredUnfilled(g, rows, md, buf) ==
  [buf EXCEPT
     !.specState = CopyInto(@, SubSeq(BlockTable(g, rows), 1, md.specs)),
     !.specMask = CopyInto(@, md.specMask), !.specTok = CopyInto(@, md.specTok),
     !.tok = CopyInto(@, md.tok), !.specStart = CopyInto(@, md.specStart),
     !.accepted = CopyInto(@, md.accepted)]

(* This builder's buffers, filled from the metadata of another one. *)
MirroredSpec(g, rows, md, buf) ==
  [buf EXCEPT
     !.specState = CopyAndFill(@, SubSeq(BlockTable(g, rows), 1, md.specs), md.size,
                               BlockRow(1, [req |-> Pad])),
     !.specMask = CopyInto(@, md.specMask), !.specTok = CopyInto(@, md.specTok),
     !.tok = CopyInto(@, md.tok), !.specStart = CopyInto(@, md.specStart),
     !.accepted = CopyInto(@, md.accepted)]

MirroredDecode(g, rows, md, buf) ==
  [buf EXCEPT
     !.state = CopyAndFill(@, SubSeq(FirstColumn(BlockTable(g, rows)), 1, md.decodes), md.size, NULL_BLOCK),
     !.start = CopyInto(@, md.start)]

(* Prefills (and an empty batch) are built again. *)
NeedsBuild(md) == md.prefills > 0 \/ (md.specs = 0 /\ md.decodes = 0)

(* What update_block_table returns to group g, and leaves in its buffers. *)
Updated(g, rows, md, buf) ==
  LET bt == BlockTable(g, rows)
      sb == MirroredSpec(g, rows, md, buf)
      db == MirroredDecode(g, rows, md, buf)
  IN CASE NeedsBuild(md) -> Built(g, rows, buf)
       [] ~NeedsBuild(md) /\ md.specs > 0 /\ md.usedSpec ->
            [buf |-> sb,
             md |-> [md EXCEPT !.specState = View(sb.specState, md.size),
                       !.specMask = View(sb.specMask, Len(md.specMask)),
                       !.specTok = View(sb.specTok, Len(md.specTok)),
                       !.tok = View(sb.tok, Len(md.tok)),
                       !.specStart = View(sb.specStart, Len(md.specStart)),
                       !.accepted = View(sb.accepted, Len(md.accepted))]]
       [] ~NeedsBuild(md) /\ md.specs > 0 /\ ~md.usedSpec ->
            [buf |-> buf, md |-> [md EXCEPT !.specState = SubSeq(bt, 1, md.specs)]]
       [] ~NeedsBuild(md) /\ md.specs = 0 /\ md.usedDecode ->
            [buf |-> db,
             md |-> [md EXCEPT !.state = View(db.state, md.size),
                               !.start = View(db.start, Len(md.start))]]
       [] OTHER -> [buf |-> buf, md |-> [md EXCEPT !.state = FirstColumn(bt)]]
-----------------------------------------------------------------------------
(* Steps *)

(* What the runner may say of a request: a prompt chunk (or the last token of a
   request without drafts), or the last token and its drafts to verify. *)
Shapes ==
  [q : 1 .. MaxChunk, draft : {-1}, acc : {1}, started : BOOLEAN]
  \union {[q |-> d + 1, draft |-> d, acc |-> a, started |-> TRUE] :
            d \in 0 .. num_spec, a \in 1 .. num_spec + 1}

Row(r, shape) ==
  [req |-> r, q |-> shape.q, draft |-> shape.draft, acc |-> shape.acc, started |-> shape.started]

PadRow == [req |-> Pad, q |-> 0, draft |-> -1, acc |-> 1, started |-> FALSE]

(* A batch of equal full-length decodes may be padded to a captured size. *)
Uniform(rows) == \A i \in DOMAIN rows : rows[i].draft = num_spec
Padded(rows, n) ==
  IF n > 0 THEN rows \o [i \in 1 .. n |-> PadRow] ELSE rows
Paddings(rows) ==
  {0} \union {n \in 1 .. size.rows : /\ full /\ Uniform(rows)
                                  /\ (Len(rows) + n) * (num_spec + 1) <= size.bs}

(* The runner's batch; the first group builds its metadata from it. *)
BuildFirst(rows) ==
  /\ done = 0
  /\ batch' = rows /\ done' = 1
  /\ LET new == Built(1, rows, bufs[1])
     IN mds' = [mds EXCEPT ![1] = new.md] /\ bufs' = [bufs EXCEPT ![1] = new.buf]
  /\ UNCHANGED <<size, known, num_spec, full>>

(* Another group takes over the metadata of the first. *)
UpdateBlockTable ==
  /\ done \in 1 .. NumGroups - 1
  /\ LET g == done + 1
         new == Updated(g, batch, mds[1], bufs[g])
     IN mds' = [mds EXCEPT ![g] = new.md] /\ bufs' = [bufs EXCEPT ![g] = new.buf]
  /\ done' = done + 1
  /\ UNCHANGED <<size, known, num_spec, full, batch>>

(* The layers have run. *)
Forward ==
  /\ done = NumGroups
  /\ done' = 0 /\ batch' = <<>>
  /\ mds' = [g \in Groups |-> NoMetadata]
  /\ UNCHANGED <<size, known, num_spec, full, bufs>>

(* build_for_cudagraph_capture of n dummy requests: every group builds. *)
Capture(n) ==
  /\ full /\ done = 0 /\ n * (num_spec + 1) <= size.bs
  /\ LET rows == [i \in 1 .. n |-> [PadRow EXCEPT !.q = num_spec + 1, !.draft = num_spec,
                                                  !.acc = num_spec + 1]]
     IN bufs' = [g \in Groups |-> Built(g, rows, bufs[g]).buf]
  /\ UNCHANGED <<size, known, num_spec, full, batch, done, mds>>

Orders == {o \in UNION {[1 .. n -> known] : n \in 1 .. size.rows} :
             \A i, j \in DOMAIN o : o[i] = o[j] => i = j}

Next ==
  \/ \E o \in Orders : \E shapes \in [DOMAIN o -> Shapes] :
       LET rows == [i \in DOMAIN o |-> Row(o[i], shapes[i])]
       IN \E n \in Paddings(rows) : BuildFirst(Padded(rows, n))
  \/ UpdateBlockTable
  \/ Forward
  \/ \E n \in 1 .. size.rows : Capture(n)

Spec == Init /\ [][Next]_vars
-----------------------------------------------------------------------------
(* What the layers of group g do *)

(* A captured graph reads the builder's buffers, an eager step the metadata. *)
Read(g) == Viewed(bufs[g], mds[g])

Between(starts, k) == starts[k] .. starts[k + 1] - 1

(* Each kernel advances states over tokens: all draft states of a request over
   the tokens to verify, one state over the rest. *)
SpecWork(md) ==
  {[state |-> md.specState[k], acc |-> md.accepted[k],
    tokens |-> {md.specTok[i + 1] : i \in Between(md.specStart, k)}] :
     k \in 1 .. IF md.usedSpec THEN md.size ELSE md.specs}

DecodeWork(md) ==
  {[state |-> md.state[k], tokens |-> Between(md.start, k)] : k \in 1 .. md.decodes}

PrefillWork(md) ==
  {[state |-> md.prefillState[k], started |-> md.prefillStarted[k],
    tokens |-> IF md.specs > 0 THEN {md.tok[i + 1] : i \in Between(md.prefillStart, k)}
               ELSE {md.start[md.decodes + 1] + i : i \in Between(md.prefillStart, k)}] :
     k \in 1 .. Len(md.prefillState)}
-----------------------------------------------------------------------------
(* Properties *)

(* The shapes fit: no copy into a persistent buffer is longer than the buffer,
   and a graph of md.size requests finds md.size of them. *)
TypeOK ==
  /\ size \in Sizes /\ num_spec \in 0 .. MaxSpec /\ full \in BOOLEAN /\ done \in 0 .. NumGroups
  /\ \A g \in 1 .. done :
       /\ mds[g].usedSpec => Len(mds[g].specState) = Len(batch) /\ Len(mds[g].specStart) = Len(batch) + 1
       /\ mds[g].usedDecode => Len(mds[g].state) = Len(batch) /\ Len(mds[g].start) = Len(batch) + 1

(* In every group, every token of the batch advances its own request's state and
   no other, by the kernel its request calls for: draft rows with the number
   accepted before, prefills from the right initial state; a padding row has no
   tokens and only the null block. *)
EachTokenOnItsState ==
  \A g \in 1 .. done :
    LET rows == batch
        md == Read(g)
        drafted(i) == Speculative(rows) /\ (IsSpec(rows[i]) \/ (rows[i].req = Pad /\ md.usedSpec))
    IN /\ SpecWork(md) = {[state |-> BlockRow(g, rows[i]), acc |-> rows[i].acc,
                           tokens |-> TokensOf(rows, i)] : i \in {i \in DOMAIN rows : drafted(i)}}
       /\ DecodeWork(md) \union {[state |-> w.state, tokens |-> w.tokens] : w \in PrefillWork(md)}
            = {[state |-> BlockRow(g, rows[i])[1], tokens |-> TokensOf(rows, i)] :
                 i \in {i \in DOMAIN rows : ~Speculative(rows) \/ (~IsSpec(rows[i]) /\ rows[i].req # Pad)}}
       /\ \A w \in PrefillWork(md) : \E i \in DOMAIN rows :
            w.tokens = TokensOf(rows, i) /\ w.started = rows[i].started
       /\ \A w \in DecodeWork(md) : Cardinality(w.tokens) <= 1

(* "Reuse another GDN group's build for this step; only the state indices differ":
   what a group gets from update_block_table, and what it leaves in its buffers,
   is what its own build would have given. *)
SharingIsRebuilding ==
  [][\A g \in 2 .. NumGroups : done = g - 1 /\ done' = g =>
       [buf |-> bufs'[g], md |-> mds'[g]] = Built(g, batch, bufs[g])]_vars
=============================================================================
