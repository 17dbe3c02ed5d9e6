--------------------------- MODULE LinearDispatch ---------------------------
(***************************************************************************)
(* exl3rocm/ops.py over a module that GroupWeights loaded: linear_groups,   *)
(* which chooses the kernels by the number of rows, and the drafter's head  *)
(* of plugin.py, which runs two of the three groups of a split lm_head.     *)
(*                                                                          *)
(* A call's result is what each output column was computed from: the        *)
(* trellis column, the output scale (svh), the input scales (suh), the      *)
(* bitrate K it was decoded with, and the number of split-K waves, on which *)
(* the rounding of a GEMV depends (0: reconstruction and hgemm).  All rows  *)
(* of a call are computed alike.                                            *)
(***************************************************************************)
EXTENDS GroupWeights

CONSTANTS
  Extensions,     \* [mr, grouped, Ks]: what exllamav3_ext may offer
  GEMM_MAX_ROWS,  \* rows a single group takes through exl3_gemm
  MR_MAX,         \* rows the multi-row GEMV takes
  MaxRows,        \* bound: rows of a call
  Vocab           \* config.vocab_size, in blocks

ASSUME DispatchAssumption ==
  /\ GEMM_MAX_ROWS \in Nat \ {0} /\ MR_MAX \in Nat /\ MaxRows \in Nat \ {0}
  /\ Vocab \in Nat

VARIABLES
  E,      \* the extension, <<>> until ext() first imports it
  call,   \* the last call: [op, rows, route, y, tops]
  graphs  \* generations of the reconstruction buffer in captured graphs

vars == <<wvars, E, call, graphs>>
-----------------------------------------------------------------------------
Unwritten == [t |-> <<0, 0>>, s |-> <<0, 0>>, h |-> 0, K |-> 0, waves |-> 0]
NegInf == [t |-> <<0, -1>>, s |-> <<0, -1>>, h |-> 0, K |-> 0, waves |-> 0]

(* A deleted buffer's address holds nothing the module knows.               *)
At(a) == IF a \in DOMAIN heap THEN heap[a] ELSE Empty(0)

(* Columns 0 .. w - 1 of x @ W for the tensors at the addresses t, s, h.     *)
Gemv(t, s, h, w, K, waves) ==
  [c \in 0 .. w - 1 |->
     [t |-> <<At(t).of, At(t).lo + c>>, s |-> <<At(s).of, At(s).lo + c>>,
      h |-> At(h).of, K |-> K, waves |-> waves]]

(* reconstruct_slice from column n0 on, hgemm into y[:, n0 : n1].            *)
SliceFrom(n0) == n0

Recon(t, s, h, w, K) ==
  LET Start(c) == (c \div SliceN) * SliceN
  IN [c \in 0 .. w - 1 |->
        [t |-> <<At(t).of, At(t).lo + SliceFrom(Start(c)) + c - Start(c)>>,
         s |-> <<At(s).of, At(s).lo + c>>, h |-> At(h).of, K |-> K, waves |-> 0]]

(* y with columns written from n0 on.                                       *)
Put(y, n0, cols) ==
  [c \in DOMAIN y |-> IF c - n0 \in DOMAIN cols THEN cols[c - n0] ELSE y[c]]

Sums(widths) ==
  LET s[i \in 0 .. Len(widths)] == IF i = 0 THEN 0 ELSE s[i - 1] + widths[i]
  IN s

Total(widths) == Sums(widths)[Len(widths)]

(* The first of group i's columns.                                          *)
Before(widths, i) == Sums(widths)[i - 1]

MrSupported(rows, K) == rows <= MR_MAX /\ E.mr /\ K \in E.Ks

(* Groups gs of the module, in that order: one matrix each.                 *)
WidthsOf(gs) == [i \in DOMAIN gs |-> layer.n[gs[i]]]

Single(gs, i, waves) ==
  LET g == gs[i]
  IN Gemv(layer.trellis[g], layer.svh[g], layer.suh[g], layer.n[g], layer.K[g], waves)

SingleRecon(gs, i) ==
  LET g == gs[i]
  IN Recon(layer.trellis[g], layer.svh[g], layer.suh[g], layer.n[g], layer.K[g])

(* exl3_linear                                                              *)
LinearRoute(rows, K) ==
  IF rows <= GEMM_MAX_ROWS THEN "gemm"
  ELSE IF MrSupported(rows, K) THEN "mr" ELSE "recon"

Linear(gs, i, rows) ==
  IF LinearRoute(rows, layer.K[gs[i]]) = "recon" THEN SingleRecon(gs, i) ELSE Single(gs, i, 1)

(* The run of groups from i on that one grouped launch computes: at most    *)
(* four, of equal K and width.                                              *)
RunLength(gs, i) ==
  Max({len \in 1 .. Smaller(4, Len(gs) - i + 1) :
         \A j \in i .. i + len - 1 :
           j = i \/ (/\ E.grouped
                     /\ layer.K[gs[j]] = layer.K[gs[i]]
                     /\ layer.n[gs[j]] = layer.n[gs[i]])})

(* The waves of the multi-row GEMV follow the module's one-row path.        *)
BszmOne(gs, p) == 1  \* mutant

BszmForWarps(gs, p) == IF p # <<>> THEN Len(gs) ELSE 1

(* exl3_gemv_mr_grouped: the groups of the run side by side.                *)
GroupedLaunch(gs, i, len, bszm) ==
  LET w == layer.n[gs[i]]
  IN [c \in 0 .. len * w - 1 |-> Single(gs, i + c \div w, bszm)[c % w]]

Launch(gs, i, len, bszm) ==
  IF len > 1 THEN GroupedLaunch(gs, i, len, bszm) ELSE Single(gs, i, 1)

NewOutput(gs) == [c \in 0 .. Total(WidthsOf(gs)) - 1 |-> Unwritten]

(* The loops over the groups: s.i the next group, s.n0 its first column.    *)
EachRun(gs, p, s) ==
  LET len == RunLength(gs, s.i)
  IN IF s.i > Len(gs) THEN s
     ELSE [i |-> s.i + len,
           n0 |-> s.n0 + Before(WidthsOf(gs), s.i + len) - Before(WidthsOf(gs), s.i),
           y |-> Put(s.y, s.n0, Launch(gs, s.i, len, BszmForWarps(gs, p)))]

EachGroup(gs, rows, s) ==
  [i |-> s.i + 1,
   n0 |-> s.n0 + layer.n[gs[s.i]],
   y |-> Put(s.y, s.n0, IF rows = 1 THEN Single(gs, s.i, 1) ELSE Linear(gs, s.i, rows))]

FirstGroup(gs) == [i |-> 1, n0 |-> 0, y |-> NewOutput(gs)]

AfterGroups(gs, p, rows, route) ==
  LET s[k \in 0 .. Len(gs)] ==
        IF k = 0 THEN FirstGroup(gs)
        ELSE IF route = "mr" THEN EachRun(gs, p, s[k - 1]) ELSE EachGroup(gs, rows, s[k - 1])
  IN s[Len(gs)]

(* exl3_mgemm: every group in one launch, through the pointer tables.       *)
Mgemm(gs, p) ==
  LET w == layer.n[gs[1]]
  IN [c \in 0 .. Len(gs) * w - 1 |->
        LET i == c \div w + 1
        IN Gemv(p.trellis[i], p.svh[i], p.suh[i], w, layer.K[gs[1]], Len(gs))[c % w]]

Route(gs, p, rows) ==
  IF Len(gs) = 1 THEN LinearRoute(rows, layer.K[gs[1]])
  ELSE IF rows = 1 THEN IF p # <<>> THEN "mgemm" ELSE "gemm"
  ELSE IF \A i \in DOMAIN gs : MrSupported(rows, layer.K[gs[i]]) THEN "mr" ELSE "each"

(* linear_groups over groups gs, with pointer tables p.                     *)
LinearGroups(gs, p, rows) ==
  LET route == Route(gs, p, rows)
  IN IF Len(gs) = 1 THEN Linear(gs, 1, rows)
     ELSE IF route = "mgemm" THEN Mgemm(gs, p)
     ELSE AfterGroups(gs, p, rows, route).y

(* The places in gs of the groups that the call reconstructs.               *)
Reconstructed(gs, p, rows) ==
  {i \in DOMAIN gs : /\ Route(gs, p, rows) \in {"recon", "each"}
                     /\ LinearRoute(rows, layer.K[gs[i]]) = "recon"}

(* _weight_buffer: the shared buffer after the first i groups of the call.  *)
WeightBuffer(gs, p, rows) ==
  LET w[i \in 0 .. Len(gs)] ==
        IF i = 0 THEN wbuf
        ELSE IF i \in Reconstructed(gs, p, rows)
             THEN Reserve(w[i - 1], module.k * Smaller(layer.n[gs[i]], SliceN))
             ELSE w[i - 1]
  IN w
-----------------------------------------------------------------------------
(* ext(): imported at the first call.                                       *)
Import ==
  /\ phase = "ready" /\ GroupsFor # {} /\ E = <<>>
  /\ E' \in Extensions
  /\ UNCHANGED <<wvars, call, graphs>>

(* In a capture, the graph keeps the address of every buffer it used.       *)
UseBuffer(gs, p, rows, capturing) ==
  LET w == WeightBuffer(gs, p, rows)
  IN /\ wbuf' = w[Len(gs)]
     /\ graphs' = graphs \cup {w[i].gen : i \in IF capturing THEN Reconstructed(gs, p, rows) ELSE {}}

AllGroups == [g \in DOMAIN layer.n |-> g]

(* apply                                                                    *)
Apply(rows, capturing) ==
  /\ E # <<>>
  /\ call' = [op |-> "apply", rows |-> rows, route |-> Route(AllGroups, ptrs, rows),
              y |-> LinearGroups(AllGroups, ptrs, rows), tops |-> {}]
  /\ UseBuffer(AllGroups, ptrs, rows, capturing)
  /\ UNCHANGED <<setup, phase, stray, stream, loaded, codebook, partToGroup,
                 layer, heap, draft, ptrs, E>>

DraftLogits(rows) == LinearGroups(draft.groups, <<>>, rows)

(* compute_logits: -inf where the drafter does not score, cut at the        *)
(* vocabulary; get_top_tokens: the columns an argmax over the scored        *)
(* columns may return, the first one if all of them are masked.             *)
Scattered(sub) ==
  [c \in 0 .. Smaller(Total(layer.n), Vocab) - 1 |->
     LET hits == {i \in DOMAIN draft.cols : draft.cols[i] = c}
     IN IF hits = {} THEN NegInf ELSE sub[Min(hits) - 1]]

TopTokensUnmasked == {draft.cols[i] : i \in DOMAIN draft.cols}  \* mutant

TopTokens ==
  LET open == {i \in DOMAIN draft.cols : draft.cols[i] < Vocab}
  IN {draft.cols[i] : i \in IF open = {} THEN {1} ELSE open}

Draft(rows, capturing) ==
  /\ E # <<>> /\ draft.groups # <<>>
  /\ call' = [op |-> "draft", rows |-> rows, route |-> Route(draft.groups, <<>>, rows),
              y |-> Scattered(DraftLogits(rows)), tops |-> TopTokens]
  /\ UseBuffer(draft.groups, <<>>, rows, capturing)
  /\ UNCHANGED <<setup, phase, stray, stream, loaded, codebook, partToGroup,
                 layer, heap, draft, ptrs, E>>

NoCall == [op |-> "none", rows |-> 0, route |-> "none", y |-> <<>>, tops |-> {}]

Init == WeightsInit /\ E = <<>> /\ call = NoCall /\ graphs = {}

Forward ==
  \E rows \in 1 .. MaxRows, capturing \in BOOLEAN :
    Apply(rows, capturing) \/ Draft(rows, capturing)

Next ==
  \/ WeightsNext /\ UNCHANGED <<E, call, graphs>>
  \/ Import
  \/ Forward

Spec == Init /\ [][Next]_vars
-----------------------------------------------------------------------------
(* Properties                                                               *)

(* Each column of the module, with the checkpoint member and the column of  *)
(* that member which it stands for.                                         *)
MemberWidths == [i \in Members |-> module.members[i].n]

Origin ==
  UNION {{<<Before(MemberWidths, i) + b, i, b>> : b \in 0 .. MemberWidths[i] - 1} : i \in Members}

(* Column c of y was computed from its own member's tensors only.           *)
FromItsMember(col, i, b) ==
  col.t = <<i, b>> /\ col.s = <<i, b>> /\ col.h = i /\ col.K = module.members[i].K

(* A module that finished loading holds, group after group, exactly the     *)
(* columns of its checkpoint members, each with its own scales, whatever    *)
(* the order of the stream, the shard ids and the split of the head; it     *)
(* decodes with the codebook of every member whose scalar came (_loader,     *)
(* process_weights_after_loading); and no tensor of the checkpoint, of      *)
(* which the vision tower has two copies, came without a target, save the   *)
(* mcg scalars of a vision tower's q, k and v, which the loader does not    *)
(* rename: such a checkpoint is refused (_visual_qkv_stream).               *)
LoadedWhereRead ==
  /\ stray => phase = "failed" /\ Vision /\ Quantized # {} /\ setup.codebook = "mcg"
  /\ phase = "ready" /\ GroupsFor # {} =>
       /\ Total(layer.n) = Total(MemberWidths)
       /\ \A i \in Members : <<"code", i>> \notin stream => codebook = module.members[i].code
       /\ \A o \in Origin :
            \E g \in DOMAIN layer.n :
              LET first == Before(layer.n, g)
              IN /\ o[1] \in first .. first + layer.n[g] - 1
                 /\ FromItsMember(
                      Gemv(layer.trellis[g], layer.svh[g], layer.suh[g],
                           layer.n[g], layer.K[g], 1)[o[1] - first], o[2], o[3])

(* Every output column is written, by the tensors of its own member, on     *)
(* every route: single GEMV, grouped GEMV through the pointer tables,       *)
(* multi-row GEMV in runs of equal groups, and reconstruction in slices     *)
(* (linear_groups, exl3_linear).                                            *)
EachColumnOnce ==
  call.op = "apply" =>
    \A o \in Origin :
      o[1] \in DOMAIN call.y /\ FromItsMember(call.y[o[1]], o[2], o[3])

(* A row that the multi-row GEMV computes is bitwise the row that the       *)
(* one-row path computes, so that verifying drafted tokens gives what       *)
(* decoding would: the same tensors and the same split-K waves              *)
(* (linear_groups' bszm; ops.py's comments on the multi-row path).  The     *)
(* single-matrix multi-row GEMV takes no wave count, so this needs an       *)
(* extension with the grouped one wherever the one-row path is grouped.     *)
VerifyRowsMatchDecode ==
  call.op = "apply" /\ call.route = "mr" /\ (E.grouped \/ ptrs = <<>>) =>
    call.y = LinearGroups(AllGroups, ptrs, 1)

(* No graph keeps a reconstruction buffer that a later call replaced: the   *)
(* reservation at load time covers every call (reserve_weight_buffer).      *)
GraphBufferLives == graphs \subseteq {wbuf.gen}

(* The drafter scores a drafted token exactly as the target's head does,    *)
(* gives every other token -inf, and never proposes a token outside the     *)
(* vocabulary (_split_lm_head_for_draft, compute_logits, get_top_tokens).   *)
DraftIsFullHead ==
  call.op = "draft" =>
    /\ \A o \in Origin :
         o[1] \in DOMAIN call.y =>
           IF o[1] \in DraftBlocks(module.members[1].n)
           THEN FromItsMember(call.y[o[1]], o[2], o[3]) ELSE call.y[o[1]] = NegInf
    /\ LET drafted == DraftBlocks(module.members[1].n)
       IN /\ call.tops \subseteq drafted
          /\ \A c \in call.tops, d \in drafted : d < Vocab => c < Vocab
=============================================================================
