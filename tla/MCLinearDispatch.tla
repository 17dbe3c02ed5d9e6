-------------------------- MODULE MCLinearDispatch --------------------------
(* LinearDispatch for TLC: the modules the model has, in miniature.         *)
EXTENDS LinearDispatch

ByLetter(c) == [by |-> "letter", ids |-> {c}]
ByParts(ps) == [by |-> "parts", ids |-> ps]
Unsharded == [by |-> "none", ids |-> {}]

Member(K, n, shard) == [exl3 |-> TRUE, K |-> K, k |-> 1, n |-> n, code |-> 7, shard |-> shard]
Dense(n, shard) == [Member(0, n, shard) EXCEPT !.exl3 = FALSE]

Module(kind, parts, members, fused) ==
  [kind |-> kind, k |-> 1, input |-> 1, parts |-> parts, members |-> members, fused |-> fused]

GateUp == Module("linear", <<2, 2>>,
  <<Member(5, 2, ByParts({1})), Member(5, 2, ByParts({2}))>>, FALSE)
(* Bitrates mixed inside a fused module.                                    *)
Qkv == Module("linear", <<2, 1, 1>>,
  <<Member(2, 2, ByLetter("q")), Member(5, 1, ByLetter("k")), Member(5, 1, ByLetter("v"))>>, FALSE)
(* One member spans three partitions.                                       *)
InProjQkvz == Module("linear", <<1, 1, 2, 3>>,
  <<Member(2, 4, ByParts({1, 2, 3})), Member(2, 3, ByParts({4}))>>, FALSE)
DownProj == Module("linear", <<4>>, <<Member(2, 4, Unsharded)>>, FALSE)
InProjBa == Module("linear", <<1, 1>>, <<Dense(1, ByParts({1})), Dense(1, ByParts({2}))>>, FALSE)
LmHead == Module("head", <<7>>, <<Member(5, 7, Unsharded)>>, FALSE)
VisionQkv(fused) == Module("vision", <<1, 1, 1>>,
  <<Member(5, 1, ByLetter("q")), Member(5, 1, ByLetter("k")), Member(5, 1, ByLetter("v"))>>, fused)
VisionDense == Module("vision", <<1, 1, 1>>,
  <<Dense(1, ByLetter("q")), Dense(1, ByLetter("k")), Dense(1, ByLetter("v"))>>, TRUE)

(* Checkpoints that the code refuses.                                       *)
Mistiled == Module("linear", <<1, 2>>,
  <<Member(5, 2, ByParts({1})), Member(5, 1, ByParts({2}))>>, FALSE)
OtherCodebook == [GateUp EXCEPT !.members[2].code = 8]
HalfQuantized == [GateUp EXCEPT !.members[2].exl3 = FALSE]
Sharded == [DownProj EXCEPT !.k = 2, !.members[1].k = 2]
Misrouted == [Qkv EXCEPT !.members[2].shard = ByLetter("q")]
SpansGroups == [InProjQkvz EXCEPT !.members[2].shard = ByParts({3, 4})]

Setup(m, drafting, bf16, mgemm, blocks) ==
  [module |-> m, codebook |-> "mul1", drafting |-> drafting, bf16 |-> bf16, mgemm |-> mgemm,
   draftBlocks |-> blocks]

WithMcg(s) == [s EXCEPT !.codebook = "mcg"]

MCSetups ==
  {Setup(GateUp, TRUE, FALSE, mgemm, 2) : mgemm \in BOOLEAN}
    \cup {Setup(m, TRUE, FALSE, TRUE, 2) :
            m \in {Qkv, InProjQkvz, DownProj, InProjBa, Mistiled, OtherCodebook,
                   HalfQuantized, Sharded, Misrouted, SpansGroups}}
    \cup {Setup(LmHead, drafting, FALSE, TRUE, blocks) :
            drafting \in BOOLEAN, blocks \in {0, 2, 3, 5, 7}}
    \cup {Setup(m, FALSE, bf16, TRUE, 2) :
            m \in {VisionQkv(TRUE), VisionQkv(FALSE), VisionDense}, bf16 \in BOOLEAN}
    \cup {WithMcg(Setup(m, FALSE, bf16, TRUE, 2)) :
            m \in {VisionQkv(TRUE), VisionDense, DownProj}, bf16 \in BOOLEAN}

MCExtensions ==
  {[mr |-> mr, grouped |-> grouped, Ks |-> Ks] :
     mr \in BOOLEAN, grouped \in BOOLEAN, Ks \in {{2, 5}, {2}}}
=============================================================================
