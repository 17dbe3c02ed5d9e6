-------------------------- MODULE AttnSplitProofs --------------------------
(***************************************************************************)
(* The promises of AttnSplit for every tile size, number of segments, size *)
(* of a program, numbers of sinks and of tail positions, and every batch.  *)
(*                                                                         *)
(* A key of a query row has one tile, one segment and one pass, whichever  *)
(* program reads it (KeyPlace): what a program collects for a row depends  *)
(* on the row and the segment alone (Collects).  So a partial is stale or  *)
(* that value, and it is that value once the row's own program has run     *)
(* (PartInv); joined, the segments hold each key once.                     *)
(***************************************************************************)
EXTENDS AttnSplit, WellFoundedInduction, TLAPS

(* Least and greatest elements *)

LEMMA LessFounded == IsWellFoundedOn({p \in Nat \X Nat : p[1] < p[2]}, Nat)
<1>1. OpToRel(<, Nat) = {p \in Nat \X Nat : p[1] < p[2]} BY DEF OpToRel
<1>2. IsWellFoundedOn(OpToRel(<, Nat), Nat) BY NatLessThanWellFounded
<1> QED BY <1>1, <1>2

LEMMA NatMin ==
  ASSUME NEW T \in SUBSET Nat, T # {}
  PROVE  \E m \in T : \A x \in T : m <= x
<1> DEFINE R == {p \in Nat \X Nat : p[1] < p[2]}
<1>1. IsWellFoundedOn(R, Nat) BY LessFounded
<1>2. PICK m \in T : \A y \in T : ~ (<<y, m>> \in R)
  <2> HIDE DEF R
  <2> QED BY <1>1, WFMin
<1>3. ASSUME NEW x \in T PROVE m <= x
  <2>1. x \in Nat /\ m \in Nat OBVIOUS
  <2>2. x < m => <<x, m>> \in R BY <2>1
  <2> QED BY <1>2, <2>1, <2>2
<1> QED BY <1>3

LEMMA BoundedMax ==
  ASSUME NEW n \in Nat, NEW T \in SUBSET (0 .. n), T # {}
  PROVE  \E m \in T : \A x \in T : x <= m
<1> DEFINE U == {n - x : x \in T}
<1>1. U \in SUBSET Nat /\ U # {}
  <2>1. \A x \in T : x \in 0 .. n /\ n - x \in Nat OBVIOUS
  <2> QED BY <2>1
<1> HIDE DEF U
<1>2. PICK u \in U : \A y \in U : u <= y BY <1>1, NatMin
<1>3. PICK m \in T : u = n - m BY DEF U
<1>4. ASSUME NEW x \in T PROVE x <= m
  <2>1. n - x \in U BY DEF U
  <2>2. u <= n - x /\ x \in Int /\ m \in Int BY <2>1, <1>2
  <2> QED BY <1>3, <2>2
<1> QED BY <1>4
-----------------------------------------------------------------------------
(* Division *)

LEMMA NatSum == ASSUME NEW x \in Nat, NEW y \in Nat PROVE x + y \in Nat
OBVIOUS

LEMMA DivDef ==
  ASSUME NEW k \in Nat \ {0}, NEW a \in Int
  PROVE  /\ a \div k \in Int /\ a % k \in 0 .. k - 1
         /\ a = k * (a \div k) + (a % k)
OBVIOUS

LEMMA MulMono ==
  ASSUME NEW k \in Nat, NEW a \in Int, NEW b \in Int, a <= b
  PROVE  k * a <= k * b /\ k * a \in Int /\ k * b \in Int
OBVIOUS

LEMMA MulNext ==
  ASSUME NEW k \in Nat, NEW a \in Int
  PROVE  k * (a + 1) = k * a + k /\ k * a \in Int
OBVIOUS

(* The quotient is below n just when the dividend is below n times k.      *)
LEMMA DivBelow ==
  ASSUME NEW k \in Nat \ {0}, NEW a \in Int, NEW n \in Int
  PROVE  a \div k < n <=> a < k * n
<1> DEFINE d == a \div k
           e == a % k
<1>1. d \in Int /\ e \in 0 .. k - 1 /\ a = k * d + e BY DivDef
<1> HIDE DEF d, e
<1>2. k * d \in Int /\ k * n \in Int /\ k \in Nat BY <1>1
<1>3. ASSUME d < n PROVE a < k * n
  <2>1. k * (d + 1) <= k * n BY <1>1, <1>3, MulMono
  <2>2. k * (d + 1) = k * d + k BY <1>1, MulNext
  <2> QED BY <1>1, <1>2, <2>1, <2>2
<1>4. ASSUME n <= d PROVE ~(a < k * n)
  <2>1. k * n <= k * d BY <1>1, <1>4, MulMono
  <2> QED BY <1>1, <1>2, <2>1
<1> QED BY <1>1, <1>3, <1>4 DEF d

LEMMA DivFrom ==
  ASSUME NEW k \in Nat \ {0}, NEW a \in Int, NEW n \in Int
  PROVE  n <= a \div k <=> k * n <= a
<1>1. a \div k \in Int BY DivDef
<1>2. k * n \in Int OBVIOUS
<1> QED BY <1>1, <1>2, DivBelow

LEMMA CeilAbove ==
  ASSUME NEW k \in Nat \ {0}, NEW a \in Int, NEW n \in Int
  PROVE  CDiv(a, k) \in Int /\ (n < CDiv(a, k) <=> k * n < a)
<1>1. CDiv(a, k) \in Int /\ a + k - 1 \in Int BY DivDef DEF CDiv
<1>2. n + 1 <= CDiv(a, k) <=> k * (n + 1) <= a + k - 1 BY <1>1, DivFrom DEF CDiv
<1>3. k * (n + 1) = k * n + k /\ k * n \in Int BY MulNext
<1> QED BY <1>1, <1>2, <1>3

LEMMA DivMono ==
  ASSUME NEW k \in Nat \ {0}, NEW a \in Int, NEW b \in Int, a <= b
  PROVE  a \div k <= b \div k
<1>1. a \div k \in Int /\ k * (a \div k) <= a BY DivDef, DivFrom
<1>2. k * (a \div k) <= b /\ k * (a \div k) \in Int BY <1>1
<1> QED BY <1>1, <1>2, DivFrom

LEMMA DivAdd ==
  ASSUME NEW k \in Nat \ {0}, NEW a \in Int, NEW n \in Int
  PROVE  (a + k * n) \div k = (a \div k) + n
<1> DEFINE d == (a + k * n) \div k
           c == a \div k
<1>1. k * n \in Int /\ a + k * n \in Int OBVIOUS
<1>2. c \in Int /\ d \in Int BY <1>1, DivDef
<1>3. k * (c + n) = k * c + k * n /\ k * c \in Int BY <1>2
<1>4. k * (d - n) = k * d - k * n /\ k * d \in Int BY <1>2
<1>5. c + n <= d
  <2>1. k * c <= a BY <1>2, DivFrom
  <2>2. k * (c + n) <= a + k * n BY <1>1, <1>3, <2>1
  <2> QED BY <1>1, <1>2, <2>2, DivFrom
<1>6. d - n <= c
  <2>1. k * d <= a + k * n BY <1>1, <1>2, DivFrom
  <2>2. k * (d - n) <= a BY <1>1, <1>4, <2>1
  <2> QED BY <1>1, <1>2, <2>2, DivFrom
<1> QED BY <1>2, <1>5, <1>6

LEMMA DivPos ==
  ASSUME NEW k \in Nat \ {0}, NEW a \in Nat
  PROVE  a \div k \in Nat
<1>1. a \div k \in Int BY DivDef
<1>2. k * 0 <= a OBVIOUS
<1> QED BY <1>1, <1>2, DivFrom
-----------------------------------------------------------------------------
(* The requests of a batch *)

LEMMA BatchShape ==
  ASSUME NEW b \in Batches
  PROVE  /\ Len(b) \in Nat \ {0} /\ DOMAIN b = 1 .. Len(b) /\ b # <<>>
         /\ \A i \in 1 .. Len(b) : /\ b[i].start \in Nat /\ b[i].q \in Nat /\ b[i].len \in Nat
                                   /\ b[i].q <= b[i].len
         /\ b[1].start = 0 /\ b[Len(b)].start + b[Len(b)].q <= MaxTokens
         /\ \A i \in 1 .. Len(b) - 1 : b[i + 1].start = b[i].start + b[i].q
<1>1. PICK n \in 1 .. MaxSeqs : b \in [1 .. n -> Requests] BY DEF Batches
<1>2. n \in Nat \ {0} /\ Len(b) = n /\ DOMAIN b = 1 .. n BY <1>1, SplitAssumption
<1>3. \A i \in 1 .. n : b[i] \in Requests BY <1>1
<1>4. \A i \in 1 .. n : b[i].start \in Nat /\ b[i].q \in Nat /\ b[i].len \in Nat
  BY <1>3, SplitAssumption DEF Requests
<1>5. /\ b[1].start = 0 /\ b[Len(b)].start + b[Len(b)].q <= MaxTokens
      /\ \A i \in DOMAIN b : b[i].q <= b[i].len
      /\ \A i \in 1 .. Len(b) - 1 : b[i + 1].start = b[i].start + b[i].q
  BY DEF Batches
<1>6. b # <<>> BY <1>2
<1> QED BY <1>2, <1>4, <1>5, <1>6

(* Requests take consecutive rows, in order.                               *)
LEMMA InOrder ==
  ASSUME NEW b \in Batches, NEW i \in 1 .. Len(b), NEW j \in 1 .. Len(b), i < j
  PROVE  b[i].start + b[i].q <= b[j].start
<1> DEFINE n == Len(b)
           T == {k \in i + 1 .. n : ~(b[i].start + b[i].q <= b[k].start)}
<1>1. SUFFICES ASSUME T # {} PROVE FALSE
  <2>1. n \in Nat /\ j \in i + 1 .. n BY BatchShape
  <2> QED BY <2>1
<1>2. T \in SUBSET Nat BY BatchShape
<1>3. PICK m \in T : \A x \in T : m <= x
  <2> HIDE DEF T
  <2> QED BY <1>1, <1>2, NatMin
<1>4. n \in Nat /\ m \in i + 1 .. n /\ ~(b[i].start + b[i].q <= b[m].start) BY BatchShape
<1>5. CASE m = i + 1
  <2>1. i \in 1 .. n - 1 BY <1>4, <1>5
  <2>2. b[i + 1].start = b[i].start + b[i].q BY <2>1, BatchShape
  <2>3. b[i].start \in Nat /\ b[i].q \in Nat BY BatchShape
  <2> QED BY <1>4, <1>5, <2>2, <2>3
<1>6. CASE m # i + 1
  <2>1. m - 1 \in i + 1 .. n /\ m - 1 \in 1 .. n - 1 /\ m - 1 + 1 = m BY <1>4, <1>6
  <2>2. m - 1 \notin T BY <1>3, <2>1
  <2>3. b[i].start + b[i].q <= b[m - 1].start BY <2>1, <2>2
  <2>4. b[m].start = b[m - 1].start + b[m - 1].q BY <2>1, BatchShape
  <2>5. /\ b[i].start \in Nat /\ b[i].q \in Nat
        /\ b[m - 1].start \in Nat /\ b[m - 1].q \in Nat
    <3>1. m - 1 \in 1 .. n BY <2>1, <1>4
    <3> QED BY <3>1, BatchShape
  <2> DEFINE x == b[i].start + b[i].q
             y == b[m - 1].start
             z == b[m - 1].q
             w == b[m].start
  <2>6. x <= y /\ w = y + z /\ ~(x <= w) BY <1>4, <2>3, <2>4, Zenon
  <2>7. x \in Nat /\ y \in Nat /\ z \in Nat BY <2>5, NatSum, Zenon
  <2> HIDE DEF x, y, z, w
  <2> QED BY ONLY <2>6, <2>7
<1> QED BY <1>5, <1>6

Total(b) == b[Len(b)].start + b[Len(b)].q

Has(b, i, r) == b[i].start <= r /\ r < b[i].start + b[i].q

(* A row below the total has one request.                                  *)
LEMMA OneRequest ==
  ASSUME NEW b \in Batches, NEW r \in Nat
  PROVE  /\ r < Total(b) => \E i \in 1 .. Len(b) : Has(b, i, r)
         /\ \A i, j \in 1 .. Len(b) : Has(b, i, r) /\ Has(b, j, r) => i = j
         /\ \A i \in 1 .. Len(b) : Has(b, i, r) => r < Total(b)
<1> DEFINE n == Len(b)
<1>0. /\ n \in Nat \ {0}
      /\ \A i \in 1 .. n : b[i].start \in Nat /\ b[i].q \in Nat
  BY BatchShape
<1>1. ASSUME r < Total(b) PROVE \E i \in 1 .. n : Has(b, i, r)
  <2> DEFINE T == {i \in 1 .. n : b[i].start <= r}
  <2>1. 1 \in T /\ T \in SUBSET (0 .. n) BY <1>0, BatchShape
  <2>2. PICK m \in T : \A x \in T : x <= m
    <3> HIDE DEF T
    <3> QED BY <1>0, <2>1, BoundedMax
  <2>3. m \in 1 .. n /\ b[m].start <= r OBVIOUS
  <2>4. CASE m = n BY <1>1, <2>3, <2>4 DEF Has, Total
  <2>5. CASE m # n
    <3>1. m \in 1 .. n - 1 /\ m + 1 \in 1 .. n BY <1>0, <2>3, <2>5
    <3>2. m + 1 \notin T BY <2>2, <2>3
    <3>3. b[m + 1].start = b[m].start + b[m].q BY <3>1, BatchShape
    <3> QED BY <1>0, <2>3, <3>1, <3>2, <3>3 DEF Has
  <2> QED BY <2>4, <2>5
<1>2. ASSUME NEW i \in 1 .. n, NEW j \in 1 .. n, Has(b, i, r), Has(b, j, r), i < j PROVE FALSE
  <2>1. b[i].start + b[i].q <= b[j].start BY <1>2, InOrder
  <2> QED BY <1>0, <1>2, <2>1 DEF Has
<1>3. ASSUME NEW i \in 1 .. n, Has(b, i, r) PROVE r < Total(b)
  <2>1. CASE i = n BY <1>3, <2>1 DEF Has, Total
  <2>2. CASE i # n
    <3>1. i < n /\ n \in 1 .. n BY <1>0, <2>2
    <3>2. b[i].start + b[i].q <= b[n].start BY <3>1, InOrder
    <3>3. b[i].start \in Nat /\ b[i].q \in Nat /\ b[n].start \in Nat /\ b[n].q \in Nat
      BY <1>0
    <3> QED BY <1>3, <3>2, <3>3 DEF Has, Total
  <2> QED BY <2>1, <2>2
<1>4. \A i, j \in 1 .. n : Has(b, i, r) /\ Has(b, j, r) => i = j
  <2> SUFFICES ASSUME NEW i \in 1 .. n, NEW j \in 1 .. n, Has(b, i, r), Has(b, j, r), i # j
               PROVE  FALSE
    OBVIOUS
  <2>1. i < j \/ j < i OBVIOUS
  <2> QED BY <1>2, <2>1
<1> QED BY <1>1, <1>3, <1>4
-----------------------------------------------------------------------------
(* The query blocks of a launch *)

LEMMA BlockSize == BLOCK_Q \in Nat \ {0} /\ BLOCK_Q * QueriesPerKv <= BLOCK_M
<1>1. QueriesPerKv \in Nat \ {0} /\ BLOCK_M \in Nat /\ QueriesPerKv * 1 <= BLOCK_M
  BY SplitAssumption
<1>2. BLOCK_Q \in Int /\ 1 <= BLOCK_Q BY <1>1, DivDef, DivFrom DEF BLOCK_Q
<1>3. QueriesPerKv * BLOCK_Q <= BLOCK_M BY <1>1, <1>2, DivFrom DEF BLOCK_Q
<1> QED BY <1>1, <1>2, <1>3

LEMMA FirstBlockTyped ==
  ASSUME seqs \in Batches, NEW i \in 1 .. Len(seqs)
  PROVE  FirstBlock(i) \in Nat /\ (seqs[i].start \div BLOCK_Q) \in Nat
<1>1. seqs[i].start \in Nat /\ i \in Nat \ {0} BY BatchShape
<1>2. (seqs[i].start \div BLOCK_Q) \in Nat BY <1>1, BlockSize, DivPos
<1> QED BY <1>1, <1>2 DEF FirstBlock

LEMMA BlocksInOrder ==
  ASSUME seqs \in Batches, NEW i \in 1 .. Len(seqs), NEW j \in 1 .. Len(seqs), i < j
  PROVE  FirstBlock(i) < FirstBlock(j)
<1>1. seqs[i].start \in Nat /\ seqs[i].q \in Nat /\ seqs[j].start \in Nat BY BatchShape
<1>2. seqs[i].start <= seqs[j].start BY <1>1, InOrder
<1>3. (seqs[i].start \div BLOCK_Q) <= (seqs[j].start \div BLOCK_Q)
  <2> DEFINE x == seqs[i].start
             y == seqs[j].start
  <2>1. x \in Int /\ y \in Int /\ x <= y BY <1>1, <1>2
  <2> HIDE DEF x, y
  <2>2. (x \div BLOCK_Q) <= (y \div BLOCK_Q) BY ONLY <2>1, BlockSize, DivMono
  <2> QED BY <2>2 DEF x, y
<1> DEFINE x == seqs[i].start \div BLOCK_Q
           y == seqs[j].start \div BLOCK_Q
<1>4. FirstBlock(i) = x + i - 1 /\ FirstBlock(j) = y + j - 1 BY DEF FirstBlock
<1>5. x \in Nat /\ y \in Nat /\ x <= y BY <1>3, FirstBlockTyped
<1>6. i \in Nat /\ j \in Nat /\ i < j BY BatchShape
<1> HIDE DEF x, y
<1>7. x + i - 1 < y + j - 1 BY ONLY <1>5, <1>6
<1> QED BY <1>4, <1>7

(* resolve_seq_and_query_len finds the last request that starts by then.   *)
LEMMA SeqOfIs ==
  ASSUME seqs \in Batches, NEW g \in Nat, NEW i \in 1 .. Len(seqs), FirstBlock(i) <= g,
         \A j \in 1 .. Len(seqs) : j > i => FirstBlock(j) > g
  PROVE  SeqOf(g) = i
<1>1. DOMAIN seqs = 1 .. Len(seqs) BY BatchShape
<1>2. \A k \in 1 .. Len(seqs) :
        FirstBlock(k) <= g /\ (\A j \in 1 .. Len(seqs) : j > k => FirstBlock(j) > g) => k = i
  <2> SUFFICES ASSUME NEW k \in 1 .. Len(seqs), FirstBlock(k) <= g,
                      \A j \in 1 .. Len(seqs) : j > k => FirstBlock(j) > g, k # i
               PROVE  FALSE
    OBVIOUS
  <2>1. k > i \/ i > k OBVIOUS
  <2>2. FirstBlock(i) \in Nat /\ FirstBlock(k) \in Nat BY FirstBlockTyped
  <2> QED BY <2>1, <2>2
<1> QED BY <1>1, <1>2 DEF SeqOf

LEMMA SeqOfTyped ==
  ASSUME seqs \in Batches, NEW g \in Nat
  PROVE  /\ SeqOf(g) \in 1 .. Len(seqs) /\ FirstBlock(SeqOf(g)) <= g
         /\ LocalBlock(g) \in Nat /\ g = FirstBlock(SeqOf(g)) + LocalBlock(g)
<1> DEFINE n == Len(seqs)
           T == {i \in 1 .. n : FirstBlock(i) <= g}
<1>1. n \in Nat \ {0} BY BatchShape
<1>2. 1 \in T
  <2>1. 1 \in 1 .. n /\ seqs[1].start = 0 BY <1>1, BatchShape
  <2>2. 0 \div BLOCK_Q <= 0
    <3>1. 0 \div BLOCK_Q \in Int /\ BLOCK_Q * 1 = BLOCK_Q /\ 0 < BLOCK_Q BY BlockSize, DivDef
    <3> QED BY <3>1, BlockSize, DivBelow
  <2>3. 0 \div BLOCK_Q \in Int BY BlockSize, DivDef
  <2> QED BY <2>1, <2>2, <2>3 DEF FirstBlock
<1>3. T \in SUBSET (0 .. n) BY <1>1
<1>4. PICK m \in T : \A x \in T : x <= m
  <2> HIDE DEF T
  <2> QED BY <1>1, <1>2, <1>3, BoundedMax
<1>5. m \in 1 .. n /\ FirstBlock(m) <= g OBVIOUS
<1>6. \A j \in 1 .. n : j > m => FirstBlock(j) > g
  <2> SUFFICES ASSUME NEW j \in 1 .. n, j > m PROVE FirstBlock(j) > g OBVIOUS
  <2>1. j \notin T BY <1>4, <1>5
  <2>2. FirstBlock(j) \in Nat BY FirstBlockTyped
  <2> QED BY <2>1, <2>2
<1>7. SeqOf(g) = m BY <1>5, <1>6, SeqOfIs
<1>8. FirstBlock(m) \in Nat BY <1>5, FirstBlockTyped
<1> QED BY <1>5, <1>7, <1>8 DEF LocalBlock

LEMMA NumTokensIs == ASSUME seqs \in Batches PROVE NumTokens = Total(seqs) /\ NumTokens \in Nat
<1>1. Len(seqs) \in 1 .. Len(seqs) BY BatchShape
<1>2. seqs[Len(seqs)].start \in Nat /\ seqs[Len(seqs)].q \in Nat BY <1>1, BatchShape
<1> QED BY <1>2, BatchShape DEF NumTokens, Total

(* Block c of a request is in the grid when it has a query token.          *)
LEMMA OwnBlock ==
  ASSUME seqs \in Batches, NEW i \in 1 .. Len(seqs), NEW c \in Nat, c * BLOCK_Q < seqs[i].q
  PROVE  /\ FirstBlock(i) + c \in Blocks
         /\ SeqOf(FirstBlock(i) + c) = i /\ LocalBlock(FirstBlock(i) + c) = c
<1> DEFINE n == Len(seqs)
           g == FirstBlock(i) + c
           st == seqs[i].start
           q == seqs[i].q
<1>1. n \in Nat \ {0} /\ st \in Nat /\ q \in Nat /\ i \in 1 .. n BY BatchShape
<1>2. FirstBlock(i) \in Nat /\ g \in Nat /\ (st \div BLOCK_Q) \in Nat
      /\ FirstBlock(i) = (st \div BLOCK_Q) + i - 1
  BY FirstBlockTyped DEF FirstBlock
<1>3. (st \div BLOCK_Q) + c <= (st + q) \div BLOCK_Q /\ (st + q) \div BLOCK_Q \in Int
  <2>1. BLOCK_Q * c = c * BLOCK_Q /\ c * BLOCK_Q \in Int BY BlockSize
  <2>2. st + BLOCK_Q * c <= st + q /\ st + BLOCK_Q * c \in Int /\ st + q \in Int BY <1>1, <2>1
  <2>3. (st + BLOCK_Q * c) \div BLOCK_Q <= (st + q) \div BLOCK_Q BY <2>2, BlockSize, DivMono
  <2>4. (st + BLOCK_Q * c) \div BLOCK_Q = (st \div BLOCK_Q) + c
    <3>1. st \in Int /\ c \in Int BY <1>1
    <3> HIDE DEF st
    <3> QED BY <3>1, BlockSize, DivAdd
  <2>5. (st + q) \div BLOCK_Q \in Int BY <2>2, BlockSize, DivDef
  <2> QED BY <2>3, <2>4, <2>5
<1>4. \A j \in 1 .. n : j > i => FirstBlock(j) > g
  <2> SUFFICES ASSUME NEW j \in 1 .. n, j > i PROVE FirstBlock(j) > g OBVIOUS
  <2>1. st + q <= seqs[j].start /\ seqs[j].start \in Nat BY InOrder, BatchShape
  <2>2. (st + q) \div BLOCK_Q <= seqs[j].start \div BLOCK_Q
    <3>1. st + q \in Int /\ seqs[j].start \in Int BY <1>1, <2>1
    <3> HIDE DEF st, q
    <3> QED BY <2>1, <3>1, BlockSize, DivMono
  <2>3. seqs[j].start \div BLOCK_Q \in Nat /\ FirstBlock(j) = (seqs[j].start \div BLOCK_Q) + j - 1
    BY FirstBlockTyped DEF FirstBlock
  <2> DEFINE x == st \div BLOCK_Q
             y == (st + q) \div BLOCK_Q
             z == seqs[j].start \div BLOCK_Q
             F == FirstBlock(j)
  <2>4. g = x + i - 1 + c BY <1>2, Zenon
  <2>5. F = z + j - 1 BY <2>3, Zenon
  <2>6. x + c <= y /\ y <= z BY <1>3, <2>2, Zenon
  <2>7. x \in Nat /\ y \in Int /\ z \in Nat /\ c \in Nat BY <1>2, <1>3, <2>3, Zenon
  <2>8. i \in Nat /\ j \in Nat /\ i < j BY <1>1
  <2> HIDE DEF g, n, x, y, z, F
  <2>9. F > g BY ONLY <2>4, <2>5, <2>6, <2>7, <2>8
  <2> QED BY <2>9 DEF F
<1>5. SeqOf(g) = i BY <1>1, <1>2, <1>4, SeqOfIs, SMTT(20)
<1>6. LocalBlock(g) = c BY <1>2, <1>5 DEF LocalBlock
<1>7. g \in Blocks
  <2>1. st + q <= NumTokens /\ NumTokens \in Nat
    <3>1. NumTokens = seqs[n].start + seqs[n].q /\ NumTokens \in Nat
      BY NumTokensIs DEF Total
    <3>2. CASE i = n BY <3>1, <3>2
    <3>3. CASE i # n
      <4>1. n \in 1 .. n /\ i < n BY <1>1, <3>3
      <4>2. st + q <= seqs[n].start /\ seqs[n].start \in Nat /\ seqs[n].q \in Nat
        BY <4>1, InOrder, BatchShape
      <4> QED BY <1>1, <3>1, <4>2, SMTT(20)
    <3> QED BY <3>2, <3>3
  <2>0. st + q \in Int /\ NumTokens \in Int BY <1>1, <2>1
  <2>2. (st + q) \div BLOCK_Q <= NumTokens \div BLOCK_Q
    <3> HIDE DEF st, q
    <3> QED BY <2>0, <2>1, BlockSize, DivMono
  <2>3. NumTokens \div BLOCK_Q \in Int BY <2>0, BlockSize, DivDef
  <2> DEFINE x == st \div BLOCK_Q
             y == (st + q) \div BLOCK_Q
             z == NumTokens \div BLOCK_Q
  <2>4. g = x + i - 1 + c BY <1>2, Zenon
  <2>6. x + c <= y /\ y <= z BY <1>3, <2>2, Zenon
  <2>7. x \in Nat /\ y \in Int /\ z \in Int /\ c \in Nat BY <1>2, <1>3, <2>3, Zenon
  <2>8. i \in Nat /\ n \in Nat /\ i <= n BY <1>1
  <2> HIDE DEF g, n, x, y, z
  <2>9. g \in 0 .. z + n - 1
    <3>1. g \in Nat BY <1>2
    <3> QED BY ONLY <2>4, <2>6, <2>7, <2>8, <3>1
  <2> QED BY <2>9, Zenon DEF Blocks, z, n
<1> QED BY <1>5, <1>6, <1>7
-----------------------------------------------------------------------------
(* The place of a key *)

(* A request with query tokens.                                            *)
IsRequest(x) == x.q \in Nat \ {0} /\ x.len \in Nat \ {0} /\ x.q <= x.len

LastKey(x, t) == (x.len - x.q) + t

TailFrom(x) == Most((x.len - TAIL) \div TILE_SIZE, 0)

(* The pass that takes tile j.                                             *)
PassOf(x, j) ==
  IF SINKS > 0 /\ j = 0 /\ (TAIL > 0 => TailFrom(x) > 0) THEN "sinks"
  ELSE IF TAIL > 0 /\ j >= TailFrom(x) THEN "tail" ELSE "body"

TileOf(p) == p \div TILE_SIZE
SegmentOf(x, p) == IF split THEN TileOf(p) \div TilesPerSegment(x) ELSE 0

KeyPlace(x, s, p) ==
  [segment |-> s, pass |-> PassOf(x, TileOf(p)), pos |-> p, loaded |-> TRUE,
   sink |-> PassOf(x, TileOf(p)) # "body" /\ p < SINKS,
   tail |-> PassOf(x, TileOf(p)) = "tail" /\ p >= x.len - TAIL]

(* What token t of a request is to find in segment s, and in all of them.  *)
Value(x, s, t) == {KeyPlace(x, s, p) : p \in {k \in 0 .. LastKey(x, t) : SegmentOf(x, k) = s}}
Full(x, t) == {KeyPlace(x, SegmentOf(x, p), p) : p \in 0 .. LastKey(x, t)}

LEMMA TailFromTyped ==
  ASSUME NEW x, IsRequest(x)
  PROVE  TailFrom(x) \in Nat
<1>1. x.len - TAIL \in Int BY SplitAssumption DEF IsRequest
<1>2. (x.len - TAIL) \div TILE_SIZE \in Int BY <1>1, SplitAssumption, DivDef
<1> QED BY <1>2 DEF TailFrom, Most

(* The three passes share the tiles of a program out.                      *)
LEMMA PassesAre ==
  ASSUME NEW x, IsRequest(x), NEW lo \in Nat, NEW hi \in Int
  PROVE  Passes(x, lo, hi) = {<<PassOf(x, j), j>> : j \in lo .. hi - 1}
<1>0. TailFrom(x) \in Nat /\ TAIL \in Nat /\ SINKS \in Nat BY TailFromTyped, SplitAssumption
<1>1. /\ TAIL > 0 => TailStart(x, hi) = TailFrom(x)
      /\ ~(TAIL > 0) => TailStart(x, hi) = hi
  BY DEF TailStart, TailFrom
<1>2. TailStart(x, hi) \in Int BY <1>0, <1>1
<1> DEFINE sk == SinkTiles(x, lo, hi)
           fr == RestFrom(x, lo, hi)
<1>3. /\ fr \in Nat
      /\ \/ /\ sk = {0} /\ fr = 1
            /\ SINKS > 0 /\ lo = 0 /\ hi > 0 /\ TailStart(x, hi) > 0
         \/ /\ sk = {} /\ fr = lo
            /\ ~(SINKS > 0 /\ lo = 0 /\ hi > 0 /\ TailStart(x, hi) > 0)
  BY DEF SinkTiles, RestFrom
<1>4. ASSUME NEW j
      PROVE  /\ j \in BodyTiles(x, lo, hi) <=> j \in Int /\ fr <= j /\ j < hi /\ j < TailStart(x, hi)
             /\ j \in TailTiles(x, lo, hi) <=> /\ TAIL > 0 /\ j \in Int /\ fr <= j /\ j < hi
                                               /\ TailStart(x, hi) <= j
  <2> HIDE DEF fr
  <2> QED BY <1>0, <1>2, <1>3 DEF BodyTiles, TailTiles, Least, Most, fr
<1> HIDE DEF sk, fr
<1>5. ASSUME NEW j \in lo .. hi - 1
      PROVE  /\ j \in sk <=> PassOf(x, j) = "sinks"
             /\ j \in BodyTiles(x, lo, hi) <=> PassOf(x, j) = "body"
             /\ j \in TailTiles(x, lo, hi) <=> PassOf(x, j) = "tail"
             /\ PassOf(x, j) \in {"sinks", "body", "tail"}
  BY <1>0, <1>1, <1>2, <1>3, <1>4 DEF PassOf
<1>6. /\ \A j \in sk : j \in lo .. hi - 1
      /\ \A j \in BodyTiles(x, lo, hi) : j \in lo .. hi - 1
      /\ \A j \in TailTiles(x, lo, hi) : j \in lo .. hi - 1
  BY <1>3, <1>4
<1>7. Passes(x, lo, hi) = {<<"sinks", j>> : j \in sk}
                          \union {<<"body", j>> : j \in BodyTiles(x, lo, hi)}
                          \union {<<"tail", j>> : j \in TailTiles(x, lo, hi)}
  BY DEF Passes, sk
<1> DEFINE P == {<<PassOf(x, j), j>> : j \in lo .. hi - 1}
<1>8. \A w \in Passes(x, lo, hi) : w \in P BY <1>5, <1>6, <1>7
<1>9. \A w \in P : w \in Passes(x, lo, hi) BY <1>5, <1>7
<1> QED BY <1>8, <1>9

LEMMA TileIs ==
  ASSUME NEW j \in Int, NEW p \in Int
  PROVE  p \in j * TILE_SIZE .. j * TILE_SIZE + TILE_SIZE - 1 <=> TileOf(p) = j
<1>0. TILE_SIZE \in Nat \ {0} BY SplitAssumption
<1>1. p \div TILE_SIZE \in Int BY <1>0, DivDef
<1>2. j <= p \div TILE_SIZE <=> TILE_SIZE * j <= p BY <1>0, DivFrom
<1>3. p \div TILE_SIZE < j + 1 <=> p < TILE_SIZE * (j + 1)
  <2>1. j + 1 \in Int OBVIOUS
  <2> QED BY <2>1, <1>0, DivBelow
<1>4. TILE_SIZE * (j + 1) = TILE_SIZE * j + TILE_SIZE /\ TILE_SIZE * j \in Int BY <1>0, MulNext
<1>5. TILE_SIZE * j = j * TILE_SIZE BY <1>0
<1> QED BY <1>0, <1>1, <1>2, <1>3, <1>4, <1>5 DEF TileOf

LEMMA SegmentSize ==
  ASSUME NEW x, IsRequest(x)
  PROVE  /\ TilesPerSegment(x) \in Nat \ {0}
         /\ x.len <= (NUM_SEGMENTS * TILE_SIZE) * TilesPerSegment(x)
<1> DEFINE k == NUM_SEGMENTS * TILE_SIZE
<1>1. k \in Nat \ {0} BY SplitAssumption
<1>2. x.len \in Int /\ 0 < x.len BY DEF IsRequest
<1> HIDE DEF k
<1>3. CDiv(x.len, k) \in Int
  <2>1. 0 \in Int OBVIOUS
  <2> QED BY <1>1, <1>2, <2>1, CeilAbove
<1> DEFINE c == CDiv(x.len, k)
<1>4. c \in Int BY <1>3
<1> HIDE DEF c
<1>5. 0 < c <=> k * 0 < x.len
  <2>1. 0 \in Int OBVIOUS
  <2> QED BY <1>1, <1>2, <2>1, CeilAbove DEF c
<1>6. c < c <=> k * c < x.len BY <1>1, <1>2, <1>4, CeilAbove DEF c
<1>7. k * 0 = 0 /\ k * c \in Int BY <1>1, <1>4
<1>8. c \in Nat \ {0} /\ x.len <= k * c BY <1>2, <1>4, <1>5, <1>6, <1>7
<1> QED BY <1>8 DEF TilesPerSegment, k, c

(* The tiles of segment s are those that are s TilesPerSegment-fulls on.    *)
LEMMA SegmentIs ==
  ASSUME NEW x, IsRequest(x), NEW s \in Int, NEW j \in Int
  PROVE  /\ s * TilesPerSegment(x) <= j /\ j < (s + 1) * TilesPerSegment(x)
            <=> j \div TilesPerSegment(x) = s
         /\ s * TilesPerSegment(x) \in Int /\ (s + 1) * TilesPerSegment(x) \in Int
<1> DEFINE k == TilesPerSegment(x)
<1>0. k \in Nat \ {0} BY SegmentSize
<1> HIDE DEF k
<1>1. j \div k \in Int BY <1>0, DivDef
<1>2. s <= j \div k <=> k * s <= j BY <1>0, DivFrom
<1>3. j \div k < s + 1 <=> j < k * (s + 1)
  <2>1. s + 1 \in Int OBVIOUS
  <2> QED BY <2>1, <1>0, DivBelow
<1>4. k * s = s * k /\ k * (s + 1) = (s + 1) * k /\ s * k \in Int /\ (s + 1) * k \in Int BY <1>0
<1>5. s * k <= j /\ j < (s + 1) * k <=> j \div k = s BY <1>1, <1>2, <1>3, <1>4
<1> QED BY <1>4, <1>5 DEF k

(* The keys a row of block b sees are below the block's prefix.              *)
LEMMA PrefixHolds ==
  ASSUME NEW x, IsRequest(x), NEW b \in Nat, NEW t \in 0 .. x.q - 1,
         t <= b * BLOCK_Q + ((BLOCK_M - 1) \div QueriesPerKv)
  PROVE  /\ MaxPrefix(x, b) \in Nat /\ LastKey(x, t) < MaxPrefix(x, b)
         /\ LastKey(x, t) \in Nat /\ QueryAbs(x, b, t) = LastKey(x, t)
<1> DEFINE c == b * BLOCK_Q
           e == (BLOCK_M - 1) \div QueriesPerKv
<1>1. c \in Int BY BlockSize
<1>2. e \in Int
  <2>1. BLOCK_M - 1 \in Int BY SplitAssumption
  <2> QED BY <2>1, SplitAssumption, DivDef
<1>3. x.q \in Nat /\ x.len \in Nat /\ x.q <= x.len /\ t \in Nat /\ t < x.q /\ t <= c + e
  BY DEF IsRequest
<1>4. MaxPrefix(x, b) = Least((x.len - x.q) + c + e + 1, x.len) BY DEF MaxPrefix
<1> HIDE DEF c, e
<1> QED BY <1>1, <1>2, <1>3, <1>4 DEF Least, LastKey, QueryAbs

(* Of the keys a row sees, a program loads those of its own segment.         *)
LEMMA TilesOfSegment ==
  ASSUME NEW x, IsRequest(x), NEW b \in Nat, NEW t \in 0 .. x.q - 1,
         t <= b * BLOCK_Q + ((BLOCK_M - 1) \div QueriesPerKv),
         NEW s \in Segments, ~split => s = 0
  PROVE  /\ LoopLo(x, s) \in Nat /\ LoopHi(x, b, s) \in Int
         /\ \A p \in 0 .. LastKey(x, t) :
              TileOf(p) \in LoopLo(x, s) .. LoopHi(x, b, s) - 1 <=> SegmentOf(x, p) = s
<1> DEFINE k == TilesPerSegment(x)
           m == MaxPrefix(x, b)
           d == CDiv(m, TILE_SIZE)
<1>1. m \in Nat /\ LastKey(x, t) < m /\ LastKey(x, t) \in Nat BY PrefixHolds
<1>2. TILE_SIZE \in Nat \ {0} /\ s \in Nat BY SplitAssumption DEF Segments
<1>3. k \in Nat \ {0} BY SegmentSize
<1>4. d \in Int
  <2> HIDE DEF m
  <2>1. 0 \in Int /\ m \in Int BY <1>1
  <2> QED BY <1>2, <2>1, CeilAbove
<1>5. s * k \in Nat /\ (s + 1) * k \in Int
  <2> HIDE DEF k
  <2> QED BY <1>2, <1>3
<1>6. /\ LoopLo(x, s) = IF split THEN s * k ELSE 0
      /\ LoopHi(x, b, s) = IF split THEN Least((s + 1) * k, d) ELSE d
  BY DEF LoopLo, LoopHi
<1>7. ASSUME NEW p \in 0 .. LastKey(x, t)
      PROVE  TileOf(p) \in Nat /\ TileOf(p) < d
  <2>1. p \in Nat /\ p < m BY <1>1
  <2>2. TileOf(p) \in Nat BY <1>2, <2>1, DivPos DEF TileOf
  <2>3. TILE_SIZE * TileOf(p) <= p
    <3>1. p \in Int /\ TileOf(p) \in Int BY <2>1, <2>2
    <3>2. TileOf(p) <= p \div TILE_SIZE BY <3>1 DEF TileOf
    <3> QED BY <1>2, <3>1, <3>2, DivFrom
  <2>4. TILE_SIZE * TileOf(p) < m /\ m \in Int /\ TileOf(p) \in Int
    <3>1. TILE_SIZE * TileOf(p) \in Int BY <1>2, <2>2
    <3> HIDE DEF m
    <3> QED BY <1>1, <2>1, <2>2, <2>3, <3>1
  <2> HIDE DEF m
  <2>5. TileOf(p) < CDiv(m, TILE_SIZE) BY <1>2, <2>4, CeilAbove
  <2> QED BY <2>2, <2>5
<1>8. ASSUME NEW p \in 0 .. LastKey(x, t)
      PROVE  TileOf(p) \in LoopLo(x, s) .. LoopHi(x, b, s) - 1 <=> SegmentOf(x, p) = s
  <2>1. TileOf(p) \in Nat /\ TileOf(p) < d BY <1>7
  <2>2. CASE split
    <3>1. s \in Int /\ TileOf(p) \in Int BY <1>2, <2>1
    <3>2. s * k <= TileOf(p) /\ TileOf(p) < (s + 1) * k <=> TileOf(p) \div k = s
      BY <3>1, SegmentIs
    <3>3. SegmentOf(x, p) = TileOf(p) \div k BY <2>2 DEF SegmentOf
    <3> HIDE DEF k, d
    <3> QED BY <1>4, <1>5, <1>6, <2>1, <2>2, <3>2, <3>3 DEF Least
  <2>3. CASE ~split
    <3> HIDE DEF d
    <3> QED BY <1>4, <1>6, <2>1, <2>3 DEF SegmentOf
  <2> QED BY <2>2, <2>3
<1>9. LoopLo(x, s) \in Nat /\ LoopHi(x, b, s) \in Int
  <2> HIDE DEF k, d
  <2> QED BY <1>4, <1>5, <1>6 DEF Least
<1> QED BY <1>8, <1>9

(* What a program collects for a row depends on the row and the segment only. *)
LEMMA Collects ==
  ASSUME NEW x, IsRequest(x), NEW b \in Nat, NEW t \in 0 .. x.q - 1,
         t <= b * BLOCK_Q + ((BLOCK_M - 1) \div QueriesPerKv),
         NEW s \in Segments, ~split => s = 0
  PROVE  Collected(x, b, s, t) = Value(x, s, t)
<1> DEFINE lo == LoopLo(x, s)
           hi == LoopHi(x, b, s)
<1>1. lo \in Nat /\ hi \in Int BY TilesOfSegment
<1>2. \A p \in 0 .. LastKey(x, t) : TileOf(p) \in lo .. hi - 1 <=> SegmentOf(x, p) = s
  BY TilesOfSegment
<1>3. /\ MaxPrefix(x, b) \in Nat /\ LastKey(x, t) < MaxPrefix(x, b)
      /\ LastKey(x, t) \in Nat /\ QueryAbs(x, b, t) = LastKey(x, t)
  BY PrefixHolds
<1>4. TILE_SIZE \in Nat \ {0} BY SplitAssumption
<1>5. Passes(x, lo, hi) = {<<PassOf(x, j), j>> : j \in lo .. hi - 1} BY <1>1, PassesAre
<1> HIDE DEF lo, hi
<1>6. ASSUME NEW p \in 0 .. LastKey(x, t)
      PROVE  KeyRead(x, b, s, PassOf(x, TileOf(p)), p) = KeyPlace(x, s, p)
  <2>1. p < MaxPrefix(x, b) BY <1>3
  <2> QED BY <2>1 DEF KeyRead, KeyPlace
<1>7. Collected(x, b, s, t) =
        UNION {{KeyRead(x, b, s, w[1], p) :
                  p \in {k \in w[2] * TILE_SIZE .. w[2] * TILE_SIZE + TILE_SIZE - 1 : k <= LastKey(x, t)}} :
               w \in Passes(x, lo, hi)}
  BY <1>3 DEF Collected, lo, hi
<1>8. ASSUME NEW e \in Collected(x, b, s, t) PROVE e \in Value(x, s, t)
  <2>1. PICK w \in Passes(x, lo, hi) :
           \E p \in {k \in w[2] * TILE_SIZE .. w[2] * TILE_SIZE + TILE_SIZE - 1 : k <= LastKey(x, t)} :
             e = KeyRead(x, b, s, w[1], p)
    BY <1>7
  <2>2. PICK j \in lo .. hi - 1 : w = <<PassOf(x, j), j>> BY <1>5
  <2>3. w[1] = PassOf(x, j) /\ w[2] = j /\ j \in Nat BY <2>2, <1>1
  <2>4. PICK p \in j * TILE_SIZE .. j * TILE_SIZE + TILE_SIZE - 1 :
           p <= LastKey(x, t) /\ e = KeyRead(x, b, s, PassOf(x, j), p)
    BY <2>1, <2>3
  <2>5. j * TILE_SIZE \in Nat BY <1>4, <2>3
  <2>6. p \in Int /\ j \in Int /\ p \in 0 .. LastKey(x, t) BY <1>3, <2>3, <2>4, <2>5
  <2>7. TileOf(p) = j BY <2>4, <2>6, TileIs
  <2>8. SegmentOf(x, p) = s BY <1>2, <2>6, <2>7
  <2>9. e = KeyPlace(x, s, p) BY <1>6, <2>4, <2>6, <2>7
  <2> QED BY <2>6, <2>8, <2>9 DEF Value
<1>9. ASSUME NEW e \in Value(x, s, t) PROVE e \in Collected(x, b, s, t)
  <2>1. PICK p \in 0 .. LastKey(x, t) : SegmentOf(x, p) = s /\ e = KeyPlace(x, s, p) BY DEF Value
  <2> DEFINE j == TileOf(p)
  <2>2. j \in lo .. hi - 1 BY <1>2, <2>1
  <2>3. p \in Int /\ j \in Int /\ p <= LastKey(x, t) BY <1>1, <1>3, <2>2
  <2>4. p \in j * TILE_SIZE .. j * TILE_SIZE + TILE_SIZE - 1
    <3>1. TileOf(p) = j OBVIOUS
    <3> HIDE DEF j
    <3> QED BY <2>3, <3>1, TileIs
  <2>5. e = KeyRead(x, b, s, PassOf(x, j), p) BY <1>6, <2>1
  <2> HIDE DEF j
  <2> DEFINE w == <<PassOf(x, j), j>>
  <2>6. w \in Passes(x, lo, hi) BY <1>5, <2>2
  <2>7. w[1] = PassOf(x, j) /\ w[2] = j OBVIOUS
  <2> HIDE DEF w
  <2>8. p \in {k \in w[2] * TILE_SIZE .. w[2] * TILE_SIZE + TILE_SIZE - 1 : k <= LastKey(x, t)}
    BY <2>3, <2>4, <2>7
  <2>9. e = KeyRead(x, b, s, w[1], p) BY <2>5, <2>7
  <2> QED BY <1>7, <2>6, <2>8, <2>9
<1> QED BY <1>8, <1>9
-----------------------------------------------------------------------------
(* The inductive invariant *)

TokenOf(r) == r - RequestOf(r).start

(* The block that is the row's own; the block before it may store it as well. *)
OwnBlockOf(r) ==
  LET i == CHOOSE i \in DOMAIN seqs : seqs[i].start <= r /\ r < seqs[i].start + seqs[i].q
  IN FirstBlock(i) + (TokenOf(r) \div BLOCK_Q)

RowValue(r, s) == Value(RequestOf(r), s, TokenOf(r))
RowFull(r) == Full(RequestOf(r), TokenOf(r))

ShapeInv ==
  /\ phase \in {"idle", "run", "done"} /\ split \in BOOLEAN
  /\ phase = "idle" => seqs = <<>> /\ split = FALSE /\ left = {}
  /\ phase # "idle" => seqs \in Batches /\ split = UseSplit(seqs)
  /\ phase = "done" => left = {}
  /\ left \subseteq Blocks \X (IF split THEN Segments ELSE {0})
  /\ segm \in [SegmRows -> [Heads -> [Segments -> SUBSET (Reads \union {Stale})]]]
  /\ out \in [OutRows -> [Heads -> SUBSET (Reads \union {Stale})]]

(* A partial is stale or what its row is to find in its segment; it is the
   latter once the row's own program has run. *)
PartInv ==
  \A r \in SegmRows, h \in Heads, s \in Segments :
    /\ ~split \/ r >= NumTokens => segm[r][h][s] = {Stale}
    /\ split /\ r < NumTokens =>
         /\ segm[r][h][s] \in {{Stale}, RowValue(r, s)}
         /\ /\ s \in Joined(RequestOf(r))
            /\ OwnBlockOf(r) \in Blocks /\ <<OwnBlockOf(r), s>> \notin left
            => segm[r][h][s] = RowValue(r, s)

(* The same of the result without a split; with one it is stale until it is
   the whole.  The finished rows hold each key they see. *)
OutInv ==
  \A r \in OutRows, h \in Heads :
    /\ r >= NumTokens => out[r][h] = {Stale}
    /\ r < NumTokens =>
         /\ phase = "run" /\ split => out[r][h] = {Stale}
         /\ phase = "run" /\ ~split =>
              /\ out[r][h] \in {{Stale}, RowFull(r)}
              /\ OwnBlockOf(r) \in Blocks /\ <<OwnBlockOf(r), 0>> \notin left
                 => out[r][h] = RowFull(r)
         /\ phase = "done" => out[r][h] = RowFull(r)

IInv == ShapeInv /\ PartInv /\ OutInv
-----------------------------------------------------------------------------
(* The rows of a launch *)

LEMMA RowRequest ==
  ASSUME seqs \in Batches, NEW r \in Nat, NEW i \in 1 .. Len(seqs), Has(seqs, i, r)
  PROVE  /\ RequestOf(r) = seqs[i] /\ IsRequest(seqs[i])
         /\ TokenOf(r) = r - seqs[i].start /\ TokenOf(r) \in 0 .. seqs[i].q - 1
         /\ OwnBlockOf(r) = FirstBlock(i) + (TokenOf(r) \div BLOCK_Q)
<1> DEFINE P(k) == seqs[k].start <= r /\ r < seqs[k].start + seqs[k].q
           c == CHOOSE k \in DOMAIN seqs : P(k)
<1>1. DOMAIN seqs = 1 .. Len(seqs) BY BatchShape
<1>2. \A k \in 1 .. Len(seqs) : Has(seqs, k, r) => k = i BY OneRequest
<1>3. \A k \in DOMAIN seqs : P(k) => k = i BY <1>1, <1>2 DEF Has
<1>4. i \in DOMAIN seqs /\ P(i) BY <1>1 DEF Has
<1>5. c \in DOMAIN seqs /\ P(c) BY <1>4
<1>6. c = i BY <1>3, <1>5
<1>7. RequestOf(r) = seqs[c] BY DEF RequestOf
<1>8. TokenOf(r) = r - seqs[i].start BY <1>6, <1>7 DEF TokenOf
<1>9. /\ seqs[i].start \in Nat /\ seqs[i].q \in Nat /\ seqs[i].len \in Nat
      /\ seqs[i].q <= seqs[i].len
  BY BatchShape
<1>10. IsRequest(seqs[i]) /\ TokenOf(r) \in 0 .. seqs[i].q - 1 BY <1>8, <1>9, SMTT(20) DEF Has, IsRequest
<1>11. OwnBlockOf(r) = FirstBlock(c) + (TokenOf(r) \div BLOCK_Q) BY DEF OwnBlockOf
<1> QED BY <1>6, <1>7, <1>8, <1>10, <1>11

(* Every row of the launch has a request.                                   *)
LEMMA RowTyped ==
  ASSUME seqs \in Batches, NEW r \in Nat, r < NumTokens
  PROVE  /\ \E i \in 1 .. Len(seqs) : Has(seqs, i, r) /\ RequestOf(r) = seqs[i]
         /\ IsRequest(RequestOf(r)) /\ TokenOf(r) \in 0 .. RequestOf(r).q - 1
<1>1. PICK i \in 1 .. Len(seqs) : Has(seqs, i, r) BY NumTokensIs, OneRequest
<1> QED BY <1>1, RowRequest

(* A row that a program stores is one of the request's, within the block.    *)
LEMMA StoredIs ==
  ASSUME seqs \in Batches, NEW g \in Nat, NEW r \in Nat, NEW h, Stored(g, r, h) # {}
  PROVE  /\ r < NumTokens /\ RequestOf(r) = seqs[SeqOf(g)] /\ LocalBlock(g) \in Nat
         /\ TokenOf(r) = r - seqs[SeqOf(g)].start
         /\ TokenOf(r) <= LocalBlock(g) * BLOCK_Q + ((BLOCK_M - 1) \div QueriesPerKv)
<1> DEFINE i == SeqOf(g)
           b == LocalBlock(g)
           e == (BLOCK_M - 1) \div QueriesPerKv
<1>1. i \in 1 .. Len(seqs) /\ b \in Nat BY SeqOfTyped
<1>2. PICK m \in 0 .. BLOCK_M - 1 : RowToken(b, m) < seqs[i].q /\ r = seqs[i].start + RowToken(b, m)
  BY DEF Stored, RowsOf
<1>3. QueriesPerKv \in Nat \ {0} /\ BLOCK_M \in Nat BY SplitAssumption
<1>4. m \in Nat /\ m \in Int /\ BLOCK_M - 1 \in Int /\ m <= BLOCK_M - 1 BY <1>3
<1>5. m \div QueriesPerKv \in Nat /\ m \div QueriesPerKv <= e /\ e \in Int
  BY <1>3, <1>4, DivPos, DivDef, DivMono
<1>6. b * BLOCK_Q \in Nat BY <1>1, BlockSize
<1>7. seqs[i].start \in Nat /\ seqs[i].q \in Nat BY <1>1, BatchShape
<1>8. RowToken(b, m) = b * BLOCK_Q + (m \div QueriesPerKv) BY DEF RowToken
<1> HIDE DEF i, b, e
<1>9. RowToken(b, m) \in Nat /\ RowToken(b, m) <= b * BLOCK_Q + e BY <1>5, <1>6, <1>8
<1>10. Has(seqs, i, r) BY <1>2, <1>7, <1>9 DEF Has
<1>11. r < NumTokens BY <1>1, <1>10, NumTokensIs, OneRequest
<1>12. RequestOf(r) = seqs[i] /\ TokenOf(r) = r - seqs[i].start BY <1>1, <1>10, RowRequest
<1>13. TokenOf(r) = RowToken(b, m) BY <1>2, <1>7, <1>9, <1>12
<1> QED BY <1>1, <1>9, <1>11, <1>12, <1>13 DEF i, b, e

(* A row's own program has it and stores it.                                 *)
LEMMA OwnStores ==
  ASSUME seqs \in Batches, NEW r \in Nat, r < NumTokens, NEW h \in Heads
  PROVE  /\ OwnBlockOf(r) \in Blocks /\ OwnBlockOf(r) \in Nat
         /\ Stored(OwnBlockOf(r), r, h) # {} /\ seqs[SeqOf(OwnBlockOf(r))] = RequestOf(r)
         /\ LocalBlock(OwnBlockOf(r)) * BLOCK_Q < RequestOf(r).q
<1>1. PICK i \in 1 .. Len(seqs) : Has(seqs, i, r) BY NumTokensIs, OneRequest
<1> DEFINE x == seqs[i]
           t == TokenOf(r)
           c == t \div BLOCK_Q
           e == t % BLOCK_Q
           g == OwnBlockOf(r)
           m == h + QueriesPerKv * e
<1>2. RequestOf(r) = x /\ t = r - x.start /\ t \in 0 .. x.q - 1 /\ g = FirstBlock(i) + c
  BY <1>1, RowRequest
<1>3. x.start \in Nat /\ x.q \in Nat BY BatchShape
<1>4. t \in Nat /\ t < x.q BY <1>2, <1>3
<1>5. c \in Nat /\ e \in 0 .. BLOCK_Q - 1 /\ t = BLOCK_Q * c + e
  <2> HIDE DEF t
  <2>1. t \in Int BY <1>4
  <2> QED BY <1>4, <2>1, BlockSize, DivPos, DivDef
<1>6. QueriesPerKv \in Nat \ {0} /\ h \in 0 .. QueriesPerKv - 1 /\ BLOCK_M \in Nat
  BY SplitAssumption DEF Heads
<1> HIDE DEF x, t, c, e, g
<1>7. c * BLOCK_Q = BLOCK_Q * c /\ c * BLOCK_Q \in Nat /\ BLOCK_Q \in Nat \ {0} BY <1>5, BlockSize
<1>8. c * BLOCK_Q < x.q BY <1>3, <1>4, <1>5, <1>7
<1>9. g \in Blocks /\ SeqOf(g) = i /\ LocalBlock(g) = c
  <2>1. c * BLOCK_Q < seqs[i].q BY <1>8 DEF x
  <2> QED BY <1>2, <1>5, <2>1, OwnBlock
<1>10. g \in Nat
  <2>1. FirstBlock(i) \in Nat BY FirstBlockTyped
  <2> QED BY <1>2, <1>5, <2>1
<1>11. m \in 0 .. BLOCK_M - 1
  <2>1. e \in Nat /\ e <= BLOCK_Q - 1 /\ BLOCK_Q - 1 \in Int BY <1>5, <1>7
  <2>2. QueriesPerKv * e <= QueriesPerKv * (BLOCK_Q - 1) BY <1>6, <2>1, MulMono
  <2>3. QueriesPerKv * (BLOCK_Q - 1) = BLOCK_Q * QueriesPerKv - QueriesPerKv BY <1>6, <1>7
  <2>4. BLOCK_Q * QueriesPerKv <= BLOCK_M /\ BLOCK_Q * QueriesPerKv \in Nat BY <1>6, <1>7, BlockSize
  <2>5. QueriesPerKv * e \in Nat BY <1>6, <2>1
  <2> QED BY <1>6, <2>2, <2>3, <2>4, <2>5
<1>12. m \div QueriesPerKv = e /\ m % QueriesPerKv = h
  <2>1. h \in Int /\ e \in Int /\ m \in Int BY <1>5, <1>6, <1>7, <1>11
  <2>2. h \div QueriesPerKv = 0
    <3>1. QueriesPerKv * 1 = QueriesPerKv /\ h < QueriesPerKv /\ h \in Nat BY <1>6
    <3>2. h \div QueriesPerKv \in Nat BY <1>6, <3>1, DivPos
    <3>3. h \div QueriesPerKv < 1 BY <1>6, <2>1, <3>1, DivBelow
    <3> QED BY <3>2, <3>3
  <2>3. m \div QueriesPerKv = (h \div QueriesPerKv) + e BY <1>6, <2>1, DivAdd
  <2>4. m \div QueriesPerKv = e BY <2>1, <2>2, <2>3
  <2> HIDE DEF m
  <2>5. m = QueriesPerKv * (m \div QueriesPerKv) + (m % QueriesPerKv) BY <1>6, <2>1, DivDef
  <2>6. m % QueriesPerKv \in 0 .. QueriesPerKv - 1 BY <1>6, <2>1, DivDef
  <2>7. m = h + QueriesPerKv * e /\ QueriesPerKv * e \in Int BY <1>6, <2>1 DEF m
  <2> QED BY <1>6, <2>1, <2>4, <2>5, <2>6, <2>7
<1> HIDE DEF m
<1>13. RowToken(c, m) = t /\ RowHead(m) = h BY <1>5, <1>7, <1>12 DEF RowToken, RowHead
<1>14. r = x.start + t BY <1>2, <1>3
<1>15. m \in Stored(g, r, h)
  <2>1. m \in RowsOf(x, c) BY <1>4, <1>11, <1>13 DEF RowsOf
  <2> QED BY <1>9, <1>13, <1>14, <2>1 DEF Stored, x
<1> QED BY <1>2, <1>8, <1>9, <1>10, <1>15 DEF g, x
-----------------------------------------------------------------------------
(* The segments of a request *)

(* Segment s has keys when it is one of those that are joined.               *)
LEMMA JoinedHave ==
  ASSUME NEW x, IsRequest(x), NEW s \in Segments, split
  PROVE  s \in Joined(x) <=> HasKeys(x, s)
<1> DEFINE k == TilesPerSegment(x)
           n == k * TILE_SIZE
<1>1. k \in Nat \ {0} /\ TILE_SIZE \in Nat \ {0} /\ s \in Nat
  BY SegmentSize, SplitAssumption DEF Segments
<1> HIDE DEF k
<1>2. n \in Nat \ {0} /\ n * s = s * k * TILE_SIZE BY <1>1
<1> HIDE DEF n
<1>3. x.len \in Int /\ s \in Int BY <1>1 DEF IsRequest
<1>4. s < CDiv(x.len, n) <=> n * s < x.len BY <1>2, <1>3, CeilAbove
<1>5. HasKeys(x, s) <=> s * k * TILE_SIZE < x.len BY DEF HasKeys, k
<1>6. s \in Joined(x) <=> s < CDiv(x.len, n) BY DEF Joined, n, k
<1> QED BY <1>2, <1>4, <1>5, <1>6

(* The segment of a key is one of those that are joined.                     *)
LEMMA SegmentJoined ==
  ASSUME NEW x, IsRequest(x), NEW p \in Nat, p < x.len, split
  PROVE  SegmentOf(x, p) \in Segments /\ SegmentOf(x, p) \in Joined(x)
<1> DEFINE k == TilesPerSegment(x)
           j == TileOf(p)
           s == SegmentOf(x, p)
<1>1. k \in Nat \ {0} /\ x.len <= (NUM_SEGMENTS * TILE_SIZE) * k BY SegmentSize
<1>2. TILE_SIZE \in Nat \ {0} /\ NUM_SEGMENTS \in Nat \ {0} /\ x.len \in Nat
  BY SplitAssumption DEF IsRequest
<1>3. j \in Nat /\ TILE_SIZE * j <= p
  <2>1. j \in Nat BY <1>2, DivPos DEF TileOf
  <2>2. p \in Int /\ j \in Int /\ j <= p \div TILE_SIZE BY <2>1 DEF TileOf
  <2> HIDE DEF j
  <2> QED BY <1>2, <2>1, <2>2, DivFrom
<1>4. s = j \div k BY DEF SegmentOf
<1> HIDE DEF k, j, s
<1>5. s \in Nat /\ k * s <= j
  <2>1. s \in Nat BY <1>1, <1>3, <1>4, DivPos
  <2>2. s \in Int /\ j \in Int /\ s <= j \div k BY <1>3, <1>4, <2>1
  <2> QED BY <1>1, <2>1, <2>2, DivFrom
<1> DEFINE n == TILE_SIZE * k
<1>6. n \in Nat \ {0} /\ n * s = TILE_SIZE * (k * s) /\ n * s \in Nat /\ k * s \in Nat
      /\ n * NUM_SEGMENTS = (NUM_SEGMENTS * TILE_SIZE) * k
      /\ s * k * TILE_SIZE = n * s /\ n * NUM_SEGMENTS \in Nat
  BY <1>1, <1>2, <1>5
<1>7. n * s <= p
  <2>1. TILE_SIZE * (k * s) <= TILE_SIZE * j BY <1>2, <1>3, <1>5, <1>6, MulMono
  <2>2. TILE_SIZE * j \in Int BY <1>2, <1>3
  <2> QED BY <1>3, <1>6, <2>1, <2>2
<1> HIDE DEF n
<1>8. s < NUM_SEGMENTS
  <2> SUFFICES ASSUME NUM_SEGMENTS <= s PROVE FALSE BY <1>2, <1>5
  <2>1. n * NUM_SEGMENTS <= n * s BY <1>2, <1>5, <1>6, MulMono
  <2> QED BY <1>1, <1>2, <1>6, <1>7, <2>1
<1>9. s \in Segments BY <1>2, <1>5, <1>8 DEF Segments
<1>10. HasKeys(x, s)
  <2>1. s * TilesPerSegment(x) * TILE_SIZE < x.len BY <1>2, <1>6, <1>7 DEF k
  <2> QED BY <2>1 DEF HasKeys
<1>11. s \in Joined(x) BY <1>9, <1>10, JoinedHave
<1> QED BY <1>9, <1>11 DEF s

LEMMA LastKeyTyped ==
  ASSUME NEW x, IsRequest(x), NEW t \in 0 .. x.q - 1
  PROVE  LastKey(x, t) \in Nat /\ LastKey(x, t) < x.len
BY DEF IsRequest, LastKey

LEMMA PlaceTyped ==
  ASSUME NEW x, NEW s \in Segments, NEW p \in Nat
  PROVE  KeyPlace(x, s, p) \in Reads
<1>1. PassOf(x, TileOf(p)) \in {"sinks", "body", "tail"} BY DEF PassOf
<1> QED BY <1>1 DEF KeyPlace, Reads

LEMMA ValueTyped ==
  ASSUME NEW x, IsRequest(x), NEW t \in 0 .. x.q - 1, NEW s \in Segments
  PROVE  Value(x, s, t) \subseteq Reads
<1>1. \A p \in 0 .. LastKey(x, t) : KeyPlace(x, s, p) \in Reads BY LastKeyTyped, PlaceTyped
<1> QED BY <1>1 DEF Value

(* Without a split there is one segment.                                     *)
LEMMA ValueFull ==
  ASSUME NEW x, IsRequest(x), NEW t \in 0 .. x.q - 1, ~split
  PROVE  Value(x, 0, t) = Full(x, t)
<1>1. \A p : SegmentOf(x, p) = 0 BY DEF SegmentOf
<1> QED BY <1>1 DEF Value, Full

(* reduce_segments joins all keys of the row.                                *)
LEMMA JoinFull ==
  ASSUME NEW x, IsRequest(x), NEW t \in 0 .. x.q - 1, split
  PROVE  UNION {Value(x, s, t) : s \in Joined(x)} = Full(x, t)
<1>1. ASSUME NEW p \in 0 .. LastKey(x, t) PROVE SegmentOf(x, p) \in Joined(x)
  <2>1. p \in Nat /\ p < x.len BY LastKeyTyped DEF IsRequest
  <2> QED BY <2>1, SegmentJoined
<1>2. ASSUME NEW s \in Joined(x), NEW e \in Value(x, s, t) PROVE e \in Full(x, t)
  BY DEF Value, Full
<1>3. ASSUME NEW e \in Full(x, t) PROVE \E s \in Joined(x) : e \in Value(x, s, t)
  BY <1>1 DEF Value, Full
<1> QED BY <1>2, <1>3

LEMMA FullTyped ==
  ASSUME NEW x, IsRequest(x), NEW t \in 0 .. x.q - 1
  PROVE  /\ Full(x, t) \subseteq Reads
         /\ \A p \in 0 .. LastKey(x, t) : SegmentOf(x, p) \in Segments
<1>1. ASSUME NEW p \in 0 .. LastKey(x, t) PROVE SegmentOf(x, p) \in Segments
  <2>1. p \in Nat /\ p < x.len BY LastKeyTyped DEF IsRequest
  <2>2. CASE split BY <2>1, <2>2, SegmentJoined
  <2>3. CASE ~split BY <2>3, SplitAssumption DEF SegmentOf, Segments
  <2> QED BY <2>2, <2>3
<1>2. \A p \in 0 .. LastKey(x, t) : KeyPlace(x, SegmentOf(x, p), p) \in Reads
  BY <1>1, LastKeyTyped, PlaceTyped
<1> QED BY <1>1, <1>2 DEF Full
-----------------------------------------------------------------------------
(* The steps *)

LEMMA RowTypes ==
  ASSUME seqs \in Batches, NEW r \in Nat, r < NumTokens
  PROVE  /\ RowFull(r) \subseteq Reads
         /\ \A s \in Segments : RowValue(r, s) \subseteq Reads
         /\ ~split => RowValue(r, 0) = RowFull(r)
         /\ split => UNION {RowValue(r, s) : s \in Joined(RequestOf(r))} = RowFull(r)
<1>1. IsRequest(RequestOf(r)) /\ TokenOf(r) \in 0 .. RequestOf(r).q - 1 BY RowTyped
<1>2. RowFull(r) \subseteq Reads BY <1>1, FullTyped DEF RowFull
<1>3. \A s \in Segments : RowValue(r, s) \subseteq Reads BY <1>1, ValueTyped DEF RowValue
<1>4. ~split => RowValue(r, 0) = RowFull(r) BY <1>1, ValueFull DEF RowValue, RowFull
<1>5. split => UNION {RowValue(r, s) : s \in Joined(RequestOf(r))} = RowFull(r)
  BY <1>1, JoinFull DEF RowValue, RowFull
<1> QED BY <1>2, <1>3, <1>4, <1>5

(* A step that keeps the batch keeps what its rows are to find.              *)
LEMMA SameBatch ==
  ASSUME seqs' = seqs, split' = split
  PROVE  /\ NumTokens' = NumTokens /\ Blocks' = Blocks
         /\ \A r : /\ OwnBlockOf(r)' = OwnBlockOf(r) /\ RowFull(r)' = RowFull(r)
                   /\ Joined(RequestOf(r))' = Joined(RequestOf(r))
         /\ \A r, s : RowValue(r, s)' = RowValue(r, s)
<1>1. NumTokens' = NumTokens BY DEF NumTokens
<1>2. Blocks' = Blocks BY <1>1 DEF Blocks
<1>3. \A r : RequestOf(r)' = RequestOf(r) BY DEF RequestOf
<1>4. \A r : TokenOf(r)' = TokenOf(r) BY <1>3 DEF TokenOf
<1>5. \A r : OwnBlockOf(r)' = OwnBlockOf(r) BY <1>4 DEF OwnBlockOf, FirstBlock
<1>6. \A r : Joined(RequestOf(r))' = Joined(RequestOf(r)) BY <1>3 DEF Joined, TilesPerSegment
<1>7. \A r, s : RowValue(r, s)' = RowValue(r, s)
  BY <1>3, <1>4 DEF RowValue, Value, SegmentOf, LastKey, TilesPerSegment, KeyPlace, PassOf, TailFrom
<1>8. \A r : RowFull(r)' = RowFull(r)
  BY <1>3, <1>4 DEF RowFull, Full, SegmentOf, LastKey, TilesPerSegment, KeyPlace, PassOf, TailFrom
<1> QED BY <1>1, <1>2, <1>5, <1>6, <1>7, <1>8

(* A program of the launch and its segment.                                  *)
LEMMA LeftTyped ==
  ASSUME ShapeInv, NEW g, NEW s, <<g, s>> \in left
  PROVE  /\ phase = "run" /\ seqs \in Batches /\ g \in Nat /\ g \in Blocks
         /\ s \in Segments /\ (~split => s = 0)
<1>1. phase = "run" /\ seqs \in Batches BY DEF ShapeInv
<1>2. g \in Blocks /\ s \in (IF split THEN Segments ELSE {0}) BY DEF ShapeInv
<1>3. 0 \in Segments BY SplitAssumption DEF Segments
<1>4. g \in Nat BY <1>2 DEF Blocks
<1> QED BY <1>1, <1>2, <1>3, <1>4

(* What a program stores for a row is what the row is to find in the segment. *)
LEMMA StoresValue ==
  ASSUME ShapeInv, NEW g, NEW s, <<g, s>> \in left, NEW r \in Nat, NEW h, Stored(g, r, h) # {}
  PROVE  /\ r < NumTokens
         /\ Collected(seqs[SeqOf(g)], LocalBlock(g), s, r - seqs[SeqOf(g)].start) = RowValue(r, s)
<1>1. seqs \in Batches /\ g \in Nat /\ s \in Segments /\ (~split => s = 0) BY LeftTyped
<1>2. /\ r < NumTokens /\ RequestOf(r) = seqs[SeqOf(g)] /\ LocalBlock(g) \in Nat
      /\ TokenOf(r) = r - seqs[SeqOf(g)].start
      /\ TokenOf(r) <= LocalBlock(g) * BLOCK_Q + ((BLOCK_M - 1) \div QueriesPerKv)
  BY <1>1, StoredIs
<1>3. IsRequest(RequestOf(r)) /\ TokenOf(r) \in 0 .. RequestOf(r).q - 1 BY <1>1, <1>2, RowTyped
<1>4. Collected(RequestOf(r), LocalBlock(g), s, TokenOf(r)) = Value(RequestOf(r), s, TokenOf(r))
  BY <1>1, <1>2, <1>3, Collects
<1> QED BY <1>2, <1>4 DEF RowValue

(* A row's own program stores it, in every segment that is joined.           *)
LEMMA OwnProgram ==
  ASSUME ShapeInv, NEW g, NEW s, <<g, s>> \in left, NEW r \in Nat, r < NumTokens,
         NEW h \in Heads, OwnBlockOf(r) = g, split => s \in Joined(RequestOf(r))
  PROVE  /\ Stored(g, r, h) # {}
         /\ LocalBlock(g) * BLOCK_Q < seqs[SeqOf(g)].q /\ HasKeys(seqs[SeqOf(g)], s)
<1>1. seqs \in Batches /\ s \in Segments BY LeftTyped
<1>2. /\ Stored(g, r, h) # {} /\ seqs[SeqOf(g)] = RequestOf(r)
      /\ LocalBlock(g) * BLOCK_Q < RequestOf(r).q
  BY <1>1, OwnStores
<1>3. HasKeys(RequestOf(r), s)
  <2>1. CASE split
    <3>1. IsRequest(RequestOf(r)) BY <1>1, RowTyped
    <3> QED BY <1>1, <2>1, <3>1, JoinedHave
  <2>2. CASE ~split BY <2>2 DEF HasKeys
  <2> QED BY <2>1, <2>2
<1> QED BY <1>2, <1>3

(* The partials after a program of a split launch.                           *)
LEMMA ProgramParts ==
  ASSUME ShapeInv, NEW g, NEW s, Program(g, s), split,
         NEW r \in SegmRows, NEW h \in Heads, NEW z \in Segments
  PROVE  /\ \/ segm'[r][h][z] = segm[r][h][z]
            \/ r < NumTokens /\ segm'[r][h][z] = RowValue(r, z)
         /\ /\ r < NumTokens /\ z \in Joined(RequestOf(r)) /\ OwnBlockOf(r) = g /\ z = s
            => segm'[r][h][z] = RowValue(r, z)
<1> DEFINE x == seqs[SeqOf(g)]
           b == LocalBlock(g)
           stores == b * BLOCK_Q < x.q /\ HasKeys(x, s)
           value == Collected(x, b, s, r - x.start)
<1>1. <<g, s>> \in left BY DEF Program
<1>2. seqs \in Batches /\ g \in Nat /\ s \in Segments BY <1>1, LeftTyped
<1>3. r \in Nat BY DEF SegmRows
<1>4. Stored(g, r, h) # {} => r < NumTokens /\ value = RowValue(r, s) BY <1>1, <1>3, StoresValue
<1>5. DOMAIN segm[r][h] = Segments BY DEF ShapeInv
<1>6. /\ ~stores => segm'[r][h][z] = segm[r][h][z]
      /\ stores => segm'[r][h][z] = IF Stored(g, r, h) = {} THEN segm[r][h][z]
                                    ELSE IF z = s THEN value ELSE segm[r][h][z]
  BY <1>5 DEF Program
<1>7. /\ r < NumTokens /\ z \in Joined(RequestOf(r)) /\ OwnBlockOf(r) = g /\ z = s
      => stores /\ Stored(g, r, h) # {}
  BY <1>1, <1>3, OwnProgram
<1> HIDE DEF value, stores, x, b
<1> QED BY <1>4, <1>6, <1>7

(* The result after a program of a launch that is not split.                 *)
LEMMA ProgramOut ==
  ASSUME ShapeInv, NEW g, NEW s, Program(g, s), ~split, NEW r \in OutRows, NEW h \in Heads
  PROVE  /\ \/ out'[r][h] = out[r][h]
            \/ r < NumTokens /\ out'[r][h] = RowFull(r)
         /\ r < NumTokens /\ OwnBlockOf(r) = g => out'[r][h] = RowFull(r)
<1> DEFINE x == seqs[SeqOf(g)]
           b == LocalBlock(g)
           stores == b * BLOCK_Q < x.q /\ HasKeys(x, s)
           value == Collected(x, b, s, r - x.start)
<1>1. <<g, s>> \in left BY DEF Program
<1>2. seqs \in Batches /\ g \in Nat /\ s = 0 BY <1>1, LeftTyped
<1>3. r \in Nat BY DEF OutRows
<1>4. Stored(g, r, h) # {} => r < NumTokens /\ value = RowFull(r)
  <2>1. Stored(g, r, h) # {} => r < NumTokens /\ value = RowValue(r, s) BY <1>1, <1>3, StoresValue
  <2>2. r < NumTokens => RowValue(r, s) = RowFull(r) BY <1>2, <1>3, RowTypes
  <2> QED BY <2>1, <2>2
<1>5. /\ ~stores => out'[r][h] = out[r][h]
      /\ stores => out'[r][h] = IF Stored(g, r, h) = {} THEN out[r][h] ELSE value
  BY DEF Program
<1>6. r < NumTokens /\ OwnBlockOf(r) = g => stores /\ Stored(g, r, h) # {}
  BY <1>1, <1>3, OwnProgram
<1> HIDE DEF value, stores, x, b
<1> QED BY <1>4, <1>5, <1>6
-----------------------------------------------------------------------------
(* The invariant is kept *)

LEMMA StaleRows ==
  /\ [r \in SegmRows |-> [h \in Heads |-> [s \in Segments |-> {Stale}]]]
       \in [SegmRows -> [Heads -> [Segments -> SUBSET (Reads \union {Stale})]]]
  /\ [r \in OutRows |-> [h \in Heads |-> {Stale}]]
       \in [OutRows -> [Heads -> SUBSET (Reads \union {Stale})]]
OBVIOUS

LEMMA InitInv == Init => IInv
<1> SUFFICES ASSUME Init PROVE IInv OBVIOUS
<1>1. ShapeInv BY StaleRows DEF Init, ShapeInv
<1>2. NumTokens = 0 BY DEF Init, NumTokens
<1>3. PartInv BY DEF Init, PartInv
<1>4. \A r \in OutRows : r >= NumTokens /\ ~(r < NumTokens) BY <1>2 DEF OutRows
<1>5. OutInv BY <1>4 DEF Init, OutInv
<1> QED BY <1>1, <1>3, <1>5 DEF IInv

LEMMA LaunchInv ==
  ASSUME NEW b \in Batches, Launch(b)
  PROVE  IInv'
<1>1. ShapeInv'
  <2>1. UseSplit(b) \in BOOLEAN BY DEF UseSplit
  <2>2. segm' \in [SegmRows -> [Heads -> [Segments -> SUBSET (Reads \union {Stale})]]]
        /\ out' \in [OutRows -> [Heads -> SUBSET (Reads \union {Stale})]]
    BY StaleRows DEF Launch
  <2>3. seqs' \in Batches /\ split' = UseSplit(seqs)' BY DEF Launch, UseSplit
  <2>4. left' \subseteq Blocks' \X (IF split' THEN Segments ELSE {0}) BY DEF Launch
  <2>5. phase' = "run" /\ split' = UseSplit(b) BY DEF Launch
  <2> QED BY <2>1, <2>2, <2>3, <2>4, <2>5 DEF ShapeInv
<1>2. /\ \A r \in SegmRows, h \in Heads, s \in Segments : segm'[r][h][s] = {Stale}
      /\ \A r \in OutRows, h \in Heads : out'[r][h] = {Stale}
  BY DEF Launch
<1>3. /\ phase' = "run"
      /\ \A g \in Blocks', s \in Segments : split' => <<g, s>> \in left'
      /\ \A g \in Blocks' : ~split' => <<g, 0>> \in left'
  BY DEF Launch
<1>4. PartInv' BY <1>2, <1>3 DEF PartInv
<1>5. OutInv' BY <1>2, <1>3 DEF OutInv
<1> QED BY <1>1, <1>4, <1>5 DEF IInv

LEMMA ProgramInv ==
  ASSUME IInv, NEW g, NEW s, Program(g, s)
  PROVE  IInv'
<1>0. ShapeInv /\ PartInv /\ OutInv BY DEF IInv
<1>1. <<g, s>> \in left /\ left' = left \ {<<g, s>>} BY DEF Program
<1>2. /\ phase = "run" /\ seqs \in Batches /\ g \in Nat /\ s \in Segments
      /\ (~split => s = 0)
  BY <1>0, <1>1, LeftTyped
<1>3. phase' = phase /\ seqs' = seqs /\ split' = split BY DEF Program
<1>4. /\ NumTokens' = NumTokens /\ Blocks' = Blocks
      /\ \A r : /\ OwnBlockOf(r)' = OwnBlockOf(r) /\ RowFull(r)' = RowFull(r)
                /\ Joined(RequestOf(r))' = Joined(RequestOf(r))
      /\ \A r, z : RowValue(r, z)' = RowValue(r, z)
  BY <1>3, SameBatch
<1>5. /\ ~split => segm' = segm
      /\ split => out' = out
  BY DEF Program
<1>6. ASSUME NEW r \in SegmRows, NEW h \in Heads, NEW z \in Segments
      PROVE  segm'[r][h][z] \in SUBSET (Reads \union {Stale})
  <2>1. segm[r][h][z] \in SUBSET (Reads \union {Stale}) BY <1>0 DEF ShapeInv
  <2>2. CASE ~split BY <1>5, <2>1, <2>2
  <2>3. CASE split
    <3>1. \/ segm'[r][h][z] = segm[r][h][z]
          \/ r < NumTokens /\ segm'[r][h][z] = RowValue(r, z)
      BY <1>0, <2>3, ProgramParts
    <3>2. r < NumTokens => RowValue(r, z) \subseteq Reads BY <1>2, RowTypes DEF SegmRows
    <3> QED BY <2>1, <3>1, <3>2
  <2> QED BY <2>2, <2>3
<1>7. ASSUME NEW r \in OutRows, NEW h \in Heads
      PROVE  out'[r][h] \in SUBSET (Reads \union {Stale})
  <2>1. out[r][h] \in SUBSET (Reads \union {Stale}) BY <1>0 DEF ShapeInv
  <2>2. CASE split BY <1>5, <2>1, <2>2
  <2>3. CASE ~split
    <3>1. \/ out'[r][h] = out[r][h]
          \/ r < NumTokens /\ out'[r][h] = RowFull(r)
      BY <1>0, <2>3, ProgramOut
    <3>2. r < NumTokens => RowFull(r) \subseteq Reads BY <1>2, RowTypes DEF OutRows
    <3> QED BY <2>1, <3>1, <3>2
  <2> QED BY <2>2, <2>3
<1>8. segm' \in [SegmRows -> [Heads -> [Segments -> SUBSET (Reads \union {Stale})]]]
  <2>1. segm' = [r \in SegmRows |-> [h \in Heads |-> [z \in Segments |-> segm'[r][h][z]]]]
    <3>1. segm = [r \in SegmRows |-> [h \in Heads |-> [z \in Segments |-> segm[r][h][z]]]]
      BY <1>0 DEF ShapeInv
    <3>2. \A r \in SegmRows, h \in Heads : segm[r][h] \in [Segments -> SUBSET (Reads \union {Stale})]
      BY <1>0 DEF ShapeInv
    <3> DEFINE value(r) == Collected(seqs[SeqOf(g)], LocalBlock(g), s, r - seqs[SeqOf(g)].start)
               one(r, h) == IF Stored(g, r, h) = {} THEN segm[r][h]
                            ELSE [segm[r][h] EXCEPT ![s] = value(r)]
    <3>3. segm' = segm \/ segm' = [r \in SegmRows |-> [h \in Heads |-> one(r, h)]]
      BY DEF Program
    <3>4. \A r \in SegmRows, h \in Heads : one(r, h) = [z \in Segments |-> one(r, h)[z]]
      BY <3>2
    <3> HIDE DEF one
    <3> QED BY <3>1, <3>3, <3>4
  <2> QED BY <1>6, <2>1
<1>9. out' \in [OutRows -> [Heads -> SUBSET (Reads \union {Stale})]]
  <2>1. out' = [r \in OutRows |-> [h \in Heads |-> out'[r][h]]]
    <3>1. out = [r \in OutRows |-> [h \in Heads |-> out[r][h]]] BY <1>0 DEF ShapeInv
    <3> DEFINE value(r) == Collected(seqs[SeqOf(g)], LocalBlock(g), s, r - seqs[SeqOf(g)].start)
               one(r, h) == IF Stored(g, r, h) = {} THEN out[r][h] ELSE value(r)
    <3>2. out' = out \/ out' = [r \in OutRows |-> [h \in Heads |-> one(r, h)]] BY DEF Program
    <3> HIDE DEF one
    <3> QED BY <3>1, <3>2
  <2> QED BY <1>7, <2>1
<1>10. ShapeInv'
  <2>1. left' \subseteq Blocks' \X (IF split' THEN Segments ELSE {0})
    BY <1>0, <1>1, <1>3, <1>4 DEF ShapeInv
  <2>2. split' \in BOOLEAN /\ split' = UseSplit(seqs)' BY <1>0, <1>2, <1>3 DEF ShapeInv, UseSplit
  <2> QED BY <1>2, <1>3, <1>8, <1>9, <2>1, <2>2 DEF ShapeInv
<1>11. PartInv'
  <2> SUFFICES ASSUME NEW r \in SegmRows, NEW h \in Heads, NEW z \in Segments
               PROVE  /\ ~split \/ r >= NumTokens => segm'[r][h][z] = {Stale}
                      /\ split /\ r < NumTokens =>
                           /\ segm'[r][h][z] \in {{Stale}, RowValue(r, z)}
                           /\ /\ z \in Joined(RequestOf(r))
                              /\ OwnBlockOf(r) \in Blocks /\ <<OwnBlockOf(r), z>> \notin left'
                              => segm'[r][h][z] = RowValue(r, z)
    BY <1>3, <1>4 DEF PartInv
  <2>1. /\ ~split \/ r >= NumTokens => segm[r][h][z] = {Stale}
        /\ split /\ r < NumTokens =>
             /\ segm[r][h][z] \in {{Stale}, RowValue(r, z)}
             /\ /\ z \in Joined(RequestOf(r))
                /\ OwnBlockOf(r) \in Blocks /\ <<OwnBlockOf(r), z>> \notin left
                => segm[r][h][z] = RowValue(r, z)
    BY <1>0 DEF PartInv
  <2>2. CASE ~split BY <1>5, <2>1, <2>2
  <2>3. CASE split
    <3>1. /\ \/ segm'[r][h][z] = segm[r][h][z]
             \/ r < NumTokens /\ segm'[r][h][z] = RowValue(r, z)
          /\ /\ r < NumTokens /\ z \in Joined(RequestOf(r)) /\ OwnBlockOf(r) = g /\ z = s
             => segm'[r][h][z] = RowValue(r, z)
      BY <1>0, <2>3, ProgramParts
    <3>2. <<OwnBlockOf(r), z>> \notin left' =>
            <<OwnBlockOf(r), z>> \notin left \/ (OwnBlockOf(r) = g /\ z = s)
      BY <1>1
    <3>3. r >= NumTokens => ~(r < NumTokens)
      BY <1>2, NumTokensIs DEF SegmRows
    <3> QED BY <2>1, <2>3, <3>1, <3>2, <3>3
  <2> QED BY <2>2, <2>3
<1>12. OutInv'
  <2> SUFFICES ASSUME NEW r \in OutRows, NEW h \in Heads
               PROVE  /\ r >= NumTokens => out'[r][h] = {Stale}
                      /\ r < NumTokens =>
                           /\ split => out'[r][h] = {Stale}
                           /\ ~split =>
                                /\ out'[r][h] \in {{Stale}, RowFull(r)}
                                /\ OwnBlockOf(r) \in Blocks /\ <<OwnBlockOf(r), 0>> \notin left'
                                   => out'[r][h] = RowFull(r)
    BY <1>2, <1>3, <1>4 DEF OutInv
  <2>1. /\ r >= NumTokens => out[r][h] = {Stale}
        /\ r < NumTokens =>
             /\ split => out[r][h] = {Stale}
             /\ ~split =>
                  /\ out[r][h] \in {{Stale}, RowFull(r)}
                  /\ OwnBlockOf(r) \in Blocks /\ <<OwnBlockOf(r), 0>> \notin left
                     => out[r][h] = RowFull(r)
    BY <1>0, <1>2 DEF OutInv
  <2>2. CASE split BY <1>5, <2>1, <2>2
  <2>3. CASE ~split
    <3>1. /\ \/ out'[r][h] = out[r][h]
             \/ r < NumTokens /\ out'[r][h] = RowFull(r)
          /\ r < NumTokens /\ OwnBlockOf(r) = g => out'[r][h] = RowFull(r)
      BY <1>0, <2>3, ProgramOut
    <3>2. <<OwnBlockOf(r), 0>> \notin left' => <<OwnBlockOf(r), 0>> \notin left \/ OwnBlockOf(r) = g
      BY <1>1
    <3>3. r >= NumTokens => ~(r < NumTokens) BY <1>2, NumTokensIs DEF OutRows
    <3> QED BY <2>1, <2>3, <3>1, <3>2, <3>3
  <2> QED BY <2>2, <2>3
<1> QED BY <1>10, <1>11, <1>12 DEF IInv

(* A split launch has partials for all its rows.                             *)
LEMMA RowsFit ==
  ASSUME ShapeInv
  PROVE  /\ NumTokens \in Nat /\ NumTokens <= MaxTokens
         /\ split => NumTokens <= Rows3D
<1>1. CASE phase = "idle" BY <1>1, SplitAssumption DEF ShapeInv, NumTokens
<1>2. CASE phase # "idle"
  <2>1. seqs \in Batches /\ split = UseSplit(seqs) BY <1>2 DEF ShapeInv
  <2>2. NumTokens = Total(seqs) /\ NumTokens \in Nat BY <2>1, NumTokensIs
  <2>3. NumTokens <= MaxTokens BY <2>1, <2>2, BatchShape DEF Total
  <2>4. split => NumTokens <= Rows3D BY <2>1, <2>2 DEF UseSplit, Total
  <2> QED BY <2>2, <2>3, <2>4
<1> QED BY <1>1, <1>2

LEMMA ReduceInv ==
  ASSUME IInv, Reduce
  PROVE  IInv'
<1>0. ShapeInv /\ PartInv /\ OutInv BY DEF IInv
<1>1. /\ phase = "run" /\ left = {} /\ split /\ phase' = "done"
      /\ seqs' = seqs /\ split' = split /\ left' = left /\ segm' = segm
  BY DEF Reduce
<1>2. seqs \in Batches BY <1>0, <1>1 DEF ShapeInv
<1>3. /\ NumTokens' = NumTokens /\ Blocks' = Blocks
      /\ \A r : /\ OwnBlockOf(r)' = OwnBlockOf(r) /\ RowFull(r)' = RowFull(r)
                /\ Joined(RequestOf(r))' = Joined(RequestOf(r))
      /\ \A r, z : RowValue(r, z)' = RowValue(r, z)
  BY <1>1, SameBatch
<1>4. NumTokens \in Nat /\ NumTokens <= Rows3D BY <1>0, <1>1, RowsFit
<1>5. ASSUME NEW r \in OutRows, NEW h \in Heads
      PROVE  /\ r >= NumTokens => out'[r][h] = {Stale}
             /\ r < NumTokens => out'[r][h] = RowFull(r)
             /\ out'[r][h] \in SUBSET (Reads \union {Stale})
  <2>1. out'[r][h] = IF r >= NumTokens THEN out[r][h]
                     ELSE UNION {segm[r][h][s] : s \in Joined(RequestOf(r))}
    BY DEF Reduce
  <2>2. r \in Nat BY DEF OutRows
  <2>3. CASE r >= NumTokens
    <3>1. out[r][h] = {Stale} BY <1>0, <2>3 DEF OutInv
    <3> QED BY <1>4, <2>1, <2>2, <2>3, <3>1
  <2>4. CASE r < NumTokens
    <3>1. r \in SegmRows BY <1>4, <2>2, <2>4, SplitAssumption DEF SegmRows
    <3>2. OwnBlockOf(r) \in Blocks BY <1>2, <2>2, <2>4, OwnStores
    <3>3. \A s \in Joined(RequestOf(r)) : s \in Segments /\ segm[r][h][s] = RowValue(r, s)
      <4>1. \A s \in Joined(RequestOf(r)) : s \in Segments BY DEF Joined
      <4> QED BY <1>0, <1>1, <2>4, <3>1, <3>2, <4>1 DEF PartInv
    <3>4. UNION {segm[r][h][s] : s \in Joined(RequestOf(r))}
            = UNION {RowValue(r, s) : s \in Joined(RequestOf(r))}
      BY <3>3
    <3>5. /\ UNION {RowValue(r, s) : s \in Joined(RequestOf(r))} = RowFull(r)
          /\ RowFull(r) \subseteq Reads
      BY <1>1, <1>2, <2>2, <2>4, RowTypes
    <3>6. ~(r >= NumTokens) BY <1>4, <2>2, <2>4
    <3> QED BY <2>1, <3>4, <3>5, <3>6
  <2> QED BY <1>4, <2>2, <2>3, <2>4
<1>6. out' \in [OutRows -> [Heads -> SUBSET (Reads \union {Stale})]]
  <2> DEFINE one(r, h) == IF r >= NumTokens THEN out[r][h]
                          ELSE UNION {segm[r][h][s] : s \in Joined(RequestOf(r))}
  <2>1. out' = [r \in OutRows |-> [h \in Heads |-> one(r, h)]] BY DEF Reduce
  <2> HIDE DEF one
  <2>2. out' = [r \in OutRows |-> [h \in Heads |-> out'[r][h]]] BY <2>1
  <2> QED BY <1>5, <2>2
<1>7. ShapeInv'
  <2>1. left' \subseteq Blocks' \X (IF split' THEN Segments ELSE {0}) BY <1>1
  <2>2. split' \in BOOLEAN /\ split' = UseSplit(seqs)' BY <1>0, <1>1 DEF ShapeInv, UseSplit
  <2>3. segm' \in [SegmRows -> [Heads -> [Segments -> SUBSET (Reads \union {Stale})]]]
    BY <1>0, <1>1 DEF ShapeInv
  <2> QED BY <1>1, <1>2, <1>6, <2>1, <2>2, <2>3 DEF ShapeInv
<1>8. PartInv' BY <1>0, <1>1, <1>3 DEF PartInv
<1>9. OutInv' BY <1>1, <1>3, <1>5 DEF OutInv
<1> QED BY <1>7, <1>8, <1>9 DEF IInv

LEMMA FinishInv ==
  ASSUME IInv, Finish
  PROVE  IInv'
<1>0. ShapeInv /\ PartInv /\ OutInv BY DEF IInv
<1>1. /\ phase = "run" /\ left = {} /\ ~split /\ phase' = "done"
      /\ seqs' = seqs /\ split' = split /\ left' = left /\ segm' = segm /\ out' = out
  BY DEF Finish
<1>2. seqs \in Batches BY <1>0, <1>1 DEF ShapeInv
<1>3. /\ NumTokens' = NumTokens /\ Blocks' = Blocks
      /\ \A r : /\ OwnBlockOf(r)' = OwnBlockOf(r) /\ RowFull(r)' = RowFull(r)
                /\ Joined(RequestOf(r))' = Joined(RequestOf(r))
      /\ \A r, z : RowValue(r, z)' = RowValue(r, z)
  BY <1>1, SameBatch
<1>4. ShapeInv' BY <1>0, <1>1, <1>2, <1>3 DEF ShapeInv, UseSplit
<1>5. PartInv' BY <1>0, <1>1, <1>3 DEF PartInv
<1>6. OutInv'
  <2> SUFFICES ASSUME NEW r \in OutRows, NEW h \in Heads
               PROVE  /\ r >= NumTokens => out[r][h] = {Stale}
                      /\ r < NumTokens => out[r][h] = RowFull(r)
    BY <1>1, <1>3 DEF OutInv
  <2>1. r < NumTokens => OwnBlockOf(r) \in Blocks BY <1>2, OwnStores DEF OutRows
  <2> QED BY <1>0, <1>1, <2>1 DEF OutInv
<1> QED BY <1>4, <1>5, <1>6 DEF IInv

LEMMA StepInv == IInv /\ [Next]_vars => IInv'
<1> SUFFICES ASSUME IInv, [Next]_vars PROVE IInv' OBVIOUS
<1>1. CASE \E b \in Batches : Launch(b) BY <1>1, LaunchInv
<1>2. CASE \E p \in left : Program(p[1], p[2]) BY <1>2, ProgramInv
<1>3. CASE Reduce BY <1>3, ReduceInv
<1>4. CASE Finish BY <1>4, FinishInv
<1>5. CASE UNCHANGED vars
  <2>1. /\ phase' = phase /\ seqs' = seqs /\ split' = split /\ left' = left
        /\ segm' = segm /\ out' = out
    BY <1>5 DEF vars
  <2>2. /\ NumTokens' = NumTokens /\ Blocks' = Blocks
        /\ \A r : /\ OwnBlockOf(r)' = OwnBlockOf(r) /\ RowFull(r)' = RowFull(r)
                  /\ Joined(RequestOf(r))' = Joined(RequestOf(r))
        /\ \A r, z : RowValue(r, z)' = RowValue(r, z)
    BY <2>1, SameBatch
  <2>3. ShapeInv' BY <2>1, <2>2 DEF IInv, ShapeInv, UseSplit
  <2>4. PartInv' BY <2>1, <2>2 DEF IInv, PartInv
  <2>5. OutInv' BY <2>1, <2>2 DEF IInv, OutInv
  <2> QED BY <2>3, <2>4, <2>5 DEF IInv
<1> QED BY <1>1, <1>2, <1>3, <1>4, <1>5 DEF Next

LEMMA Invariance == Spec => []IInv
<1> QED BY InitInv, StepInv, PTL DEF Spec
-----------------------------------------------------------------------------
(* The properties *)

LEMMA Typed == ASSUME IInv PROVE TypeOK
<1>0. ShapeInv /\ PartInv /\ OutInv BY DEF IInv
<1>1. NumTokens <= MaxTokens /\ (split => NumTokens <= Rows3D) BY <1>0, RowsFit
<1>2. left \subseteq Blocks \X Segments
  <2>1. 0 \in Segments BY SplitAssumption DEF Segments
  <2> QED BY <1>0, <2>1 DEF ShapeInv
<1>3. ASSUME NEW r \in SegmRows, NEW h \in Heads, NEW s \in Segments
      PROVE  segm[r][h][s] = {Stale} \/ segm[r][h][s] \subseteq Reads
  <2>1. CASE ~split \/ r >= NumTokens BY <1>0, <2>1 DEF PartInv
  <2>2. CASE split /\ ~(r >= NumTokens)
    <3>1. r \in Nat /\ r < NumTokens BY <1>0, <2>2, RowsFit DEF SegmRows
    <3>2. segm[r][h][s] \in {{Stale}, RowValue(r, s)} BY <1>0, <2>2, <3>1 DEF PartInv
    <3>3. seqs \in Batches BY <1>0, <2>2 DEF ShapeInv
    <3> QED BY <3>1, <3>2, <3>3, RowTypes
  <2> QED BY <2>1, <2>2
<1> QED BY <1>0, <1>1, <1>2, <1>3 DEF TypeOK, ShapeInv

(* A finished row holds what it is to find, whole.                           *)
LEMMA ResultIs ==
  ASSUME IInv, NEW w \in Results
  PROVE  /\ IsRequest(seqs[w[1]]) /\ w[2] \in 0 .. seqs[w[1]].q - 1
         /\ Result(w) = Full(seqs[w[1]], w[2])
<1>0. ShapeInv /\ OutInv BY DEF IInv
<1>1. /\ phase = "done" /\ w[1] \in DOMAIN seqs /\ w[2] \in Nat /\ w[3] \in Heads
      /\ w[2] < seqs[w[1]].q
  BY DEF Results
<1>2. seqs \in Batches BY <1>0, <1>1 DEF ShapeInv
<1> DEFINE i == w[1]
           t == w[2]
           r == seqs[i].start + t
<1>3. i \in 1 .. Len(seqs) BY <1>1, <1>2, BatchShape
<1>4. seqs[i].start \in Nat /\ seqs[i].q \in Nat BY <1>2, <1>3, BatchShape
<1>5. r \in Nat /\ Has(seqs, i, r) /\ r - seqs[i].start = t BY <1>1, <1>4 DEF Has
<1>6. r < NumTokens /\ NumTokens \in Nat /\ NumTokens <= MaxTokens
  BY <1>0, <1>2, <1>3, <1>5, RowsFit, NumTokensIs, OneRequest
<1>7. r \in OutRows BY <1>5, <1>6, SplitAssumption DEF OutRows
<1>8. RequestOf(r) = seqs[i] /\ TokenOf(r) = t /\ IsRequest(seqs[i]) /\ t \in 0 .. seqs[i].q - 1
  BY <1>2, <1>3, <1>5, RowRequest
<1>9. out[r][w[3]] = RowFull(r) BY <1>0, <1>1, <1>6, <1>7 DEF OutInv
<1> QED BY <1>8, <1>9 DEF Result, RowFull

LEMMA OnceEach == ASSUME IInv PROVE EachKeyOnce
<1> SUFFICES ASSUME NEW w \in Results
             PROVE  LET last == (seqs[w[1]].len - seqs[w[1]].q) + w[2]
                    IN /\ Stale \notin Result(w)
                       /\ {read.pos : read \in Result(w)} = 0 .. last
                       /\ \A a, b \in Result(w) : a.pos = b.pos => a = b
                       /\ \A a \in Result(w) : a.loaded
  BY DEF EachKeyOnce
<1> DEFINE x == seqs[w[1]]
           t == w[2]
           last == LastKey(x, t)
<1>1. IsRequest(x) /\ t \in 0 .. x.q - 1 /\ Result(w) = Full(x, t) BY ResultIs
<1>2. last = (seqs[w[1]].len - seqs[w[1]].q) + w[2] BY DEF LastKey
<1> HIDE DEF x, t
<1>3. Stale \notin Result(w) BY <1>1, FullTyped, StaleAssumption
<1>4. \A a \in Result(w) : \E p \in 0 .. last : a = KeyPlace(x, SegmentOf(x, p), p)
  BY <1>1 DEF Full
<1>5. \A p \in 0 .. last : KeyPlace(x, SegmentOf(x, p), p) \in Result(w) BY <1>1 DEF Full
<1>6. \A s, p : KeyPlace(x, s, p).pos = p /\ KeyPlace(x, s, p).loaded BY DEF KeyPlace
<1> HIDE DEF last
<1>7. {read.pos : read \in Result(w)} = 0 .. last BY <1>4, <1>5, <1>6
<1>8. \A a, b \in Result(w) : a.pos = b.pos => a = b BY <1>4, <1>6
<1>9. \A a \in Result(w) : a.loaded BY <1>4, <1>6
<1> QED BY <1>2, <1>3, <1>7, <1>8, <1>9

(* The pass of a key's tile takes the copies that the key's position is due.  *)
LEMMA PassExact ==
  ASSUME NEW x, IsRequest(x), NEW p \in Nat, p < x.len, SINKS <= TILE_SIZE
  PROVE  /\ p < SINKS => PassOf(x, TileOf(p)) # "body"
         /\ p >= x.len - TAIL => PassOf(x, TileOf(p)) = "tail"
<1>0. /\ TILE_SIZE \in Nat \ {0} /\ SINKS \in Nat /\ TAIL \in Nat /\ x.len \in Nat
      /\ TailFrom(x) \in Nat
  BY SplitAssumption, TailFromTyped DEF IsRequest
<1>1. TileOf(p) \in Nat BY <1>0, DivPos DEF TileOf
<1>2. ASSUME p < SINKS PROVE PassOf(x, TileOf(p)) # "body"
  <2>1. TileOf(p) < 1
    <3>1. TILE_SIZE * 1 = TILE_SIZE /\ p < TILE_SIZE /\ p \in Int BY <1>0, <1>2
    <3> QED BY <1>0, <3>1, DivBelow DEF TileOf
  <2>2. TileOf(p) = 0 BY <1>1, <2>1
  <2> QED BY <1>0, <1>2, <2>2 DEF PassOf
<1>3. ASSUME p >= x.len - TAIL PROVE PassOf(x, TileOf(p)) = "tail"
  <2>1. TAIL > 0 BY <1>0, <1>3
  <2>2. x.len - TAIL \in Int /\ p \in Int /\ x.len - TAIL <= p BY <1>0, <1>3
  <2>3. (x.len - TAIL) \div TILE_SIZE <= TileOf(p) BY <1>0, <2>2, DivMono DEF TileOf
  <2>4. TailFrom(x) <= TileOf(p)
    <3>1. (x.len - TAIL) \div TILE_SIZE \in Int BY <1>0, <2>2, DivDef
    <3> QED BY <1>1, <2>3, <3>1 DEF TailFrom, Most
  <2> QED BY <1>0, <1>1, <2>1, <2>4 DEF PassOf
<1> QED BY <1>2, <1>3

LEMMA ExactDue == ASSUME IInv PROVE ExactWhereDue
<1> SUFFICES ASSUME SINKS <= TILE_SIZE, NEW w \in Results, NEW a \in Result(w)
             PROVE  /\ a.sink = (a.pos < SINKS)
                    /\ a.tail = (a.pos >= seqs[w[1]].len - TAIL)
  BY DEF ExactWhereDue
<1> DEFINE x == seqs[w[1]]
           t == w[2]
<1>1. IsRequest(x) /\ t \in 0 .. x.q - 1 /\ Result(w) = Full(x, t) BY ResultIs
<1> HIDE DEF x, t
<1>2. PICK p \in 0 .. LastKey(x, t) : a = KeyPlace(x, SegmentOf(x, p), p) BY <1>1 DEF Full
<1>3. p \in Nat /\ p < x.len BY <1>1, LastKeyTyped DEF IsRequest
<1>4. /\ p < SINKS => PassOf(x, TileOf(p)) # "body"
      /\ p >= x.len - TAIL => PassOf(x, TileOf(p)) = "tail"
  BY <1>1, <1>3, PassExact
<1>5. /\ a.pos = p
      /\ a.sink = (PassOf(x, TileOf(p)) # "body" /\ p < SINKS)
      /\ a.tail = (PassOf(x, TileOf(p)) = "tail" /\ p >= x.len - TAIL)
  BY <1>2 DEF KeyPlace
<1> QED BY <1>4, <1>5 DEF x

LEMMA StepAgrees ==
  ASSUME IInv, [Next]_vars, phase = "run", phase' = "run"
  PROVE  /\ \A r \in SegmRows, h \in Heads, s \in Segments :
              segm[r][h][s] # {Stale} => segm'[r][h][s] = segm[r][h][s]
         /\ \A r \in OutRows, h \in Heads : out[r][h] # {Stale} => out'[r][h] = out[r][h]
<1>0. ShapeInv /\ PartInv /\ OutInv BY DEF IInv
<1>1. ASSUME NEW g, NEW s, Program(g, s)
      PROVE  /\ \A r \in SegmRows, h \in Heads, z \in Segments :
                  segm[r][h][z] # {Stale} => segm'[r][h][z] = segm[r][h][z]
             /\ \A r \in OutRows, h \in Heads : out[r][h] # {Stale} => out'[r][h] = out[r][h]
  <2>1. CASE split
    <3>1. out' = out BY <1>1, <2>1 DEF Program
    <3>2. ASSUME NEW r \in SegmRows, NEW h \in Heads, NEW z \in Segments, segm[r][h][z] # {Stale}
          PROVE  segm'[r][h][z] = segm[r][h][z]
      <4>1. \/ segm'[r][h][z] = segm[r][h][z]
            \/ r < NumTokens /\ segm'[r][h][z] = RowValue(r, z)
        BY <1>0, <1>1, <2>1, ProgramParts
      <4>2. r < NumTokens => segm[r][h][z] = RowValue(r, z) BY <1>0, <2>1, <3>2 DEF PartInv
      <4> QED BY <4>1, <4>2
    <3> QED BY <3>1, <3>2
  <2>2. CASE ~split
    <3>1. segm' = segm BY <1>1, <2>2 DEF Program
    <3>2. ASSUME NEW r \in OutRows, NEW h \in Heads, out[r][h] # {Stale}
          PROVE  out'[r][h] = out[r][h]
      <4>1. \/ out'[r][h] = out[r][h]
            \/ r < NumTokens /\ out'[r][h] = RowFull(r)
        BY <1>0, <1>1, <2>2, ProgramOut
      <4>2. r < NumTokens => out[r][h] = RowFull(r) BY <1>0, <2>2, <3>2 DEF OutInv
      <4> QED BY <4>1, <4>2
    <3> QED BY <3>1, <3>2
  <2> QED BY <2>1, <2>2
<1>2. CASE \E b \in Batches : Launch(b) BY <1>2 DEF Launch
<1>3. CASE \E p \in left : Program(p[1], p[2]) BY <1>1, <1>3
<1>4. CASE Reduce BY <1>4 DEF Reduce
<1>5. CASE Finish BY <1>5 DEF Finish
<1>6. CASE UNCHANGED vars BY <1>6 DEF vars
<1> QED BY <1>2, <1>3, <1>4, <1>5, <1>6 DEF Next

(* The launch's variables keep their types: in particular a launch that goes
   through the partials has a row of them for every query token. *)
THEOREM SplitTyped == Spec => []TypeOK
<1> QED BY Invariance, Typed, PTL

(* However the programs of a launch are ordered, and whatever lies in the
   partials beforehand, every query row of attention's result holds every key it
   may see once, and none of what lay there. *)
THEOREM KeysCountOnce == Spec => []EachKeyOnce
<1> QED BY Invariance, OnceEach, PTL

(* When the sinks fit a tile, the three passes of _attn_int4's tile loop take the
   exact copies at the first SINKS and the newest TAIL positions, and nowhere
   else. *)
THEOREM ExactCopiesWhereDue == Spec => []ExactWhereDue
<1> QED BY Invariance, ExactDue, PTL

(* A program that stores a row again, as the last rows of a query block do with
   the first of the next, stores what is there. *)
THEOREM RestoresAgree == Spec => StoresAgree
<1>1. IInv /\ [Next]_vars =>
        [phase = "run" /\ phase' = "run" =>
           /\ \A r \in SegmRows, h \in Heads, s \in Segments :
                segm[r][h][s] # {Stale} => segm'[r][h][s] = segm[r][h][s]
           /\ \A r \in OutRows, h \in Heads : out[r][h] # {Stale} => out'[r][h] = out[r][h]]_vars
  BY StepAgrees
<1> QED BY <1>1, Invariance, PTL DEF Spec, StoresAgree
=============================================================================
