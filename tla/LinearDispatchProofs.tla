------------------------- MODULE LinearDispatchProofs -------------------------
(***************************************************************************)
(* The promises of LinearDispatch, for every checkpoint that               *)
(* SetupsAssumption admits, every extension and every limit of rows, slices *)
(* and vocabulary.                                                          *)
(*                                                                          *)
(* BufferInv is the inductive invariant of the module's tensors.            *)
(*   WLoadInv: while a module loads, what arrived in group g is the tensor  *)
(*     of a member whose shard id names g; once nothing is missing, every   *)
(*     group is named, so that each member's tensors are in its own group.  *)
(*   ReadyInv: a module that is ready is Whole, a group for a member, or    *)
(*     SplitUp, the head in three groups at SplitBounds; its pointers are   *)
(*     those of the groups it has; the buffer covers its widest slice.      *)
(*   UseInv: hence no call replaces the buffer, and graphs keep it.         *)
(*                                                                          *)
(* CallInv is about the last call.  Columns(y, gs, wv) says what a row y is *)
(* computed from: the columns of the groups gs, side by side, those of the  *)
(* j-th in wv[j] split-K waves.  LinearGroupsWrite shows it of every route; *)
(* for the two loops by Written(y, gs, wv, i), that the groups before i are *)
(* in place, which each launch extends to the groups it takes (PutWrites).  *)
(* A row is determined by its columns and their waves (RowsEqual), and the  *)
(* waves of the multi-row GEMV are those of the one-row path.               *)
(*                                                                          *)
(* Inductions over groups, partitions and columns are arguments by the      *)
(* least counterexample (NatMin).                                           *)
(***************************************************************************)
EXTENDS LinearDispatch, FiniteSetTheorems, SequenceTheorems, WellFoundedInduction, TLAPS

(* Least and greatest elements *)

LEMMA LessFounded == IsWellFoundedOn({p \in Nat \X Nat : p[1] < p[2]}, Nat)
<1>1. OpToRel(<, Nat) = {p \in Nat \X Nat : p[1] < p[2]} BY DEF OpToRel
<1>2. IsWellFoundedOn(OpToRel(<, Nat), Nat) BY NatLessThanWellFounded
<1> QED BY <1>1, <1>2

LEMMA NatMin ==
  ASSUME NEW T \in SUBSET Nat, T # {}
  PROVE  \E m \in T : \A x \in T : m <= x
<1> DEFINE R == {p \in Nat \X Nat : p[1] < p[2]}
<1>1. IsWellFoundedOn(R, Nat) BY LessFounded
<1>2. PICK m \in T : \A y \in T : ~ (<<y, m>> \in R)
  <2> HIDE DEF R
  <2> QED BY <1>1, WFMin
<1>3. ASSUME NEW x \in T PROVE m <= x
  <2>1. x \in Nat /\ m \in Nat OBVIOUS
  <2>2. x < m => <<x, m>> \in R BY <2>1
  <2> QED BY <1>2, <2>1, <2>2
<1> QED BY <1>3

LEMMA NatMax ==
  ASSUME NEW n \in Nat, NEW T \in SUBSET (0 .. n), T # {}
  PROVE  \E m \in T : \A x \in T : x <= m
<1> DEFINE U == {n - x : x \in T}
<1>1. U \in SUBSET Nat /\ U # {}
  <2>1. \A x \in T : n - x \in Nat OBVIOUS
  <2> QED BY <2>1
<1> HIDE DEF U
<1>2. PICK u \in U : \A y \in U : u <= y BY <1>1, NatMin
<1>3. PICK m \in T : u = n - m BY DEF U
<1>4. ASSUME NEW x \in T PROVE x <= m
  <2>1. n - x \in U BY DEF U
  <2>2. u <= n - x /\ x \in Int /\ m \in Int BY <2>1, <1>2
  <2> QED BY <1>3, <2>2
<1> QED BY <1>4

(* Max of numbers up to n *)
LEMMA MaxIs ==
  ASSUME NEW n \in Nat, NEW T \in SUBSET (0 .. n), T # {}
  PROVE  Max(T) \in T /\ \A x \in T : x <= Max(T)
<1>1. PICK m \in T : \A x \in T : x <= m BY NatMax
<1>2. \A x \in T : m >= x BY <1>1
<1>3. Max(T) \in T /\ \A x \in T : Max(T) >= x BY <1>2 DEF Max
<1> QED BY <1>3

LEMMA MinIs ==
  ASSUME NEW T \in SUBSET Nat, T # {}
  PROVE  Min(T) \in T /\ \A x \in T : Min(T) <= x
<1>1. PICK m \in T : \A x \in T : m <= x BY NatMin
<1> QED BY <1>1 DEF Min

(* What satisfies the bounds of the least element is the least element. *)
LEMMA MinUnique ==
  ASSUME NEW T \in SUBSET Nat, NEW m \in T, \A x \in T : m <= x
  PROVE  Min(T) = m
<1>1. Min(T) \in T /\ \A x \in T : Min(T) <= x BY MinIs
<1> DEFINE x == Min(T)
<1> HIDE DEF x
<1>2. x \in T /\ x <= m /\ m <= x BY <1>1 DEF x
<1>3. x \in Int /\ m \in Int BY <1>2
<1>4. x = m BY <1>2, <1>3
<1> QED BY <1>4 DEF x

LEMMA MaxUnique ==
  ASSUME NEW n \in Nat, NEW T \in SUBSET (0 .. n), NEW m \in T, \A x \in T : x <= m
  PROVE  Max(T) = m
<1>1. Max(T) \in T /\ \A x \in T : x <= Max(T) BY MaxIs
<1> DEFINE x == Max(T)
<1> HIDE DEF x
<1>2. x \in T /\ x <= m /\ m <= x BY <1>1 DEF x
<1>3. x \in Int /\ m \in Int BY <1>2
<1>4. x = m BY <1>2, <1>3
<1> QED BY <1>4 DEF x
-----------------------------------------------------------------------------
(* Running sums *)

IsSums(f, s, n) == f = [i \in 0 .. n |-> IF i = 0 THEN 0 ELSE f[i - 1] + s[i]]

LEMMA SumsExist ==
  ASSUME NEW n \in Nat, NEW s
  PROVE  \E f : IsSums(f, s, n)
<1> DEFINE T == {k \in Nat : ~ \E f : IsSums(f, s, k)}
<1> SUFFICES ASSUME n \in T PROVE FALSE OBVIOUS
<1>1. PICK m \in T : \A k \in T : m <= k
  <2>1. T \in SUBSET Nat /\ T # {} OBVIOUS
  <2> HIDE DEF T
  <2> QED BY <2>1, NatMin
<1>2. m # 0
  <2>1. IsSums([i \in 0 .. 0 |-> 0], s, 0) BY DEF IsSums
  <2> QED BY <2>1
<1>3. m - 1 \in Nat /\ m - 1 \notin T BY <1>1, <1>2
<1>4. PICK f : IsSums(f, s, m - 1) BY <1>3
<1> DEFINE g == [i \in 0 .. m |-> IF i = m THEN f[m - 1] + s[m] ELSE f[i]]
<1>5. f = [i \in 0 .. m - 1 |-> IF i = 0 THEN 0 ELSE f[i - 1] + s[i]] BY <1>4 DEF IsSums
<1>6. ASSUME NEW i \in 0 .. m PROVE g[i] = IF i = 0 THEN 0 ELSE g[i - 1] + s[i]
  <2>1. CASE i = m
    <3>1. m - 1 \in 0 .. m /\ m - 1 # m BY <1>2, <1>3
    <3> QED BY <2>1, <3>1, <1>2
  <2>2. CASE i # m
    <3>1. i \in 0 .. m - 1 BY <2>2, <1>3
    <3>2. f[i] = IF i = 0 THEN 0 ELSE f[i - 1] + s[i] BY <1>5, <3>1
    <3>3. i # 0 => i - 1 \in 0 .. m /\ i - 1 # m BY <3>1
    <3> QED BY <2>2, <3>2, <3>3
  <2> QED BY <2>1, <2>2
<1>7. IsSums(g, s, m) BY <1>6 DEF IsSums
<1> QED BY <1>7

LEMMA SumsAre ==
  ASSUME NEW n \in Nat, NEW s \in [1 .. n -> Nat]
  PROVE  /\ Sums(s)[0] = 0
         /\ \A i \in 1 .. n : Sums(s)[i] = Sums(s)[i - 1] + s[i]
         /\ \A i \in 0 .. n : Sums(s)[i] \in Nat
<1>1. Len(s) = n OBVIOUS
<1>2. PICK f : IsSums(f, s, n) BY SumsExist
<1>3. IsSums(Sums(s), s, n)
  <2>1. Sums(s) = CHOOSE g : g = [i \in 0 .. n |-> IF i = 0 THEN 0 ELSE g[i - 1] + s[i]]
    BY <1>1 DEF Sums
  <2>2. \E g : g = [i \in 0 .. n |-> IF i = 0 THEN 0 ELSE g[i - 1] + s[i]] BY <1>2 DEF IsSums
  <2> QED BY <2>1, <2>2 DEF IsSums
<1> DEFINE f0 == Sums(s)
<1>4. \A i \in 0 .. n : f0[i] = IF i = 0 THEN 0 ELSE f0[i - 1] + s[i]
  <2> HIDE DEF f0
  <2>1. IsSums(f0, s, n) BY <1>3 DEF f0
  <2>2. f0 = [i \in 0 .. n |-> IF i = 0 THEN 0 ELSE f0[i - 1] + s[i]] BY <2>1 DEF IsSums
  <2> QED BY <2>2
<1>5. f0[0] = 0 /\ \A i \in 1 .. n : f0[i] = f0[i - 1] + s[i]
  <2> HIDE DEF f0
  <2> QED BY <1>4
<1>6. \A i \in 0 .. n : f0[i] \in Nat
  <2> HIDE DEF f0
  <2> DEFINE T == {i \in 0 .. n : f0[i] \notin Nat}
  <2> SUFFICES ASSUME T # {} PROVE FALSE OBVIOUS
  <2>1. PICK m \in T : \A k \in T : m <= k
    <3>1. T \in SUBSET Nat OBVIOUS
    <3> HIDE DEF T
    <3> QED BY <3>1, NatMin
  <2>2. m # 0 BY <1>5
  <2>3. m - 1 \in 0 .. n /\ m - 1 \notin T /\ m \in 1 .. n BY <2>1, <2>2
  <2>4. f0[m - 1] \in Nat /\ s[m] \in Nat BY <2>3
  <2> QED BY <1>5, <2>3, <2>4
<1> QED BY <1>5, <1>6

LEMMA SumsGrow ==
  ASSUME NEW n \in Nat, NEW s \in [1 .. n -> Nat], NEW i \in 0 .. n, NEW j \in 0 .. n, i <= j
  PROVE  Sums(s)[i] <= Sums(s)[j]
<1> DEFINE f0 == Sums(s)
           T == {k \in i .. n : f0[k] < f0[i]}
<1>1. \A k \in 1 .. n : f0[k] = f0[k - 1] + s[k] /\ s[k] \in Nat BY SumsAre
<1>2. \A k \in 0 .. n : f0[k] \in Nat BY SumsAre
<1> HIDE DEF f0
<1>3. ASSUME T # {} PROVE FALSE
  <2>1. PICK m \in T : \A k \in T : m <= k
    <3>1. T \in SUBSET Nat OBVIOUS
    <3> HIDE DEF T
    <3> QED BY <1>3, <3>1, NatMin
  <2>2. m # i BY <1>2
  <2>3. m - 1 \in i .. n /\ m - 1 \notin T /\ m \in 1 .. n BY <2>1, <2>2
  <2>4. f0[m - 1] >= f0[i] BY <1>2, <2>3
  <2> QED BY <1>1, <1>2, <2>1, <2>3, <2>4
<1>4. j \notin T BY <1>3
<1>5. f0[i] \in Nat /\ f0[j] \in Nat BY <1>2
<1>6. ~(f0[j] < f0[i]) BY <1>4
<1> QED BY ONLY <1>5, <1>6 DEF f0

(* Group i's columns are the widths[i] from the first one on. *)
LEMMA BeforeIs ==
  ASSUME NEW n \in Nat, NEW s \in [1 .. n -> Nat]
  PROVE  /\ \A i \in 1 .. n + 1 : Before(s, i) \in Nat
         /\ Before(s, 1) = 0 /\ Before(s, n + 1) = Total(s) /\ Total(s) \in Nat
         /\ \A i \in 1 .. n : Before(s, i + 1) = Before(s, i) + s[i]
<1>1. Len(s) = n OBVIOUS
<1>2. \A i \in 0 .. n : Sums(s)[i] \in Nat BY SumsAre
<1>3. Sums(s)[0] = 0 BY SumsAre
<1>4. \A i \in 1 .. n : Sums(s)[i] = Sums(s)[i - 1] + s[i] BY SumsAre
<1>5. \A i \in 1 .. n : i + 1 - 1 = i OBVIOUS
<1>6. \A i \in 1 .. n + 1 : i - 1 \in 0 .. n OBVIOUS
<1>7. n + 1 - 1 = n /\ 1 - 1 = 0 /\ n \in 0 .. n OBVIOUS
<1> QED BY <1>1, <1>2, <1>3, <1>4, <1>5, <1>6, <1>7 DEF Before, Total

LEMMA BeforeGrows ==
  ASSUME NEW n \in Nat, NEW s \in [1 .. n -> Nat], NEW i \in 1 .. n + 1, NEW j \in 1 .. n + 1, i <= j
  PROVE  Before(s, i) <= Before(s, j)
<1>1. i - 1 \in 0 .. n /\ j - 1 \in 0 .. n /\ i - 1 <= j - 1 OBVIOUS
<1> QED BY <1>1, SumsGrow DEF Before

(* Every column below the total is one group's. *)
LEMMA ColumnOfGroup ==
  ASSUME NEW n \in Nat, NEW s \in [1 .. n -> Nat], NEW c \in 0 .. Total(s) - 1
  PROVE  \E i \in 1 .. n : c - Before(s, i) \in 0 .. s[i] - 1
<1>1. /\ \A i \in 1 .. n + 1 : Before(s, i) \in Nat
      /\ Before(s, 1) = 0 /\ Before(s, n + 1) = Total(s) /\ Total(s) \in Nat
      /\ \A i \in 1 .. n : Before(s, i + 1) = Before(s, i) + s[i]
  BY BeforeIs
<1> DEFINE T == {j \in 1 .. n + 1 : c < Before(s, j)}
<1>2. PICK m \in T : \A k \in T : m <= k
  <2>1. T \in SUBSET Nat /\ n + 1 \in T BY <1>1
  <2> HIDE DEF T
  <2> QED BY <2>1, NatMin
<1>3. m # 1 BY <1>1
<1>4. m - 1 \in 1 .. n /\ m - 1 \notin T /\ m - 1 + 1 = m BY <1>2, <1>3
<1>5. s[m - 1] \in Nat /\ Before(s, m - 1) \in Nat /\ Before(s, m - 1) <= c BY <1>1, <1>4
<1>6. Before(s, m) = Before(s, m - 1) + s[m - 1] BY <1>1, <1>4
<1>7. c < Before(s, m) /\ c \in Int BY <1>1, <1>2
<1>8. c - Before(s, m - 1) \in 0 .. s[m - 1] - 1 BY ONLY <1>5, <1>6, <1>7
<1> QED BY <1>4, <1>8

(* Two groups share no column. *)
LEMMA ColumnsApart ==
  ASSUME NEW n \in Nat, NEW s \in [1 .. n -> Nat], NEW i \in 1 .. n, NEW j \in 1 .. n, i < j,
         NEW b \in 0 .. s[i] - 1, NEW c \in 0 .. s[j] - 1
  PROVE  Before(s, i) + b < Before(s, j) + c
<1>1. Before(s, i) \in Nat /\ Before(s, j) \in Nat /\ s[i] \in Nat /\ s[j] \in Nat
  <2>1. i \in 1 .. n + 1 /\ j \in 1 .. n + 1 OBVIOUS
  <2>2. Before(s, i) \in Nat /\ Before(s, j) \in Nat BY <2>1, BeforeIs
  <2> QED BY <2>2
<1>2. Before(s, i + 1) = Before(s, i) + s[i] BY BeforeIs
<1>3. Before(s, i + 1) <= Before(s, j)
  <2>1. n \in Nat /\ i \in 1 .. n /\ j \in 1 .. n /\ i < j OBVIOUS
  <2>2. i + 1 \in 1 .. n + 1 /\ j \in 1 .. n + 1 /\ i + 1 <= j BY ONLY <2>1
  <2> QED BY <2>2, BeforeGrows
<1>4. b >= 0 /\ b < s[i] /\ c >= 0 /\ b \in Int /\ c \in Int BY <1>1
<1> DEFINE u == Before(s, i)
           v == Before(s, j)
           e == Before(s, i + 1)
           w == s[i]
<1>5. /\ u \in Nat /\ v \in Nat /\ w \in Nat /\ b \in Int /\ c \in Int
      /\ b < w /\ c >= 0 /\ e = u + w /\ e <= v
  BY <1>1, <1>2, <1>3, <1>4
<1> HIDE DEF u, v, e, w
<1>6. u + b < v + c BY ONLY <1>5
<1> QED BY <1>6 DEF u, v

(* Equal widths *)
LEMMA BeforeEqual ==
  ASSUME NEW n \in Nat, NEW s \in [1 .. n -> Nat], NEW i \in 1 .. n + 1, NEW j \in 1 .. n + 1, i <= j,
         NEW w \in Nat, \A k \in i .. j - 1 : s[k] = w
  PROVE  \A k \in i .. j : Before(s, k) = Before(s, i) + (k - i) * w
<1>1. /\ \A k \in 1 .. n + 1 : Before(s, k) \in Nat
      /\ \A k \in 1 .. n : Before(s, k + 1) = Before(s, k) + s[k]
  BY BeforeIs
<1> DEFINE T == {k \in i .. j : Before(s, k) # Before(s, i) + (k - i) * w}
<1> SUFFICES ASSUME T # {} PROVE FALSE OBVIOUS
<1>2. PICK m \in T : \A k \in T : m <= k
  <2>1. T \in SUBSET Nat OBVIOUS
  <2> HIDE DEF T
  <2> QED BY <2>1, NatMin
<1>3. m # i
  <2>1. (i - i) * w = 0 OBVIOUS
  <2> QED BY <1>1, <2>1
<1>4. m - 1 \in i .. j - 1 /\ m - 1 \notin T /\ m - 1 \in i .. j /\ m - 1 + 1 = m /\ m - 1 \in 1 .. n
  BY <1>2, <1>3
<1>5. Before(s, m) = Before(s, m - 1) + w BY <1>1, <1>4
<1>6. Before(s, m - 1) = Before(s, i) + (m - 1 - i) * w BY <1>4
<1>7. (m - i) * w = (m - 1 - i) * w + w
  <2>1. \A x \in Int, y \in Int : (x + 1) * y = x * y + y OBVIOUS
  <2>2. m - i = (m - 1 - i) + 1 /\ m - 1 - i \in Int /\ w \in Int BY <1>4
  <2> QED BY <2>1, <2>2
<1>8. Before(s, i) \in Int /\ (m - 1 - i) * w \in Int BY <1>1, <1>4
<1> QED BY <1>5, <1>6, <1>7, <1>8
-----------------------------------------------------------------------------
(* The tiling of the partitions                                             *)

NoTiles == [map |-> <<>>, gi |-> 1, acc |-> 0, ok |-> TRUE]

IsTiling(f, m, n) ==
  f = [p \in 0 .. n |-> IF p = 0 THEN NoTiles ELSE TilePart(m, f[p - 1], m.parts[p])]

LEMMA TilingExists ==
  ASSUME NEW n \in Nat, NEW q
  PROVE  \E f : IsTiling(f, q, n)
<1> DEFINE T == {k \in Nat : ~ \E f : IsTiling(f, q, k)}
<1> SUFFICES ASSUME n \in T PROVE FALSE OBVIOUS
<1>1. PICK m \in T : \A k \in T : m <= k
  <2>1. T \in SUBSET Nat /\ T # {} OBVIOUS
  <2> HIDE DEF T
  <2> QED BY <2>1, NatMin
<1>2. m # 0
  <2>1. IsTiling([i \in 0 .. 0 |-> NoTiles], q, 0) BY DEF IsTiling
  <2> QED BY <2>1
<1>3. m - 1 \in Nat /\ m - 1 \notin T BY <1>1, <1>2
<1>4. PICK f : IsTiling(f, q, m - 1) BY <1>3
<1> DEFINE F(r, p) == TilePart(q, r, q.parts[p])
           g == [i \in 0 .. m |-> IF i = m THEN F(f[m - 1], m) ELSE f[i]]
<1>5. f = [i \in 0 .. m - 1 |-> IF i = 0 THEN NoTiles ELSE F(f[i - 1], i)] BY <1>4 DEF IsTiling
<1>6. ASSUME NEW i \in 0 .. m PROVE g[i] = IF i = 0 THEN NoTiles ELSE F(g[i - 1], i)
  <2> HIDE DEF F
  <2>1. CASE i = m
    <3>1. m - 1 \in 0 .. m /\ m - 1 # m BY <1>2, <1>3
    <3> QED BY <2>1, <3>1, <1>2
  <2>2. CASE i # m
    <3>1. i \in 0 .. m - 1 BY <2>2, <1>3
    <3>2. f[i] = IF i = 0 THEN NoTiles ELSE F(f[i - 1], i) BY <1>5, <3>1
    <3>3. i # 0 => i - 1 \in 0 .. m /\ i - 1 # m BY <3>1
    <3> QED BY <2>2, <3>2, <3>3
  <2> QED BY <2>1, <2>2
<1>7. IsTiling(g, q, m)
  <2> HIDE DEF F
  <2>1. g = [i \in 0 .. m |-> IF i = 0 THEN NoTiles ELSE F(g[i - 1], i)] BY <1>6
  <2> HIDE DEF g
  <2> QED BY <2>1 DEF IsTiling, F
<1> QED BY <1>7

(* The first p partitions belong to groups there are. *)
Tiled(m, s, p) ==
  /\ s = [map |-> s.map, gi |-> s.gi, acc |-> s.acc, ok |-> s.ok]
  /\ s.ok => s.map \in [1 .. p -> 1 .. Len(m.members)] /\ s.gi \in Nat \ {0}

LEMMA TilePartTiles ==
  ASSUME NEW m, Len(m.members) \in Nat, NEW s, NEW p \in Nat, NEW w, Tiled(m, s, p)
  PROVE  Tiled(m, TilePart(m, s, w), p + 1)
<1> DEFINE t == TilePart(m, s, w)
           full == s.acc + w = m.members[s.gi].n
<1>1. CASE ~s.ok \/ s.gi > Len(m.members)
  <2>1. t = [s EXCEPT !.ok = FALSE] BY <1>1 DEF TilePart
  <2>2. s = [map |-> s.map, gi |-> s.gi, acc |-> s.acc, ok |-> s.ok] BY DEF Tiled
  <2>3. t = [map |-> s.map, gi |-> s.gi, acc |-> s.acc, ok |-> FALSE] BY <2>1, <2>2
  <2> HIDE DEF t
  <2> QED BY <2>3 DEF Tiled, t
<1>2. CASE ~(~s.ok \/ s.gi > Len(m.members))
  <2> DEFINE gi == IF full THEN s.gi + 1 ELSE s.gi
             acc == IF full THEN 0 ELSE s.acc + w
             ok == s.acc + w <= m.members[s.gi].n
  <2>1. t = [map |-> Append(s.map, s.gi), gi |-> gi, acc |-> acc, ok |-> ok]
    BY <1>2 DEF TilePart
  <2>2. s.map \in [1 .. p -> 1 .. Len(m.members)] /\ s.gi \in Nat \ {0} BY <1>2 DEF Tiled
  <2>3. s.gi \in 1 .. Len(m.members) BY <1>2, <2>2
  <2>4. Append(s.map, s.gi) \in [1 .. p + 1 -> 1 .. Len(m.members)]
    <3> DEFINE S == 1 .. Len(m.members)
               r == s.map
               x == s.gi
    <3>1. r \in [1 .. p -> S] /\ x \in S BY <2>2, <2>3
    <3> HIDE DEF S, r, x
    <3>2. r \in Seq(S) /\ Len(r) = p BY <3>1
    <3>3. Append(r, x) \in Seq(S) /\ Len(Append(r, x)) = p + 1
      BY <3>1, <3>2, AppendProperties
    <3>4. Append(r, x) \in [1 .. Len(Append(r, x)) -> S] BY <3>3, LenProperties
    <3>5. Append(r, x) \in [1 .. p + 1 -> S] BY <3>3, <3>4, Zenon
    <3> QED BY <3>5 DEF S, r, x
  <2>5. gi \in Nat \ {0} BY <2>2
  <2> HIDE DEF gi, acc, ok, t
  <2> QED BY <2>1, <2>4, <2>5 DEF Tiled, t
<1> QED BY <1>1, <1>2

LEMMA TilingMaps ==
  ASSUME NEW m, Len(m.members) \in Nat, m.parts \in Seq(Nat), Tiling(m).ok
  PROVE  Tiling(m).map \in [1 .. Len(m.parts) -> 1 .. Len(m.members)]
<1> DEFINE n == Len(m.parts)
           IsT(g) == g = [p \in 0 .. n |-> IF p = 0 THEN NoTiles ELSE TilePart(m, g[p - 1], m.parts[p])]
           f == CHOOSE g : IsT(g)
<1>1. n \in Nat OBVIOUS
<1>2. \E g : IsT(g) BY <1>1, TilingExists DEF IsTiling
<1>3. Tiling(m) = f[n] BY DEF Tiling, NoTiles
<1>4. IsT(f)
  <2> HIDE DEF IsT
  <2> QED BY <1>2
<1> HIDE DEF f
<1>5. \A p \in 0 .. n : f[p] = IF p = 0 THEN NoTiles ELSE TilePart(m, f[p - 1], m.parts[p])
  BY <1>4
<1> DEFINE T == {p \in 0 .. n : ~Tiled(m, f[p], p)}
<1> HIDE DEF n, IsT
<1>6. T = {}
  <2> SUFFICES ASSUME T # {} PROVE FALSE OBVIOUS
  <2>1. PICK p \in T : \A k \in T : p <= k
    <3>1. T \in SUBSET Nat OBVIOUS
    <3> HIDE DEF T
    <3> QED BY <3>1, NatMin
  <2>2. p # 0
    <3>1. Tiled(m, NoTiles, 0) BY DEF Tiled, NoTiles
    <3>2. f[0] = NoTiles BY <1>1, <1>5
    <3> QED BY <3>1, <3>2
  <2>3. p - 1 \in 0 .. n /\ p - 1 \notin T /\ p - 1 + 1 = p /\ p - 1 \in Nat /\ p \in 0 .. n
    BY <1>1, <2>1, <2>2
  <2>4. Tiled(m, f[p - 1], p - 1) BY <2>3
  <2>5. f[p] = TilePart(m, f[p - 1], m.parts[p]) BY <1>5, <2>2, <2>3
  <2>6. Tiled(m, f[p], p) BY ONLY <2>3, <2>4, <2>5, TilePartTiles, Len(m.members) \in Nat
  <2> QED BY <2>1, <2>6
<1>7. Tiled(m, f[n], n) BY <1>1, <1>6
<1> QED BY <1>3, <1>7 DEF Tiled, n
-----------------------------------------------------------------------------
(* The inductive invariant of the loading                                   *)

(* The groups that the shard id of member i names. *)
Names(i) ==
  GroupsOfShard(Len(module.members), Tiling(module).map, module.members[i].shard)

CreatedLayer ==
  [K |-> [i \in Members |-> module.members[i].K],
   n |-> [i \in Members |-> module.members[i].n],
   trellis |-> [i \in Members |-> <<"trellis", i, 0>>],
   suh |-> [i \in Members |-> <<"suh", i, 0>>],
   svh |-> [i \in Members |-> <<"svh", i, 0>>]]

Kinds == {"trellis", "suh", "svh"}

NoDraft == [groups |-> <<>>, cols |-> <<>>]

SetupInv == setup \in Setups

(* The vision tower whose scalars keep names nobody registered.             *)
Unrenamed == Vision /\ Quantized # {} /\ setup.codebook = "mcg"

StreamInv ==
  /\ stream \subseteq VisualQkvStream
  /\ stray => phase = "failed" /\ Unrenamed

NewInv ==
  /\ phase = "new" => loaded = {} /\ draft = NoDraft
  /\ phase \in {"new", "loading"} => draft = NoDraft

(* A loaded tensor of group g is that of a member whose shard id names g.   *)
LoadedInv ==
  \A kind \in Kinds, g \in Members :
    <<kind, g>> \in loaded =>
      \E i \in Members :
        Names(i) = {g} /\ heap[<<kind, g, 0>>].of = i /\ heap[<<kind, g, 0>>].lo = 0

LoadingInv ==
  /\ phase \in {"loading", "ready"} => CanCreate
  /\ phase = "loading" /\ GroupsFor # {} =>
       /\ layer = CreatedLayer /\ partToGroup = Tiling(module).map
       /\ DOMAIN heap = Kinds \X Members \X {0}
       /\ LoadedInv

(* The codebook is that of every member whose scalar came.                  *)
CodeInv ==
  phase \in {"new", "loading", "ready"} =>
    \A i \in GroupsFor : <<"code", i>> \notin stream => codebook = module.members[i].code

WLoadInv == SetupInv /\ StreamInv /\ NewInv /\ LoadingInv /\ CodeInv
-----------------------------------------------------------------------------
(* What setups are *)

LEMMA ModuleIs ==
  ASSUME SetupInv
  PROVE  /\ IsModule(module) /\ InOutputOrder(module) /\ setup.draftBlocks \in Int
         /\ module.k \in Nat
         /\ Len(module.members) \in 0 .. 4 /\ Members = 1 .. Len(module.members)
         /\ \A i \in Members : module.members[i].n \in Nat \ {0} /\ module.members[i].code \in Nat \ {0}
         /\ module.fused => module.kind = "vision"
<1>1. IsModule(module) /\ InOutputOrder(module) /\ setup.draftBlocks \in Int
  BY SetupsAssumption DEF SetupInv, module
<1>2. module.members \in Seq(Range(module.members)) /\ Len(module.members) <= 4 BY <1>1 DEF IsModule
<1> DEFINE s == module.members
           R == Range(s)
<1>3. Len(s) \in 0 .. 4 /\ DOMAIN s = 1 .. Len(s)
  <2>1. s \in Seq(R) /\ Len(s) <= 4 BY <1>2
  <2> HIDE DEF s, R
  <2>2. Len(s) \in Nat /\ DOMAIN s = 1 .. Len(s) BY <2>1, LenProperties
  <2> QED BY <2>1, <2>2
<1> QED BY <1>1, <1>3 DEF IsModule, Members

LEMMA GroupsAre ==
  ASSUME SetupInv, CanCreate, GroupsFor # {}
  PROVE  /\ GroupsFor = Members /\ Quantized = Members /\ Members # {}
         /\ ~(Vision /\ setup.bf16)
         /\ Tiling(module).ok
<1>1. GroupsFor = Members BY DEF CanCreate
<1>2. GroupsFor = Quantized /\ ~(Vision /\ setup.bf16) BY DEF GroupsFor
<1>3. Tiling(module).ok BY DEF CanCreate
<1> QED BY <1>1, <1>2, <1>3

(* Every tensor of the stream has a target when the module could be made,   *)
(* in all but the vision towers with mcg scalars.                           *)
LEMMA StreamHasTargets ==
  ASSUME SetupInv, CanCreate, NEW t \in VisualQkvStream
  PROVE  HasTarget(t) \/ Unrenamed
<1> SUFFICES ASSUME ~Unrenamed PROVE HasTarget(t) OBVIOUS
<1>16. setup.codebook \in {"mul1", "mcg"} BY SetupsAssumption DEF SetupInv
<1>17. Vision /\ Quantized # {} => setup.codebook = "mul1" BY <1>16 DEF Unrenamed
<1>1. /\ Members = 1 .. Len(module.members) /\ Len(module.members) \in Nat
      /\ module.fused => Vision
  BY ModuleIs DEF Vision
<1>2. 0 \notin Quantized /\ 0 \notin Members BY <1>1 DEF Quantized
<1>3. t \in Checkpoint BY DEF VisualQkvStream
<1> DEFINE ck == {"trellis", "suh", "svh", "code"} \X Quantized
           cw == {<<"weight", i>> : i \in {j \in Members \ Quantized : ~Vision}}
           cb == {<<"bias", i>> : i \in Quantized \cup {0}}
<1>4. \/ t \in ck
      \/ t \in cw /\ ~Vision
      \/ t \in cb /\ Vision
      \/ t = <<"weight", 0>> /\ Vision
  BY <1>1, <1>3 DEF Checkpoint
<1>5. t \in ck => t[1] \notin {"weight", "bias"} /\ t[2] \in Quantized /\ t[2] # 0 BY <1>2
<1>6. t \in cw => t[1] = "weight" /\ t[2] \in Members \ Quantized OBVIOUS
<1>7. t \in cb => t[1] = "bias" /\ t = <<"bias", t[2]>> OBVIOUS
<1>8. t = <<"weight", 0>> => t[1] = "weight" /\ t[2] = 0 OBVIOUS
<1>9. Vision /\ Quantized # {} =>
        /\ t[2] # 0 => Split(t) /\ ~setup.bf16 /\ t[1] # "bias"
        /\ t = <<"weight", 0>> => setup.bf16
  BY <1>17 DEF VisualQkvStream, Split
<1> HIDE DEF ck, cw, cb
<1>10. GroupsFor = {} => (Vision /\ setup.bf16) \/ Quantized = {} BY DEF GroupsFor
<1>11. GroupsFor # {} => ~(Vision /\ setup.bf16) /\ Quantized = Members BY GroupsAre
<1>12. CASE t \in ck
  <2>1. GroupsFor # {} BY <1>5, <1>9, <1>10, <1>12
  <2>2. Vision => Split(t) BY <1>5, <1>9, <1>12
  <2> QED BY <2>1, <2>2, <1>5, <1>12 DEF HasTarget
<1>13. CASE t \in cw /\ ~Vision
  <2>1. GroupsFor = {} BY <1>6, <1>11, <1>13
  <2> QED BY <2>1, <1>6, <1>13 DEF HasTarget
<1>14. CASE t \in cb /\ Vision
  <2>1. t[2] = 0
    <3>1. CASE Quantized = {} BY <3>1, <1>14 DEF cb
    <3>2. CASE Quantized # {} BY <3>2, <1>7, <1>9, <1>14
    <3> QED BY <3>1, <3>2
  <2> QED BY <2>1, <1>7, <1>14 DEF HasTarget
<1>15. CASE t = <<"weight", 0>> /\ Vision
  <2>1. GroupsFor = {} BY <1>8, <1>9, <1>11, <1>15 DEF GroupsFor
  <2> QED BY <2>1, <1>8, <1>15 DEF HasTarget
<1> QED BY <1>4, <1>12, <1>13, <1>14, <1>15
-----------------------------------------------------------------------------
(* The steps of the loading preserve its invariant                          *)

LEMMA SetupStable ==
  ASSUME setup' = setup
  PROVE  /\ module' = module /\ Members' = Members /\ Quantized' = Quantized
         /\ Vision' = Vision /\ GroupsFor' = GroupsFor
         /\ VisualQkvStream' = VisualQkvStream /\ Unrenamed' = Unrenamed
         /\ CanCreate' = CanCreate /\ CreatedLayer' = CreatedLayer
         /\ \A i : Names(i)' = Names(i)
<1>1. module' = module BY DEF module
<1>2. Members' = Members BY <1>1 DEF Members
<1>3. Quantized' = Quantized BY <1>1, <1>2 DEF Quantized
<1>4. Vision' = Vision BY <1>1 DEF Vision
<1>5. GroupsFor' = GroupsFor BY <1>3, <1>4 DEF GroupsFor
<1>6. VisualQkvStream' = VisualQkvStream
  <2>1. Checkpoint' = Checkpoint BY <1>1, <1>2, <1>3, <1>4 DEF Checkpoint
  <2>2. \A t : Split(t)' = Split(t) BY DEF Split
  <2> QED BY <2>1, <2>2, <1>3, <1>4 DEF VisualQkvStream
<1>10. Unrenamed' = Unrenamed BY <1>3, <1>4 DEF Unrenamed
<1>7. CanCreate' = CanCreate BY <1>1, <1>2, <1>5 DEF CanCreate
<1>8. CreatedLayer' = CreatedLayer BY <1>1, <1>2 DEF CreatedLayer
<1>9. \A i : Names(i)' = Names(i) BY <1>1 DEF Names
<1> QED BY <1>1, <1>2, <1>3, <1>4, <1>5, <1>6, <1>7, <1>8, <1>9, <1>10

LEMMA NamesGroups ==
  ASSUME SetupInv, CanCreate, GroupsFor # {}, NEW i \in Members
  PROVE  Names(i) \subseteq Members /\ (Cardinality(Names(i)) = 1 => \E g \in Members : Names(i) = {g})
<1> DEFINE n == Len(module.members)
           map == Tiling(module).map
           sh == module.members[i].shard
<1>1. n \in Nat /\ Members = 1 .. n BY ModuleIs
<1>2. module.parts \in Seq(Nat) /\ (sh.by # "none" => PartsOf(sh) \subseteq DOMAIN module.parts)
  BY ModuleIs DEF IsModule, Members
<1>3. map \in [1 .. Len(module.parts) -> 1 .. n] BY <1>1, <1>2, GroupsAre, TilingMaps
<1>4. DOMAIN module.parts = 1 .. Len(module.parts) BY <1>2, LenProperties
<1> HIDE DEF n, map, sh
<1>5. Names(i) \subseteq Members
  <2>1. CASE sh.by = "none"
    <3>1. GroupsOfShard(n, map, sh) = IF n = 1 THEN {1} ELSE {} BY <2>1 DEF GroupsOfShard
    <3> QED BY <3>1, <1>1 DEF Names, n, map, sh
  <2>2. CASE sh.by # "none"
    <3>1. GroupsOfShard(n, map, sh) = {map[p] : p \in PartsOf(sh)} BY <2>2 DEF GroupsOfShard
    <3>2. \A p \in PartsOf(sh) : map[p] \in 1 .. n BY <1>2, <1>3, <1>4, <2>2
    <3> QED BY <3>1, <3>2, <1>1 DEF Names, n, map, sh
  <2> QED BY <2>1, <2>2
<1>6. IsFiniteSet(Names(i))
  <2>1. IsFiniteSet(1 .. n) BY <1>1, FS_Interval
  <2> QED BY <2>1, <1>1, <1>5, FS_Subset
<1>7. ASSUME Cardinality(Names(i)) = 1 PROVE \E g \in Members : Names(i) = {g}
  <2>1. PICK g : Names(i) = {g} BY <1>6, <1>7, FS_Singleton
  <2> QED BY <2>1, <1>5
<1> QED BY <1>5, <1>7

LEMMA StreamHasCodes ==
  ASSUME SetupInv, NEW i \in GroupsFor
  PROVE  <<"code", i>> \in VisualQkvStream
<1>1. i \in Quantized /\ ~(Vision /\ setup.bf16) BY DEF GroupsFor
<1>2. i # 0 BY <1>1, ModuleIs DEF Quantized
<1> DEFINE t == <<"code", i>>
<1>3. t \in Checkpoint
  <2>1. t \in {"trellis", "suh", "svh", "code"} \X Quantized BY <1>1
  <2> QED BY <2>1 DEF Checkpoint
<1>4. t[2] = i /\ t[1] # "bias" OBVIOUS
<1> HIDE DEF t
<1>6. t # <<"weight", 0>> BY <1>2, <1>4
<1>5. t \in VisualQkvStream BY <1>1, <1>2, <1>3, <1>4, <1>6 DEF VisualQkvStream
<1> QED BY <1>5 DEF t

LEMMA LoadingInit == Init => WLoadInv
<1> SUFFICES ASSUME Init PROVE WLoadInv OBVIOUS
<1> USE DEF Init, WeightsInit
<1>1. SetupInv BY DEF SetupInv
<1>2. StreamInv BY DEF StreamInv
<1>3. NewInv BY DEF NewInv, NoDraft
<1>4. LoadingInv BY DEF LoadingInv
<1>5. CodeInv BY <1>1, StreamHasCodes DEF CodeInv
<1> QED BY <1>1, <1>2, <1>3, <1>4, <1>5 DEF WLoadInv

LEMMA CreateLoads ==
  ASSUME WLoadInv, CreateWeights
  PROVE  WLoadInv'
<1> USE DEF WLoadInv
<1>1. setup' = setup /\ stray' = stray /\ stream' = stream /\ loaded' = loaded
      /\ codebook' = codebook /\ draft' = draft /\ phase = "new"
      /\ phase' = IF CanCreate THEN "loading" ELSE "failed"
  BY DEF CreateWeights
<1>2. SetupInv' BY <1>1 DEF SetupInv
<1>3. StreamInv' BY <1>1, SetupStable DEF StreamInv
<1>4. NewInv' BY <1>1 DEF NewInv
<1>5. LoadingInv'
  <2>1. phase' \in {"loading", "ready"} => CanCreate BY <1>1
  <2>2. ASSUME phase' = "loading", GroupsFor # {}
        PROVE  /\ layer' = CreatedLayer /\ partToGroup' = Tiling(module).map
               /\ DOMAIN heap' = Kinds \X Members \X {0}
    BY <2>2, <1>1 DEF CreateWeights, CreatedLayer, Kinds
  <2>3. loaded' = {} BY <1>1 DEF NewInv
  <2>4. LoadedInv' BY <2>3 DEF LoadedInv
  <2> QED BY <2>1, <2>2, <2>4, <1>1, SetupStable DEF LoadingInv
<1>6. CodeInv' BY <1>1, SetupStable DEF CodeInv
<1> QED BY <1>2, <1>3, <1>4, <1>5, <1>6

LEMMA LoadLoads ==
  ASSUME WLoadInv, NEW t, Load(t)
  PROVE  WLoadInv'
<1> USE DEF WLoadInv
<1>1. /\ setup' = setup /\ phase = "loading" /\ t \in stream /\ stream' = stream \ {t}
      /\ draft' = draft /\ layer' = layer /\ partToGroup' = partToGroup
  BY DEF Load
<1>2. CanCreate BY <1>1 DEF LoadingInv
<1>3. t \in VisualQkvStream BY <1>1 DEF StreamInv
<1>4. HasTarget(t) \/ Unrenamed BY <1>2, <1>3, StreamHasTargets
<1>5. SetupInv' BY <1>1 DEF SetupInv
<1>6. /\ module' = module /\ Members' = Members /\ GroupsFor' = GroupsFor
      /\ VisualQkvStream' = VisualQkvStream /\ CanCreate' = CanCreate /\ Unrenamed' = Unrenamed
      /\ CreatedLayer' = CreatedLayer /\ \A i : Names(i)' = Names(i)
  BY <1>1, SetupStable
<1> DEFINE ns == GroupsOfShard(Len(layer.n), partToGroup, module.members[t[2]].shard)
<1>15. ~stray BY <1>1 DEF StreamInv
<1>7. \/ ~HasTarget(t) /\ Unrenamed /\ phase' = "failed"
      \/ HasTarget(t) /\ t[1] \in {"weight", "bias"} /\ LoadDense(t)
      \/ t[1] \notin {"weight", "bias"} /\ phase' = "failed" /\ stray' = stray
      \/ /\ HasTarget(t) /\ t[1] \notin {"weight", "bias"} /\ Cardinality(ns) = 1
         /\ \E g \in ns : IF t[1] = "code" THEN LoadCodebook(t, g) ELSE LoadGroup(t, g)
  BY <1>4 DEF Load
<1>8. stray' => phase' = "failed" /\ Unrenamed BY <1>7, <1>15 DEF LoadDense, LoadCodebook, LoadGroup
<1>9. StreamInv' BY <1>1, <1>6, <1>8 DEF StreamInv
<1>10. phase' = phase \/ phase' = "failed" BY <1>7 DEF LoadDense, LoadCodebook, LoadGroup
<1>11. NewInv' BY <1>1, <1>10 DEF NewInv
<1>12. ASSUME phase' = "failed" PROVE WLoadInv'
  BY <1>5, <1>9, <1>11, <1>12 DEF LoadingInv, CodeInv
<1>13. CASE t[1] \in {"weight", "bias"} /\ LoadDense(t)
  <2>1. loaded' = loaded \cup {t} /\ phase' = phase /\ codebook' = codebook /\ heap' = heap
    BY <1>13 DEF LoadDense
  <2>2. \A g : \A kind \in Kinds : <<kind, g>> # t BY <1>13 DEF Kinds
  <2>3. \A g : <<"code", g>> # t BY <1>13
  <2>4. LoadedInv => LoadedInv' BY <2>1, <2>2, <1>6 DEF LoadedInv
  <2>5. LoadingInv' BY <2>1, <2>4, <1>1, <1>6 DEF LoadingInv
  <2>6. CodeInv' BY <2>1, <2>3, <1>1, <1>6 DEF CodeInv
  <2> QED BY <1>5, <1>9, <1>11, <2>5, <2>6
<1>14. CASE /\ HasTarget(t) /\ t[1] \notin {"weight", "bias"} /\ Cardinality(ns) = 1
            /\ \E g \in ns : IF t[1] = "code" THEN LoadCodebook(t, g) ELSE LoadGroup(t, g)
  <2>1. GroupsFor # {} BY <1>14 DEF HasTarget
  <2>2. GroupsFor = Members /\ Quantized = Members BY <2>1, <1>2, GroupsAre
  <2>3. t = <<t[1], t[2]>> /\ t[1] \in Kinds \cup {"code"} /\ t[2] \in Members
    <3>1. t \in Checkpoint BY <1>3 DEF VisualQkvStream
    <3>2. t \in {"trellis", "suh", "svh", "code"} \X Quantized
      BY <3>1, <1>14 DEF Checkpoint
    <3> QED BY <3>2, <2>2 DEF Kinds
  <2>4. /\ layer = CreatedLayer /\ partToGroup = Tiling(module).map
        /\ DOMAIN heap = Kinds \X Members \X {0} /\ LoadedInv
    BY <1>1, <2>1 DEF LoadingInv
  <2>5. Len(layer.n) = Len(module.members)
    <3>1. layer.n = [i \in Members |-> module.members[i].n] BY <2>4 DEF CreatedLayer
    <3>2. Members = 1 .. Len(module.members) /\ Len(module.members) \in Nat BY ModuleIs
    <3> QED BY <3>1, <3>2
  <2>6. ns = Names(t[2]) BY <2>4, <2>5 DEF Names
  <2>7. PICK g \in Members : ns = {g} BY <2>1, <2>3, <2>6, <1>2, <1>14, NamesGroups
  <2>8. IF t[1] = "code" THEN LoadCodebook(t, g) ELSE LoadGroup(t, g) BY <1>14, <2>7
  <2>9. CASE t[1] = "code" /\ phase' # "failed"
    <3>1. /\ codebook \in {0, module.members[t[2]].code} /\ codebook' = module.members[t[2]].code
          /\ loaded' = loaded \cup {<<"code", g>>} /\ phase' = phase /\ heap' = heap
      BY <2>8, <2>9 DEF LoadCodebook
    <3>2. \A h : \A kind \in Kinds : <<kind, h>> # <<"code", g>> BY DEF Kinds
    <3>3. LoadedInv' BY <3>1, <3>2, <2>4, <1>6 DEF LoadedInv
    <3>4. LoadingInv' BY <3>1, <3>3, <2>4, <1>1, <1>2, <1>6 DEF LoadingInv
    <3>5. ASSUME NEW i \in GroupsFor, <<"code", i>> \notin stream \ {t}
          PROVE  module.members[t[2]].code = module.members[i].code
      <4>1. CASE <<"code", i>> = t BY <4>1
      <4>2. CASE <<"code", i>> \notin stream
        <5>1. codebook = module.members[i].code BY <4>2, <1>1 DEF CodeInv
        <5>2. module.members[i].code # 0 BY <2>2, ModuleIs
        <5> QED BY <5>1, <5>2, <3>1
      <4> QED BY <4>1, <4>2, <3>5
    <3>6. CodeInv' BY <3>1, <3>5, <1>1, <1>6 DEF CodeInv
    <3> QED BY <1>5, <1>9, <1>11, <3>4, <3>6
  <2>10. CASE t[1] # "code" /\ phase' # "failed"
    <3> DEFINE a == <<t[1], g, 0>>
               v == [of |-> t[2], lo |-> 0,
                     hi |-> IF t[1] = "suh" THEN 0 ELSE module.members[t[2]].n]
    <3>1. /\ heap' = [heap EXCEPT ![layer[t[1]][g]] = v]
          /\ loaded' = loaded \cup {<<t[1], g>>} /\ phase' = phase /\ codebook' = codebook
      BY <2>8, <2>10 DEF LoadGroup
    <3>2. t[1] \in Kinds BY <2>3, <2>10
    <3>3. layer[t[1]][g] = a
      <4>1. CASE t[1] = "trellis" BY <4>1, <2>4 DEF CreatedLayer
      <4>2. CASE t[1] = "suh" BY <4>2, <2>4 DEF CreatedLayer
      <4>3. CASE t[1] = "svh" BY <4>3, <2>4 DEF CreatedLayer
      <4> QED BY <4>1, <4>2, <4>3, <3>2 DEF Kinds
    <3>4. v.of = t[2] /\ v.lo = 0 OBVIOUS
    <3>5. a \in DOMAIN heap BY <3>2, <2>4
    <3> HIDE DEF v
    <3>6. heap' = [heap EXCEPT ![a] = v] BY <3>1, <3>3
    <3>7. DOMAIN heap' = DOMAIN heap /\ heap'[a] = v /\ \A b \in DOMAIN heap : b # a => heap'[b] = heap[b]
      BY <3>5, <3>6
    <3>8. ASSUME NEW kind \in Kinds, NEW h \in Members, <<kind, h>> \in loaded'
          PROVE  \E i \in Members :
                   Names(i) = {h} /\ heap'[<<kind, h, 0>>].of = i /\ heap'[<<kind, h, 0>>].lo = 0
      <4>1. CASE kind = t[1] /\ h = g
        <5>1. heap'[<<kind, h, 0>>] = v BY <4>1, <3>7
        <5> QED BY <5>1, <4>1, <3>4, <2>3, <2>6, <2>7
      <4>2. CASE ~(kind = t[1] /\ h = g)
        <5>1. <<kind, h>> \in loaded BY <4>2, <3>1, <3>8
        <5>2. <<kind, h, 0>> # a /\ <<kind, h, 0>> \in DOMAIN heap BY <4>2, <2>4
        <5>3. heap'[<<kind, h, 0>>] = heap[<<kind, h, 0>>] BY <5>2, <3>7
        <5> QED BY <5>1, <5>3, <2>4 DEF LoadedInv
      <4> QED BY <4>1, <4>2
    <3>9. LoadedInv' BY <3>8, <1>6 DEF LoadedInv
    <3>10. LoadingInv' BY <3>1, <3>7, <3>9, <2>4, <1>1, <1>2, <1>6 DEF LoadingInv
    <3>11. \A i : <<"code", i>> # t BY <2>10
    <3>12. CodeInv' BY <3>1, <3>11, <1>1, <1>6 DEF CodeInv
    <3> QED BY <1>5, <1>9, <1>11, <3>10, <3>12
  <2> QED BY <1>12, <2>9, <2>10
<1> QED BY <1>7, <1>12, <1>13, <1>14

LEMMA ProcessLoads ==
  ASSUME WLoadInv, ProcessWeights
  PROVE  WLoadInv'
<1> USE DEF WLoadInv
<1>1. /\ setup' = setup /\ stray' = stray /\ stream' = stream /\ codebook' = codebook
      /\ phase = "loading" /\ phase' \in {"failed", "ready"}
  BY DEF ProcessWeights
<1>2. SetupInv' BY <1>1 DEF SetupInv
<1>3. StreamInv' BY <1>1, SetupStable DEF StreamInv
<1>4. NewInv' BY <1>1 DEF NewInv
<1>5. LoadingInv' BY <1>1, SetupStable DEF LoadingInv
<1>6. CodeInv' BY <1>1, SetupStable DEF CodeInv
<1> QED BY <1>2, <1>3, <1>4, <1>5, <1>6

LEMMA OthersLoad ==
  ASSUME WLoadInv,
         UNCHANGED <<setup, phase, stray, stream, loaded, codebook, partToGroup, layer, heap, draft>>
  PROVE  WLoadInv'
<1> USE DEF WLoadInv
<1>1. SetupInv' BY DEF SetupInv
<1>2. StreamInv' BY SetupStable DEF StreamInv
<1>3. NewInv' BY DEF NewInv
<1>4. LoadedInv => LoadedInv'
  <2>1. Members' = Members /\ \A i : Names(i)' = Names(i) BY SetupStable
  <2>2. loaded' = loaded /\ heap' = heap OBVIOUS
  <2> QED BY ONLY <2>1, <2>2 DEF LoadedInv, Kinds
<1>5. LoadingInv' BY <1>4, SetupStable DEF LoadingInv
<1>6. CodeInv' BY SetupStable DEF CodeInv
<1> QED BY <1>1, <1>2, <1>3, <1>5, <1>6
-----------------------------------------------------------------------------
(* A module that is ready                                                   *)

(* Group g holds the columns of member m from `off' on. *)
Holds(g, m, off) ==
  /\ {layer.trellis[g], layer.svh[g], layer.suh[g]} \subseteq DOMAIN heap
  /\ heap[layer.trellis[g]].of = m /\ heap[layer.trellis[g]].lo = off
  /\ heap[layer.svh[g]].of = m /\ heap[layer.svh[g]].lo = off
  /\ heap[layer.suh[g]].of = m

(* Every member is a group. *)
Whole ==
  /\ layer.n = MemberWidths /\ layer.K = [i \in Members |-> module.members[i].K]
  /\ \A g \in Members : Holds(g, g, 0)
  /\ draft = NoDraft

(* The head is three groups: drafted blocks, middle, special tokens. *)
HeadWidth == module.members[1].n
SpecialFrom == HeadWidth - TailBlocks

SplitBounds == <<0, setup.draftBlocks, SpecialFrom, HeadWidth>>

SplitAt ==
  /\ Members = {1} /\ module.kind = "head"
  /\ setup.draftBlocks \in Int /\ HeadWidth \in Int /\ SpecialFrom \in Int
  /\ 0 < setup.draftBlocks /\ setup.draftBlocks < SpecialFrom /\ SpecialFrom < HeadWidth

SplitUp ==
  /\ SplitAt
  /\ layer.n = [g \in 1 .. 3 |-> SplitBounds[g + 1] - SplitBounds[g]]
  /\ layer.K = [g \in 1 .. 3 |-> module.members[1].K]
  /\ \A g \in 1 .. 3 : Holds(g, 1, SplitBounds[g])
  /\ draft.groups = <<1, 3>>
  /\ draft.cols = [i \in 1 .. setup.draftBlocks + HeadWidth - SpecialFrom |->
                     IF i <= setup.draftBlocks THEN i - 1
                     ELSE SpecialFrom + i - 1 - setup.draftBlocks]

(* The shared buffer is large enough for every slice of the module. *)
Covered == \A g \in DOMAIN layer.n : module.k * Smaller(layer.n[g], SliceN) <= wbuf.size

Ready == phase = "ready" /\ GroupsFor # {}

ReadyInv == Ready => (Whole \/ SplitUp) /\ ptrs = MgemmPtrs(layer) /\ Covered

WbufInv == wbuf.gen \in Nat /\ wbuf.size \in Nat

LEMMA SmallerIs ==
  ASSUME NEW a \in Int, NEW b \in Int
  PROVE  /\ Smaller(a, b) \in {a, b} /\ Smaller(a, b) <= a /\ Smaller(a, b) <= b
BY DEF Smaller

LEMMA SmallerNat ==
  ASSUME NEW a \in Nat, NEW b \in Nat
  PROVE  Smaller(a, b) \in 0 .. b
BY DEF Smaller

LEMMA MulMono ==
  ASSUME NEW k \in Nat, NEW a \in Int, NEW b \in Int, a <= b
  PROVE  k * a <= k * b /\ k * a \in Int /\ k * b \in Int
OBVIOUS

LEMMA MulNat ==
  ASSUME NEW k \in Nat, NEW a \in Nat
  PROVE  k * a \in Nat
OBVIOUS

(* The need of a module is the largest of its groups' needs. *)
LEMMA NeedCovers ==
  ASSUME SetupInv, NEW l, NEW n \in Nat \ {0}, l.n \in [1 .. n -> Nat \ {0}]
  PROVE  /\ Need(l) \in Nat
         /\ \A g \in 1 .. n : module.k * Smaller(l.n[g], SliceN) <= Need(l)
<1>1. module.k \in Nat /\ SliceN \in Nat \ {0} BY ModuleIs, WeightsAssumption
<1> DEFINE T == {Smaller(l.n[i], SliceN) : i \in DOMAIN l.n}
<1>2. DOMAIN l.n = 1 .. n OBVIOUS
<1>3. \A i \in 1 .. n : Smaller(l.n[i], SliceN) \in 0 .. SliceN
  <2> SUFFICES ASSUME NEW i \in 1 .. n PROVE Smaller(l.n[i], SliceN) \in 0 .. SliceN OBVIOUS
  <2>1. l.n[i] \in Nat /\ SliceN \in Nat BY <1>1
  <2> QED BY ONLY <2>1, SmallerNat
<1>4. T \in SUBSET (0 .. SliceN) /\ T # {}
  <2>1. 1 \in 1 .. n BY ONLY n \in Nat \ {0}
  <2>2. T = {Smaller(l.n[i], SliceN) : i \in 1 .. n} BY <1>2
  <2>3. Smaller(l.n[1], SliceN) \in T BY <2>1, <2>2
  <2> HIDE DEF T
  <2> QED BY ONLY <1>3, <2>2, <2>3
<1>5. \A i \in 1 .. n : Smaller(l.n[i], SliceN) \in T BY <1>2
<1>6. Need(l) = module.k * Max(T) BY DEF Need
<1> HIDE DEF T
<1>7. Max(T) \in T /\ \A x \in T : x <= Max(T) BY <1>1, <1>4, MaxIs
<1>8. Max(T) \in Nat
  <2> DEFINE m == Max(T)
  <2> HIDE DEF m
  <2>1. m \in 0 .. SliceN BY <1>4, <1>7 DEF m
  <2>2. m \in Nat BY <2>1, <1>1
  <2> QED BY <2>2 DEF m
<1>9. Need(l) \in Nat BY <1>1, <1>6, <1>8, MulNat
<1>10. ASSUME NEW g \in 1 .. n PROVE module.k * Smaller(l.n[g], SliceN) <= Need(l)
  <2> DEFINE x == Smaller(l.n[g], SliceN)
  <2> HIDE DEF x
  <2>1. x <= Max(T) /\ x \in Int /\ Max(T) \in Int BY <1>1, <1>3, <1>5, <1>7, <1>8 DEF x
  <2>2. module.k * x <= module.k * Max(T) BY <2>1, <1>1, MulMono
  <2> QED BY <2>2, <1>6 DEF x
<1> QED BY <1>9, <1>10

LEMMA ReserveCovers ==
  ASSUME WbufInv, NEW need \in Nat
  PROVE  /\ Reserve(wbuf, need).gen \in Nat /\ Reserve(wbuf, need).size \in Nat
         /\ need <= Reserve(wbuf, need).size
         /\ need <= wbuf.size => Reserve(wbuf, need) = wbuf
BY DEF WbufInv, Reserve

(* Once no tensor is missing, each member's tensors are in its own group. *)
LEMMA OwnTensors ==
  ASSUME WLoadInv, phase = "loading", GroupsFor # {}, ~Missing, NEW kind \in Kinds, NEW g \in Members
  PROVE  heap[<<kind, g, 0>>].of = g /\ heap[<<kind, g, 0>>].lo = 0
<1> USE DEF WLoadInv
<1>1. /\ CanCreate /\ layer = CreatedLayer /\ LoadedInv BY DEF LoadingInv
<1>2. \A k \in Kinds, h \in Members : <<k, h>> \in loaded
  <2>1. DOMAIN layer.n = Members BY <1>1 DEF CreatedLayer
  <2> QED BY <2>1 DEF Missing, Kinds
<1>3. \A h \in Members : \E i \in Members : Names(i) = {h}
  <2>1. "trellis" \in Kinds BY DEF Kinds
  <2> QED BY <2>1, <1>1, <1>2 DEF LoadedInv
<1>4. \A i \in Members : Names(i) = {i}
  <2>1. InOutputOrder(module) /\ Tiling(module).ok BY <1>1, ModuleIs, GroupsAre
  <2> QED BY <2>1, <1>3 DEF InOutputOrder, Names, Members
<1>5. PICK i \in Members :
        Names(i) = {g} /\ heap[<<kind, g, 0>>].of = i /\ heap[<<kind, g, 0>>].lo = 0
  BY <1>1, <1>2 DEF LoadedInv
<1>6. i = g BY <1>4, <1>5
<1> QED BY <1>5, <1>6

(* Where the head is split. *)
LEMMA SplitsWhere ==
  ASSUME SetupInv, CanCreate, GroupsFor # {}, layer = CreatedLayer, Splits
  PROVE  /\ SplitAt /\ Bounds = SplitBounds
<1> DEFINE d == setup.draftBlocks
           n == layer.n[1]
           b == n - TailBlocks
           drafted == DraftBlocks(n)
           gap == Gap(n)
           tail == {i \in drafted : \E j \in gap : j < i}
<1>0. d \in Int /\ TailBlocks \in Nat BY ModuleIs, WeightsAssumption
<1>1. Members = {1} /\ n = HeadWidth /\ n \in Nat \ {0}
  <2>1. layer.n = [i \in Members |-> module.members[i].n] BY DEF CreatedLayer
  <2>2. Members = 1 .. Len(module.members) /\ Len(module.members) \in Nat BY ModuleIs
  <2>3. Len(layer.n) = Len(module.members) BY <2>1, <2>2
  <2>4. Len(layer.n) = 1 BY DEF Splits
  <2>5. Members = {1} BY <2>2, <2>3, <2>4
  <2> QED BY <2>1, <2>5, ModuleIs DEF HeadWidth
<1>2. 0 \in drafted /\ tail # {} BY DEF Splits
<1>3. 0 < d /\ d < n /\ drafted = (0 .. d - 1) \cup {i \in d .. n - 1 : i >= b}
  <2>1. drafted # {} BY <1>2
  <2> QED BY <2>1, <1>0, <1>1 DEF DraftBlocks
<1>4. gap = {j \in d .. n - 1 : j < b}
  <2>1. gap = (0 .. n - 1) \ drafted BY DEF Gap
  <2> HIDE DEF n, b, drafted, gap
  <2>2. b \in Int BY <1>0, <1>1 DEF b
  <2> QED BY <2>1, <2>2, <1>0, <1>1, <1>3
<1>5. PICK i \in drafted, j \in gap : j < i BY <1>2
<1>6. d < b /\ b < n
  <2> HIDE DEF n, b, drafted, gap, d
  <2>1. b \in Int BY <1>0, <1>1 DEF b
  <2>2. j \in Int /\ d <= j /\ j < b BY <1>0, <1>1, <1>4, <1>5
  <2>3. i \in Int /\ (i < d \/ i >= b) /\ i < n BY <1>0, <1>1, <1>3
  <2> QED BY <2>1, <2>2, <2>3, <1>0, <1>1, <1>5
<1>7. Min(gap) = d /\ Max(gap) + 1 = b
  <2> HIDE DEF n, b, drafted, gap, d
  <2>1. b \in Int BY <1>0, <1>1 DEF b
  <2>2. gap \in SUBSET Nat /\ gap \in SUBSET (0 .. n) /\ n \in Nat BY <1>0, <1>1, <1>3, <1>4
  <2>3. d \in gap /\ \A x \in gap : d <= x BY <2>1, <1>0, <1>1, <1>3, <1>4, <1>6
  <2>4. b - 1 \in gap /\ \A x \in gap : x <= b - 1 BY <2>1, <1>0, <1>1, <1>3, <1>4, <1>6
  <2>5. Min(gap) = d BY <2>2, <2>3, MinUnique
  <2>6. Max(gap) = b - 1 BY <2>2, <2>4, MaxUnique
  <2> QED BY <2>1, <2>5, <2>6
<1>8. Bounds = <<0, d, b, n>> BY <1>7 DEF Bounds
<1>9. b = SpecialFrom BY <1>1 DEF SpecialFrom
<1>10. module.kind = "head" BY DEF Splits
<1> HIDE DEF b, n, d
<1>11. b \in Int BY <1>0, <1>1 DEF b
<1> QED BY <1>0, <1>1, <1>3, <1>6, <1>8, <1>9, <1>10, <1>11 DEF SplitAt, SplitBounds, d
LEMMA ReadyStable ==
  ASSUME setup' = setup
  PROVE  /\ MemberWidths' = MemberWidths /\ HeadWidth' = HeadWidth /\ SpecialFrom' = SpecialFrom
         /\ SplitBounds' = SplitBounds /\ SplitAt' = SplitAt
<1>1. module' = module /\ Members' = Members BY SetupStable
<1>2. MemberWidths' = MemberWidths BY <1>1 DEF MemberWidths
<1>3. HeadWidth' = HeadWidth BY <1>1 DEF HeadWidth
<1>4. SpecialFrom' = SpecialFrom BY <1>3 DEF SpecialFrom
<1>5. SplitBounds' = SplitBounds BY <1>3, <1>4 DEF SplitBounds
<1>6. SplitAt' = SplitAt BY <1>1, <1>3, <1>4 DEF SplitAt
<1> QED BY <1>2, <1>3, <1>4, <1>5, <1>6

LEMMA SplitBoundsAre ==
  ASSUME SplitAt, WeightsAssumption
  PROVE  /\ \A g \in 1 .. 4 : SplitBounds[g] \in Nat
         /\ \A g \in 1 .. 3 : SplitBounds[g + 1] - SplitBounds[g] \in Nat \ {0}
<1> DEFINE d == setup.draftBlocks
           b == SpecialFrom
           n == HeadWidth
<1>1. d \in Int /\ b \in Int /\ n \in Int /\ 0 < d /\ d < b /\ b < n BY DEF SplitAt
<1>2. SplitBounds[1] = 0 /\ SplitBounds[2] = d /\ SplitBounds[3] = b /\ SplitBounds[4] = n
  BY DEF SplitBounds
<1> HIDE DEF d, b, n
<1>3. ASSUME NEW g \in 1 .. 4 PROVE SplitBounds[g] \in Nat
  <2>1. g = 1 \/ g = 2 \/ g = 3 \/ g = 4 OBVIOUS
  <2> QED BY <2>1, <1>1, <1>2
<1>4. ASSUME NEW g \in 1 .. 3 PROVE SplitBounds[g + 1] - SplitBounds[g] \in Nat \ {0}
  <2>1. g = 1 \/ g = 2 \/ g = 3 OBVIOUS
  <2>2. 1 + 1 = 2 /\ 2 + 1 = 3 /\ 3 + 1 = 4 OBVIOUS
  <2> QED BY <2>1, <2>2, <1>1, <1>2
<1> QED BY <1>3, <1>4

LEMMA ProcessWhole ==
  ASSUME WLoadInv, ProcessWeights, phase' = "ready", GroupsFor # {}, ~Splits
  PROVE  Whole'
<1> USE DEF WLoadInv
<1>1. /\ phase = "loading" /\ ~Missing /\ setup' = setup
      /\ layer' = layer /\ heap' = heap /\ draft' = draft
  BY DEF ProcessWeights
<1>2. /\ CanCreate /\ layer = CreatedLayer /\ draft = NoDraft
      /\ DOMAIN heap = Kinds \X Members \X {0}
  BY <1>1 DEF LoadingInv, NewInv
<1>3. Members' = Members /\ module' = module /\ MemberWidths' = MemberWidths
  BY <1>1, SetupStable, ReadyStable
<1>4. /\ layer.n = MemberWidths /\ layer.K = [i \in Members |-> module.members[i].K]
      /\ \A g \in Members : /\ layer.trellis[g] = <<"trellis", g, 0>>
                            /\ layer.suh[g] = <<"suh", g, 0>>
                            /\ layer.svh[g] = <<"svh", g, 0>>
  BY <1>2 DEF CreatedLayer, MemberWidths
<1>5. ASSUME NEW g \in Members PROVE Holds(g, g, 0)
  <2>1. "trellis" \in Kinds /\ "suh" \in Kinds /\ "svh" \in Kinds BY DEF Kinds
  <2>2. {<<"trellis", g, 0>>, <<"svh", g, 0>>, <<"suh", g, 0>>} \subseteq DOMAIN heap
    BY <2>1, <1>2
  <2>3. /\ heap[<<"trellis", g, 0>>].of = g /\ heap[<<"trellis", g, 0>>].lo = 0
        /\ heap[<<"svh", g, 0>>].of = g /\ heap[<<"svh", g, 0>>].lo = 0
        /\ heap[<<"suh", g, 0>>].of = g
    BY <2>1, <1>1, OwnTensors
  <2> QED BY <2>2, <2>3, <1>4 DEF Holds
<1>6. \A g \in Members : Holds(g, g, 0)' BY <1>1, <1>5 DEF Holds
<1> QED BY <1>1, <1>2, <1>3, <1>4, <1>6 DEF Whole, NoDraft

LEMMA ProcessSplit ==
  ASSUME WLoadInv, ProcessWeights, phase' = "ready", GroupsFor # {}, Splits
  PROVE  SplitUp'
<1> USE DEF WLoadInv
<1>1. /\ phase = "loading" /\ ~Missing /\ setup' = setup
      /\ layer' = SplitLayer /\ heap' = SplitHeap /\ draft' = SplitDraft
  BY DEF ProcessWeights
<1>2. /\ CanCreate /\ layer = CreatedLayer /\ DOMAIN heap = Kinds \X Members \X {0}
  BY <1>1 DEF LoadingInv
<1>3. SplitAt /\ Bounds = SplitBounds BY <1>2, SplitsWhere
<1>4. /\ module' = module /\ SplitAt' = SplitAt /\ HeadWidth' = HeadWidth /\ SpecialFrom' = SpecialFrom
      /\ SplitBounds' = SplitBounds
  BY <1>1, SetupStable, ReadyStable
<1>5. Members = {1} BY <1>3 DEF SplitAt
<1>6. /\ layer.trellis[1] = <<"trellis", 1, 0>> /\ layer.svh[1] = <<"svh", 1, 0>>
      /\ layer.suh[1] = <<"suh", 1, 0>> /\ layer.K[1] = module.members[1].K
  BY <1>2, <1>5 DEF CreatedLayer
<1>7. /\ heap[layer.trellis[1]].of = 1 /\ heap[layer.trellis[1]].lo = 0
      /\ heap[layer.svh[1]].of = 1 /\ heap[layer.svh[1]].lo = 0
      /\ heap[layer.suh[1]].of = 1
  <2>1. "trellis" \in Kinds /\ "suh" \in Kinds /\ "svh" \in Kinds /\ 1 \in Members BY <1>5 DEF Kinds
  <2> QED BY <2>1, <1>1, <1>6, OwnTensors
<1>8. /\ layer'.n = [g \in 1 .. 3 |-> SplitBounds[g + 1] - SplitBounds[g]]
      /\ layer'.K = [g \in 1 .. 3 |-> module.members[1].K]
      /\ \A g \in 1 .. 3 : /\ layer'.trellis[g] = <<"trellis", g, 1>>
                           /\ layer'.svh[g] = <<"svh", g, 1>>
                           /\ layer'.suh[g] = layer.suh[1]
  BY <1>1, <1>3, <1>6 DEF SplitLayer
<1> DEFINE new == {"trellis", "svh"} \X (1 .. 3) \X {1}
<1>9. heap' = [a \in new \cup {layer.suh[1]} |->
                IF a \in new
                THEN Slice(heap[layer[a[1]][1]], SplitBounds[a[2]], SplitBounds[a[2] + 1])
                ELSE heap[a]]
  BY <1>1, <1>3 DEF SplitHeap
<1>10. ASSUME NEW g \in 1 .. 3 PROVE Holds(g, 1, SplitBounds[g])'
  <2>1. SplitBounds[g] \in Nat BY <1>3, SplitBoundsAre, WeightsAssumption
  <2>2. <<"trellis", g, 1>> \in new /\ <<"svh", g, 1>> \in new OBVIOUS
  <2>3. layer.suh[1] \notin new BY <1>6
  <2> HIDE DEF new
  <2>4. /\ heap'[<<"trellis", g, 1>>] = Slice(heap[layer.trellis[1]], SplitBounds[g], SplitBounds[g + 1])
        /\ heap'[<<"svh", g, 1>>] = Slice(heap[layer.svh[1]], SplitBounds[g], SplitBounds[g + 1])
        /\ heap'[layer.suh[1]] = heap[layer.suh[1]]
        /\ {<<"trellis", g, 1>>, <<"svh", g, 1>>, layer.suh[1]} \subseteq DOMAIN heap'
    BY <2>2, <2>3, <1>9
  <2>5. /\ heap'[<<"trellis", g, 1>>].of = 1 /\ heap'[<<"trellis", g, 1>>].lo = SplitBounds[g]
        /\ heap'[<<"svh", g, 1>>].of = 1 /\ heap'[<<"svh", g, 1>>].lo = SplitBounds[g]
        /\ heap'[layer.suh[1]].of = 1
    BY <2>1, <2>4, <1>7 DEF Slice
  <2> QED BY <2>4, <2>5, <1>4, <1>8 DEF Holds
<1>11. /\ draft'.groups = <<1, 3>>
       /\ draft'.cols = [i \in 1 .. setup.draftBlocks + HeadWidth - SpecialFrom |->
                           IF i <= setup.draftBlocks THEN i - 1
                           ELSE SpecialFrom + i - 1 - setup.draftBlocks]
  <2>1. /\ SplitBounds[2] = setup.draftBlocks /\ SplitBounds[3] = SpecialFrom
        /\ SplitBounds[4] = HeadWidth
    BY DEF SplitBounds
  <2> QED BY <2>1, <1>1, <1>3 DEF SplitDraft
<1> HIDE DEF new
<1>12. \A g \in 1 .. 3 : Holds(g, 1, SplitBounds[g])' BY <1>10
<1> QED BY <1>1, <1>3, <1>4, <1>8, <1>11, <1>12 DEF SplitUp
LEMMA WidthsAre ==
  ASSUME SetupInv, CanCreate, GroupsFor # {}, NEW l,
         \/ l.n = MemberWidths
         \/ SplitAt /\ l.n = [g \in 1 .. 3 |-> SplitBounds[g + 1] - SplitBounds[g]]
  PROVE  /\ Len(l.n) \in 1 .. 4 /\ DOMAIN l.n = 1 .. Len(l.n)
         /\ l.n \in [1 .. Len(l.n) -> Nat \ {0}]
         /\ l.n = MemberWidths => Len(l.n) = Len(module.members)
         /\ l.n # MemberWidths => Len(l.n) = 3
<1>1. /\ Members = 1 .. Len(module.members) /\ Len(module.members) \in 0 .. 4
      /\ Members # {} /\ \A i \in Members : module.members[i].n \in Nat \ {0}
  BY ModuleIs, GroupsAre
<1>2. ASSUME l.n = MemberWidths
      PROVE  /\ Len(l.n) \in 1 .. 4 /\ l.n \in [1 .. Len(l.n) -> Nat \ {0}]
             /\ Len(l.n) = Len(module.members)
  <2> DEFINE n == Len(module.members)
  <2>1. n \in 1 .. 4 BY <1>1
  <2>2. l.n \in [1 .. n -> Nat \ {0}] BY <1>1, <1>2 DEF MemberWidths
  <2> HIDE DEF n
  <2>3. Len(l.n) = n BY <2>1, <2>2
  <2> QED BY <2>1, <2>2, <2>3 DEF n
<1>3. ASSUME SplitAt, l.n = [g \in 1 .. 3 |-> SplitBounds[g + 1] - SplitBounds[g]]
      PROVE  Len(l.n) = 3 /\ l.n \in [1 .. Len(l.n) -> Nat \ {0}]
  <2>1. l.n \in [1 .. 3 -> Nat \ {0}] BY <1>3, SplitBoundsAre, WeightsAssumption
  <2>2. Len(l.n) = 3 BY <2>1
  <2> QED BY <2>1, <2>2
<1>4. Len(l.n) \in 1 .. 4 /\ l.n \in [1 .. Len(l.n) -> Nat \ {0}]
  <2>1. CASE l.n = MemberWidths BY <2>1, <1>2
  <2>2. CASE SplitAt /\ l.n = [g \in 1 .. 3 |-> SplitBounds[g + 1] - SplitBounds[g]]
    <3>1. Len(l.n) = 3 /\ l.n \in [1 .. Len(l.n) -> Nat \ {0}] BY <2>2, <1>3
    <3>2. 3 \in 1 .. 4 OBVIOUS
    <3> QED BY <3>1, <3>2
  <2> QED BY <2>1, <2>2
<1>5. DOMAIN l.n = 1 .. Len(l.n) BY <1>4
<1> QED BY <1>2, <1>3, <1>4, <1>5

LEMMA ReadyWidths ==
  ASSUME WLoadInv, ReadyInv, Ready
  PROVE  /\ CanCreate /\ (Whole \/ SplitUp)
         /\ Len(layer.n) \in 1 .. 4 /\ DOMAIN layer.n = 1 .. Len(layer.n)
         /\ layer.n \in [1 .. Len(layer.n) -> Nat \ {0}]
         /\ draft.groups \in Seq(DOMAIN layer.n)
<1>1. CanCreate /\ (Whole \/ SplitUp) /\ GroupsFor # {} /\ SetupInv
  BY DEF WLoadInv, LoadingInv, ReadyInv, Ready
<1>2. \/ layer.n = MemberWidths
      \/ SplitAt /\ layer.n = [g \in 1 .. 3 |-> SplitBounds[g + 1] - SplitBounds[g]]
  BY <1>1 DEF Whole, SplitUp
<1>3. /\ Len(layer.n) \in 1 .. 4 /\ DOMAIN layer.n = 1 .. Len(layer.n)
      /\ layer.n \in [1 .. Len(layer.n) -> Nat \ {0}]
  BY <1>1, <1>2, WidthsAre
<1>4. draft.groups \in Seq(DOMAIN layer.n)
  <2>1. CASE Whole
    <3>1. draft.groups = <<>> BY <2>1 DEF Whole, NoDraft
    <3> QED BY <3>1
  <2>2. CASE SplitUp
    <3>1. draft.groups = <<1, 3>> /\ DOMAIN layer.n = 1 .. 3 BY <2>2 DEF SplitUp
    <3> QED BY <3>1
  <2> QED BY <1>1, <2>1, <2>2
<1> QED BY <1>1, <1>3, <1>4

LEMMA ProcessReady ==
  ASSUME WLoadInv, WbufInv, ProcessWeights
  PROVE  ReadyInv' /\ WbufInv'
<1>1. phase = "loading" /\ setup' = setup BY DEF ProcessWeights
<1>2. CanCreate /\ SetupInv BY <1>1 DEF WLoadInv, LoadingInv
<1>3. GroupsFor' = GroupsFor /\ module' = module /\ MemberWidths' = MemberWidths
      /\ SplitAt' = SplitAt /\ SplitBounds' = SplitBounds
  BY <1>1, SetupStable, ReadyStable
<1>4. CASE phase' = "ready" /\ GroupsFor # {}
  <2>1. Whole' \/ SplitUp' BY <1>4, ProcessWhole, ProcessSplit
  <2>2. layer' = IF Splits THEN SplitLayer ELSE layer BY <1>4 DEF ProcessWeights
  <2>3. ptrs' = MgemmPtrs(layer') /\ wbuf' = Reserve(wbuf, Need(layer'))
    BY <1>4, <2>2 DEF ProcessWeights
  <2>4. \/ layer'.n = MemberWidths
        \/ SplitAt /\ layer'.n = [g \in 1 .. 3 |-> SplitBounds[g + 1] - SplitBounds[g]]
    BY <2>1, <1>3 DEF Whole, SplitUp
  <2> DEFINE l == layer'
             n == Len(l.n)
  <2>5. n \in 1 .. 4 /\ DOMAIN l.n = 1 .. n /\ l.n \in [1 .. n -> Nat \ {0}]
    BY <1>2, <1>4, <2>4, WidthsAre
  <2> HIDE DEF l, n
  <2>6. n \in Nat \ {0} BY <2>5
  <2>7. /\ Need(l) \in Nat
        /\ \A g \in 1 .. n : module.k * Smaller(l.n[g], SliceN) <= Need(l)
    BY <1>2, <2>5, <2>6, NeedCovers
  <2>8. wbuf' = Reserve(wbuf, Need(l)) BY <2>3 DEF l
  <2>9. WbufInv' /\ Need(l) <= wbuf'.size
    BY <2>7, <2>8, ReserveCovers DEF WbufInv
  <2>10. ASSUME NEW g \in 1 .. n PROVE module.k * Smaller(l.n[g], SliceN) <= wbuf'.size
    <3> DEFINE x == module.k * Smaller(l.n[g], SliceN)
    <3>1. x \in Int
      <4>1. l.n[g] \in Nat /\ SliceN \in Nat BY <2>5, WeightsAssumption
      <4>2. Smaller(l.n[g], SliceN) \in Nat BY <4>1 DEF Smaller
      <4>3. module.k \in Nat BY <1>2, ModuleIs
      <4> QED BY <4>2, <4>3, MulNat
    <3>2. x <= Need(l) BY <2>7
    <3> HIDE DEF x
    <3>3. x <= wbuf'.size BY <3>1, <3>2, <2>7, <2>9 DEF WbufInv
    <3> QED BY <3>3 DEF x
  <2>11. Covered' BY <2>5, <2>10, <1>3 DEF Covered, l
  <2>12. ptrs' = MgemmPtrs(layer)' BY <1>1, <2>3 DEF MgemmPtrs
  <2> QED BY <2>1, <2>9, <2>11, <2>12 DEF ReadyInv
<1>5. CASE ~(phase' = "ready" /\ GroupsFor # {})
  <2>1. ~Ready' BY <1>3, <1>5 DEF Ready
  <2>2. wbuf' = wbuf BY <1>5 DEF ProcessWeights
  <2> QED BY <2>1, <2>2 DEF ReadyInv, WbufInv
<1> QED BY <1>4, <1>5

(* ReadyInv speaks of nothing that a forward pass changes, but of the buffer. *)
LEMMA ReadyStays ==
  ASSUME ReadyInv, UNCHANGED <<setup, phase, layer, heap, draft, ptrs>>, wbuf' = wbuf
  PROVE  ReadyInv'
<1>1. /\ module' = module /\ Members' = Members /\ GroupsFor' = GroupsFor
      /\ MemberWidths' = MemberWidths /\ SplitAt' = SplitAt /\ SplitBounds' = SplitBounds
      /\ HeadWidth' = HeadWidth /\ SpecialFrom' = SpecialFrom
  BY SetupStable, ReadyStable
<1>2. Ready' = Ready BY <1>1 DEF Ready
<1>3. \A g, m, off : Holds(g, m, off)' = Holds(g, m, off) BY DEF Holds
<1>4. Whole => Whole' BY <1>1, <1>3 DEF Whole, NoDraft
<1>5. SplitUp => SplitUp' BY <1>1, <1>3 DEF SplitUp
<1>6. MgemmPtrs(layer)' = MgemmPtrs(layer) BY DEF MgemmPtrs
<1>7. Covered => Covered' BY <1>1 DEF Covered
<1> QED BY <1>2, <1>4, <1>5, <1>6, <1>7 DEF ReadyInv
-----------------------------------------------------------------------------
(* The shared buffer                                                        *)

(* No call needs more of the buffer than the module reserved. *)
LEMMA BufferStays ==
  ASSUME WLoadInv, ReadyInv, Ready, WbufInv, NEW gs \in Seq(DOMAIN layer.n), NEW p, NEW rows
  PROVE  \A i \in 0 .. Len(gs) : WeightBuffer(gs, p, rows)[i] = wbuf
<1> DEFINE n == Len(gs)
           Part(i) == module.k * Smaller(layer.n[gs[i]], SliceN)
           rec == Reconstructed(gs, p, rows)
           IsW(w) == w = [i \in 0 .. n |-> IF i = 0 THEN wbuf
                                           ELSE IF i \in rec THEN Reserve(w[i - 1], Part(i))
                                           ELSE w[i - 1]]
           v == CHOOSE w : IsW(w)
           c == [i \in 0 .. n |-> wbuf]
<1>1. n \in Nat /\ \A i \in 1 .. n : gs[i] \in DOMAIN layer.n BY LenProperties, ElementOfSeq
<1>2. ASSUME NEW i \in 1 .. n PROVE Reserve(wbuf, Part(i)) = wbuf
  <2>1. gs[i] \in DOMAIN layer.n BY <1>1
  <2>2. Covered BY DEF ReadyInv
  <2>3. Part(i) <= wbuf.size BY <2>1, <2>2 DEF Covered
  <2>4. Part(i) \in Nat
    <3>1. layer.n[gs[i]] \in Nat /\ SliceN \in Nat BY <2>1, ReadyWidths, WeightsAssumption
    <3>2. Smaller(layer.n[gs[i]], SliceN) \in Nat BY <3>1 DEF Smaller
    <3>3. module.k \in Nat BY ModuleIs DEF WLoadInv
    <3> QED BY <3>2, <3>3, MulNat
  <2> HIDE DEF Part
  <2> QED BY <2>3, <2>4, ReserveCovers
<1> HIDE DEF Part, rec
<1>3. IsW(c)
  <2>1. \A i \in 1 .. n : c[i - 1] = wbuf BY <1>1
  <2> SUFFICES ASSUME NEW i \in 0 .. n
               PROVE  wbuf = IF i = 0 THEN wbuf
                             ELSE IF i \in rec THEN Reserve(c[i - 1], Part(i)) ELSE c[i - 1]
    OBVIOUS
  <2>2. CASE i = 0 BY <2>2
  <2>3. CASE i \in 1 .. n
    <3>1. c[i - 1] = wbuf /\ Reserve(wbuf, Part(i)) = wbuf BY <2>1, <2>3, <1>2
    <3> QED BY <3>1, Zenon
  <2> QED BY <1>1, <2>2, <2>3
<1>4. WeightBuffer(gs, p, rows) = v BY DEF WeightBuffer, rec, Part
<1>5. IsW(v)
  <2> HIDE DEF IsW
  <2> QED BY <1>3
<1> HIDE DEF v, c
<1>6. v[0] = wbuf /\ \A i \in 1 .. n : v[i] = IF i \in rec THEN Reserve(v[i - 1], Part(i)) ELSE v[i - 1]
  <2> HIDE DEF Part, rec
  <2>1. v = [i \in 0 .. n |-> IF i = 0 THEN wbuf
                             ELSE IF i \in rec THEN Reserve(v[i - 1], Part(i)) ELSE v[i - 1]]
    BY <1>5
  <2>2. n \in Nat BY <1>1
  <2> HIDE DEF n
  <2>3. 0 \in 0 .. n /\ \A i \in 1 .. n : i \in 0 .. n /\ i # 0 BY ONLY <2>2
  <2> QED BY <2>1, <2>3, Zenon
<1> DEFINE T == {i \in 0 .. n : v[i] # wbuf}
<1> HIDE DEF n, IsW
<1>7. T = {}
  <2> SUFFICES ASSUME T # {} PROVE FALSE OBVIOUS
  <2>1. PICK m \in T : \A k \in T : m <= k
    <3>1. T \in SUBSET Nat OBVIOUS
    <3> HIDE DEF T
    <3> QED BY <3>1, NatMin
  <2>2. m # 0 BY <1>6, <2>1
  <2>3. m - 1 \in 0 .. n /\ m - 1 \notin T /\ m \in 1 .. n BY <1>1, <2>1, <2>2
  <2>4. v[m - 1] = wbuf BY <2>3
  <2>5. v[m] = wbuf BY <1>2, <1>6, <2>3, <2>4
  <2> QED BY <2>1, <2>5
<1> QED BY <1>4, <1>7 DEF n

(* Every call so far found the buffer large enough. *)
UseInv ==
  /\ E # <<>> => Ready
  /\ E = <<>> => graphs = {}
  /\ call.op # "none" => E # <<>>
  /\ graphs \subseteq {wbuf.gen}

BufferInv == WLoadInv /\ WbufInv /\ ReadyInv /\ UseInv

LEMMA UseKeepsBuffer ==
  ASSUME BufferInv, Ready, NEW gs \in Seq(DOMAIN layer.n), NEW p, NEW rows, NEW capturing,
         UseBuffer(gs, p, rows, capturing)
  PROVE  wbuf' = wbuf /\ graphs' \subseteq {wbuf.gen}
<1> DEFINE w == WeightBuffer(gs, p, rows)
           rec == Reconstructed(gs, p, rows)
<1>1. \A i \in 0 .. Len(gs) : w[i] = wbuf BY BufferStays DEF BufferInv
<1>2. Len(gs) \in Nat /\ DOMAIN gs = 1 .. Len(gs) BY LenProperties
<1>3. rec \subseteq 1 .. Len(gs) BY <1>2 DEF Reconstructed
<1>4. wbuf' = w[Len(gs)]
      /\ graphs' = graphs \cup {w[i].gen : i \in IF capturing THEN rec ELSE {}}
  BY DEF UseBuffer
<1>5. graphs \subseteq {wbuf.gen} BY DEF BufferInv, UseInv
<1> HIDE DEF w, rec
<1>6. wbuf' = wbuf BY <1>1, <1>2, <1>4
<1>7. \A i \in rec : w[i].gen = wbuf.gen BY <1>1, <1>2, <1>3
<1> QED BY <1>4, <1>5, <1>6, <1>7
-----------------------------------------------------------------------------
(* Division                                                                 *)

LEMMA DivDef ==
  ASSUME NEW k \in Nat \ {0}, NEW a \in Int
  PROVE  /\ a \div k \in Int /\ a % k \in 0 .. k - 1
         /\ a = k * (a \div k) + (a % k)
OBVIOUS

LEMMA MulNext ==
  ASSUME NEW k \in Int, NEW a \in Int
  PROVE  k * (a + 1) = k * a + k /\ k * a \in Int
OBVIOUS

LEMMA MulSwap ==
  ASSUME NEW k \in Int, NEW a \in Int
  PROVE  k * a = a * k /\ k * a \in Int
OBVIOUS

(* Column c of the block a of width k *)
LEMMA BlockColumn ==
  ASSUME NEW k \in Nat \ {0}, NEW a \in Nat, NEW c \in 0 .. k - 1
  PROVE  (a * k + c) \div k = a /\ (a * k + c) % k = c
<1> DEFINE x == a * k + c
           d == x \div k
           e == x % k
<1>1. x \in Int /\ x = k * a + c /\ k * a \in Int BY MulSwap
<1>2. d \in Int /\ e \in 0 .. k - 1 /\ x = k * d + e BY <1>1, DivDef
<1> HIDE DEF x, d, e
<1>3. ~(d < a)
  <2> SUFFICES ASSUME d < a PROVE FALSE OBVIOUS
  <2>1. k * (d + 1) <= k * a BY <1>2, MulMono
  <2>2. k * (d + 1) = k * d + k /\ k * d \in Int BY <1>2, MulNext
  <2> QED BY <1>1, <1>2, <2>1, <2>2
<1>4. ~(a < d)
  <2> SUFFICES ASSUME a < d PROVE FALSE OBVIOUS
  <2>1. k * (a + 1) <= k * d BY <1>2, MulMono
  <2>2. k * (a + 1) = k * a + k /\ k * d \in Int BY <1>2, MulNext, MulMono
  <2> QED BY <1>1, <1>2, <2>1, <2>2
<1>5. d = a BY <1>2, <1>3, <1>4
<1>6. e = c BY <1>1, <1>2, <1>5
<1> QED BY <1>5, <1>6 DEF x, d, e

(* Column c of the block a is below the end of n blocks. *)
LEMMA BlockBelow ==
  ASSUME NEW k \in Nat \ {0}, NEW n \in Nat, NEW a \in 0 .. n - 1, NEW c \in 0 .. k - 1
  PROVE  a * k + c \in 0 .. n * k - 1
<1>1. k * (a + 1) <= k * n BY MulMono
<1>2. k * (a + 1) = k * a + k /\ k * a \in Int /\ k * a = a * k BY MulNext, MulSwap
<1>3. k * n = n * k /\ k * n \in Int BY MulSwap
<1>4. a * k \in Nat BY MulNat
<1> QED BY <1>1, <1>2, <1>3, <1>4
-----------------------------------------------------------------------------
(* What a call computes                                                     *)

(* Column c of group g, in w waves. *)
Cell(g, c, w) ==
  [t |-> <<At(layer.trellis[g]).of, At(layer.trellis[g]).lo + c>>,
   s |-> <<At(layer.svh[g]).of, At(layer.svh[g]).lo + c>>,
   h |-> At(layer.suh[g]).of, K |-> layer.K[g], waves |-> w]

(* y is a row of n columns. *)
IsRow(y, n) == y = [c \in 0 .. n - 1 |-> y[c]]

(* y has the columns of the first i - 1 of the groups gs, those of the j-th *)
(* in wv[j] waves.                                                          *)
Written(y, gs, wv, i) ==
  /\ IsRow(y, Total(WidthsOf(gs)))
  /\ \A j \in 1 .. i - 1 : \A c \in 0 .. layer.n[gs[j]] - 1 :
       y[Before(WidthsOf(gs), j) + c] = Cell(gs[j], c, wv[j])

Columns(y, gs, wv) == Written(y, gs, wv, Len(gs) + 1)

(* Groups of a module that is ready. *)
Chosen(gs) ==
  /\ gs \in Seq(DOMAIN layer.n) /\ Len(gs) \in 1 .. 4
  /\ \A g \in DOMAIN layer.n :
       /\ layer.n[g] \in Nat \ {0}
       /\ At(layer.trellis[g]).lo \in Int /\ At(layer.svh[g]).lo \in Int

(* Pointers are taken of the whole module, whose groups are alike. *)
Pointers(gs, p) ==
  p # <<>> =>
    /\ Len(gs) > 1
    /\ \A i \in DOMAIN gs : gs[i] = i /\ layer.n[i] = layer.n[1] /\ layer.K[i] = layer.K[1]
    /\ p.trellis = layer.trellis /\ p.suh = layer.suh /\ p.svh = layer.svh

LEMMA ChosenIs ==
  ASSUME NEW gs, Chosen(gs)
  PROVE  /\ Len(gs) \in Nat \ {0} /\ DOMAIN gs = 1 .. Len(gs)
         /\ \A i \in 1 .. Len(gs) : gs[i] \in DOMAIN layer.n /\ layer.n[gs[i]] \in Nat \ {0}
         /\ WidthsOf(gs) \in [1 .. Len(gs) -> Nat]
         /\ \A i \in 1 .. Len(gs) : WidthsOf(gs)[i] = layer.n[gs[i]]
<1>1. gs \in Seq(DOMAIN layer.n) /\ Len(gs) \in 1 .. 4 BY DEF Chosen
<1>2. Len(gs) \in Nat \ {0}
  <2> DEFINE n == Len(gs)
  <2>1. n \in 1 .. 4 BY <1>1
  <2> HIDE DEF n
  <2>2. n \in Nat \ {0} BY ONLY <2>1
  <2> QED BY ONLY <2>2 DEF n
<1>3. DOMAIN gs = 1 .. Len(gs) /\ \A i \in 1 .. Len(gs) : gs[i] \in DOMAIN layer.n
  BY <1>1, LenProperties, ElementOfSeq
<1>4. \A i \in 1 .. Len(gs) : layer.n[gs[i]] \in Nat \ {0} BY <1>3 DEF Chosen
<1>5. WidthsOf(gs) = [i \in 1 .. Len(gs) |-> layer.n[gs[i]]] BY <1>3 DEF WidthsOf
<1> QED BY <1>2, <1>3, <1>4, <1>5

LEMMA GemvIs ==
  ASSUME NEW gs, NEW i, NEW w
  PROVE  /\ IsRow(Single(gs, i, w), layer.n[gs[i]])
         /\ DOMAIN Single(gs, i, w) = 0 .. layer.n[gs[i]] - 1
         /\ \A c \in 0 .. layer.n[gs[i]] - 1 : Single(gs, i, w)[c] = Cell(gs[i], c, w)
BY DEF Single, Gemv, Cell, IsRow

LEMMA ReconIs ==
  ASSUME NEW gs, Chosen(gs), NEW i \in 1 .. Len(gs)
  PROVE  /\ IsRow(SingleRecon(gs, i), layer.n[gs[i]])
         /\ DOMAIN SingleRecon(gs, i) = 0 .. layer.n[gs[i]] - 1
         /\ \A c \in 0 .. layer.n[gs[i]] - 1 : SingleRecon(gs, i)[c] = Cell(gs[i], c, 0)
<1> DEFINE g == gs[i]
           lo == At(layer.trellis[g]).lo
           Start(c) == (c \div SliceN) * SliceN
<1>1. g \in DOMAIN layer.n /\ layer.n[g] \in Nat /\ lo \in Int BY ChosenIs DEF Chosen
<1>2. ASSUME NEW c \in 0 .. layer.n[g] - 1 PROVE lo + SliceFrom(Start(c)) + c - Start(c) = lo + c
  <2>1. c \in Int /\ SliceN \in Nat \ {0} BY <1>1, WeightsAssumption
  <2>2. Start(c) \in Int
    <3>1. c \div SliceN \in Int BY <2>1, DivDef
    <3> QED BY <2>1, <3>1, MulSwap
  <2> HIDE DEF Start, lo
  <2> QED BY <1>1, <2>1, <2>2 DEF SliceFrom
<1>3. /\ DOMAIN SingleRecon(gs, i) = 0 .. layer.n[g] - 1
      /\ \A c \in 0 .. layer.n[g] - 1 :
           SingleRecon(gs, i)[c] =
             [t |-> <<At(layer.trellis[g]).of, lo + SliceFrom(Start(c)) + c - Start(c)>>,
              s |-> <<At(layer.svh[g]).of, At(layer.svh[g]).lo + c>>,
              h |-> At(layer.suh[g]).of, K |-> layer.K[g], waves |-> 0]
  BY DEF SingleRecon, Recon
<1>4. IsRow(SingleRecon(gs, i), layer.n[g]) BY DEF SingleRecon, Recon, IsRow
<1> HIDE DEF Start
<1> QED BY <1>2, <1>3, <1>4 DEF Cell

(* The waves of exl3_linear. *)
LinearWaves(gs, i, rows) == IF LinearRoute(rows, layer.K[gs[i]]) = "recon" THEN 0 ELSE 1

LEMMA LinearIs ==
  ASSUME NEW gs, Chosen(gs), NEW i \in 1 .. Len(gs), NEW rows
  PROVE  /\ IsRow(Linear(gs, i, rows), layer.n[gs[i]])
         /\ DOMAIN Linear(gs, i, rows) = 0 .. layer.n[gs[i]] - 1
         /\ \A c \in 0 .. layer.n[gs[i]] - 1 :
              Linear(gs, i, rows)[c] = Cell(gs[i], c, LinearWaves(gs, i, rows))
<1>1. CASE LinearRoute(rows, layer.K[gs[i]]) = "recon"
  <2>1. Linear(gs, i, rows) = SingleRecon(gs, i) /\ LinearWaves(gs, i, rows) = 0
    BY <1>1 DEF Linear, LinearWaves
  <2> QED BY <2>1, ReconIs
<1>2. CASE LinearRoute(rows, layer.K[gs[i]]) # "recon"
  <2>1. Linear(gs, i, rows) = Single(gs, i, 1) /\ LinearWaves(gs, i, rows) = 1
    BY <1>2 DEF Linear, LinearWaves
  <2> QED BY <2>1, GemvIs
<1> QED BY <1>1, <1>2

(* cols are the columns of groups i .. i + len - 1. *)
IsRun(cols, gs, wv, i, len) ==
  /\ DOMAIN cols \subseteq Nat
  /\ \A j \in i .. i + len - 1 : \A c \in 0 .. layer.n[gs[j]] - 1 :
       LET x == Before(WidthsOf(gs), j) - Before(WidthsOf(gs), i) + c
       IN x \in DOMAIN cols /\ cols[x] = Cell(gs[j], c, wv[j])

(* Writing groups i .. i + len - 1 from the first column of i on. *)
LEMMA PutWrites ==
  ASSUME NEW gs, Chosen(gs), NEW wv, NEW y, NEW i \in 1 .. Len(gs), NEW len \in 1 .. Len(gs) - i + 1,
         Written(y, gs, wv, i), NEW cols, IsRun(cols, gs, wv, i, len)
  PROVE  Written(Put(y, Before(WidthsOf(gs), i), cols), gs, wv, i + len)
<1> DEFINE W == WidthsOf(gs)
           n == Len(gs)
           z == Put(y, Before(W, i), cols)
           T == Total(W)
<1>1. n \in Nat /\ W \in [1 .. n -> Nat] /\ \A j \in 1 .. n : W[j] = layer.n[gs[j]] BY ChosenIs
<1>2. y = [c \in 0 .. T - 1 |-> y[c]] BY DEF Written, IsRow
<1> HIDE DEF W, n
<1>3. /\ \A j \in 1 .. n + 1 : Before(W, j) \in Nat
      /\ Before(W, n + 1) = T /\ T \in Nat
      /\ \A j \in 1 .. n : Before(W, j + 1) = Before(W, j) + W[j]
  BY <1>1, BeforeIs
<1> HIDE DEF T
<1>4. DOMAIN y = 0 .. T - 1 BY <1>2
<1>5. z = [c \in 0 .. T - 1 |-> IF c - Before(W, i) \in DOMAIN cols THEN cols[c - Before(W, i)] ELSE y[c]]
  BY <1>4 DEF Put
<1> HIDE DEF z
<1>6. IsRow(z, T) BY <1>5 DEF IsRow
<1>7. i \in 1 .. n /\ len \in 1 .. n - i + 1 BY DEF n
<1>8. ASSUME NEW j \in 1 .. i + len - 1, NEW c \in 0 .. layer.n[gs[j]] - 1
      PROVE  z[Before(W, j) + c] = Cell(gs[j], c, wv[j])
  <2> DEFINE x == Before(W, j) + c
             b == Before(W, i)
  <2>0. j \in 1 .. n
    <3>1. n \in Nat /\ i \in 1 .. n /\ len \in 1 .. n - i + 1 /\ j \in 1 .. i + len - 1 BY <1>1, <1>7
    <3> QED BY ONLY <3>1
  <2>1. j \in 1 .. n /\ c \in 0 .. W[j] - 1 /\ W[j] \in Nat /\ Before(W, j) \in Nat /\ b \in Nat
    <3>1. W[j] = layer.n[gs[j]] /\ W[j] \in Nat BY <2>0, <1>1
    <3>2. j \in 1 .. n + 1 /\ i \in 1 .. n + 1
      <4>1. n \in Nat /\ j \in 1 .. n /\ i \in 1 .. n BY <2>0, <1>1, <1>7
      <4> QED BY ONLY <4>1
    <3>3. Before(W, j) \in Nat /\ Before(W, i) \in Nat BY <3>2, <1>3
    <3> QED BY <2>0, <3>1, <3>3, Zenon
  <2>2. x \in 0 .. T - 1
    <3>1. Before(W, j + 1) = Before(W, j) + W[j] /\ Before(W, j + 1) <= Before(W, n + 1)
      <4>1. n \in Nat /\ j \in 1 .. n BY <2>1, <1>1
      <4>2. j + 1 \in 1 .. n + 1 /\ n + 1 \in 1 .. n + 1 /\ j + 1 <= n + 1 BY ONLY <4>1
      <4>3. Before(W, j + 1) <= Before(W, n + 1) BY ONLY <4>1, <4>2, <1>1, BeforeGrows
      <4>4. Before(W, j + 1) = Before(W, j) + W[j] BY <4>1, <1>3
      <4> QED BY ONLY <4>3, <4>4
    <3> DEFINE u == Before(W, j)
               v == Before(W, j + 1)
               w == W[j]
    <3>2. /\ v = u + w /\ v <= T /\ T \in Nat /\ u \in Nat /\ w \in Nat
          /\ c \in 0 .. w - 1 /\ x = u + c
      BY <3>1, <2>1, <1>3
    <3> HIDE DEF u, v, w, x
    <3> QED BY ONLY <3>2
  <2>3. CASE j \in 1 .. i - 1
    <3>1. y[x] = Cell(gs[j], c, wv[j]) BY <2>3 DEF Written, W
    <3>2. x < b + 0
      <4>1. j < i /\ 0 \in 0 .. W[i] - 1
        <5>1. W[i] \in Nat \ {0} BY <1>7, ChosenIs DEF W, n
        <5> QED BY <5>1, <2>3, <1>7, <1>1
      <4> QED BY <4>1, <2>1, <1>1, <1>7, ColumnsApart
    <3>3. x - b \notin Nat BY <3>2, <2>1
    <3>4. x - b \notin DOMAIN cols BY <3>3 DEF IsRun
    <3> HIDE DEF x, b
    <3>5. z[x] = y[x] BY <1>5, <2>2, <3>4 DEF b
    <3> QED BY <3>1, <3>5 DEF x
  <2>4. CASE j \in i .. i + len - 1
    <3>1. Before(W, j) - b + c \in DOMAIN cols /\ cols[Before(W, j) - b + c] = Cell(gs[j], c, wv[j])
      BY <2>4 DEF W, IsRun
    <3>2. x - b = Before(W, j) - b + c BY <2>1
    <3>3. x - b \in DOMAIN cols /\ cols[x - b] = Cell(gs[j], c, wv[j]) BY ONLY <3>1, <3>2
    <3> HIDE DEF x
    <3>4. z[x] = cols[x - b] BY <1>5, <2>2, <3>3
    <3> QED BY <3>3, <3>4 DEF x
  <2>5. j \in 1 .. i - 1 \/ j \in i .. i + len - 1 BY <1>1, <1>7
  <2> QED BY <2>3, <2>4, <2>5
<1>9. Written(z, gs, wv, i + len)
  <2>1. IsRow(z, Total(WidthsOf(gs))) BY <1>6 DEF T, W
  <2>0. i + len - 1 = (i + len) - 1 BY <1>1, <1>7
  <2>2. \A j \in 1 .. (i + len) - 1 : \A c \in 0 .. layer.n[gs[j]] - 1 :
          z[Before(WidthsOf(gs), j) + c] = Cell(gs[j], c, wv[j])
    BY <1>8, <2>0, Zenon DEF W
  <2> QED BY ONLY <2>1, <2>2 DEF Written
<1> QED BY <1>9 DEF z, W
(* Groups that one launch may take together. *)
Alike(gs, i, j) == layer.K[gs[j]] = layer.K[gs[i]] /\ layer.n[gs[j]] = layer.n[gs[i]]

LEMMA RunLengthIs ==
  ASSUME NEW gs, Chosen(gs), NEW i \in 1 .. Len(gs)
  PROVE  /\ RunLength(gs, i) \in 1 .. Len(gs) - i + 1
         /\ \A j \in i .. i + RunLength(gs, i) - 1 : j = i \/ (E.grouped /\ Alike(gs, i, j))
         /\ (i = 1 /\ E.grouped /\ \A j \in 1 .. Len(gs) : Alike(gs, 1, j)) => RunLength(gs, i) = Len(gs)
<1> DEFINE n == Len(gs)
           m == Smaller(4, n - i + 1)
           Run(len) == \A j \in i .. i + len - 1 :
                         j = i \/ (/\ E.grouped
                                   /\ layer.K[gs[j]] = layer.K[gs[i]]
                                   /\ layer.n[gs[j]] = layer.n[gs[i]])
           T == {len \in 1 .. m : Run(len)}
<1>1. n \in 1 .. 4 /\ i \in 1 .. n BY DEF Chosen
<1>2. m \in 1 .. n - i + 1 /\ m \in Nat /\ (i = 1 => m = n)
  <2> HIDE DEF n
  <2> QED BY <1>1 DEF Smaller
<1>3. RunLength(gs, i) = Max(T) BY DEF RunLength
<1> HIDE DEF m, n
<1>4. Run(1)
  <2>1. \A j \in i .. i + 1 - 1 : j = i BY <1>1
  <2> QED BY <2>1
<1>5. T \in SUBSET (0 .. m) /\ T # {}
  <2>1. 1 \in T BY <1>2, <1>4
  <2>2. T \in SUBSET (0 .. m) BY <1>2
  <2> QED BY <2>1, <2>2
<1>6. \A len \in T : len \in 1 .. m /\ Run(len) OBVIOUS
<1>7. (i = 1 /\ E.grouped /\ \A j \in 1 .. n : Alike(gs, 1, j)) => n \in T
  <2> SUFFICES ASSUME i = 1, E.grouped, \A j \in 1 .. n : Alike(gs, 1, j) PROVE n \in T OBVIOUS
  <2>1. n \in 1 .. m BY <1>1, <1>2
  <2>2. \A j \in i .. i + n - 1 : j \in 1 .. n BY <1>1
  <2>3. Run(n) BY <2>2 DEF Alike
  <2> QED BY <2>1, <2>3
<1> HIDE DEF T, Run
<1> DEFINE r == Max(T)
<1>8. r \in T /\ \A x \in T : x <= r BY <1>2, <1>5, MaxIs
<1> HIDE DEF r
<1>9. r \in 1 .. n - i + 1 BY <1>1, <1>2, <1>6, <1>8
<1>10. \A j \in i .. i + r - 1 : j = i \/ (E.grouped /\ Alike(gs, i, j))
  BY <1>6, <1>8 DEF Run, Alike
<1>11. (i = 1 /\ E.grouped /\ \A j \in 1 .. n : Alike(gs, 1, j)) => r = n
  <2> SUFFICES ASSUME i = 1, n \in T PROVE r = n BY <1>7
  <2>1. n <= r BY <1>8
  <2> QED BY <2>1, <1>1, <1>9
<1>12. RunLength(gs, i) = r BY <1>3 DEF r
<1> QED BY <1>9, <1>10, <1>11, <1>12 DEF n

LEMMA LaunchWrites ==
  ASSUME NEW gs, Chosen(gs), NEW i \in 1 .. Len(gs), NEW len \in 1 .. Len(gs) - i + 1,
         \A j \in i .. i + len - 1 : Alike(gs, i, j),
         NEW bszm, NEW wv, \A j \in i .. i + len - 1 : wv[j] = IF len > 1 THEN bszm ELSE 1
  PROVE  IsRun(Launch(gs, i, len, bszm), gs, wv, i, len)
<1> DEFINE W == WidthsOf(gs)
           n == Len(gs)
           w == layer.n[gs[i]]
           z == Launch(gs, i, len, bszm)
<1>1. /\ n \in Nat \ {0} /\ W \in [1 .. n -> Nat] /\ w \in Nat \ {0}
      /\ i \in 1 .. n /\ len \in 1 .. n - i + 1
      /\ \A j \in 1 .. n : W[j] = layer.n[gs[j]]
  BY ChosenIs
<1>2. \A j \in i .. i + len - 1 : layer.n[gs[j]] = w BY DEF Alike
<1>3. \A j \in i .. i + len - 1 : j \in 1 .. n BY <1>1
<1> HIDE DEF n
<1>4. ASSUME NEW j \in i .. i + len - 1
      PROVE  Before(W, j) - Before(W, i) = (j - i) * w /\ j - i \in 0 .. len - 1
  <2>1. i + len \in 1 .. n + 1 /\ i \in 1 .. n + 1 /\ i <= i + len BY <1>1
  <2>2. \A k \in i .. (i + len) - 1 : W[k] = w
    <3>1. i + len - 1 = (i + len) - 1 BY <1>1
    <3> HIDE DEF w, W
    <3> QED BY <3>1, <1>1, <1>2, <1>3
  <2> DEFINE e == i + len
  <2> HIDE DEF w, W, e
  <2>3. e \in 1 .. n + 1 /\ i <= e /\ \A k \in i .. e - 1 : W[k] = w BY <2>1, <2>2 DEF e
  <2>4. \A k \in i .. e : Before(W, k) = Before(W, i) + (k - i) * w
    <3>1. n \in Nat /\ w \in Nat /\ W \in [1 .. n -> Nat] /\ i \in 1 .. n + 1 BY <1>1, <2>1
    <3> QED BY ONLY <3>1, <2>3, BeforeEqual
  <2>5. j \in i .. e /\ j - i \in 0 .. len - 1 BY <1>1 DEF e
  <2>6. Before(W, i) \in Int /\ (j - i) * w \in Int
    <3>1. Before(W, i) \in Nat BY <2>1, <1>1, BeforeIs
    <3> QED BY <3>1, <2>5, <1>1, MulNat
  <2>7. Before(W, j) = Before(W, i) + (j - i) * w BY <2>4, <2>5
  <2> QED BY <2>5, <2>6, <2>7
<1>5. CASE len = 1
  <2>1. z = Single(gs, i, 1) BY <1>5 DEF Launch
  <2>2. DOMAIN z = 0 .. w - 1 /\ \A c \in 0 .. w - 1 : z[c] = Cell(gs[i], c, 1) BY <2>1, GemvIs
  <2> HIDE DEF z
  <2>3. DOMAIN z \subseteq Nat BY <2>2
  <2>4. ASSUME NEW j \in i .. i + len - 1, NEW c \in 0 .. layer.n[gs[j]] - 1
        PROVE  /\ Before(W, j) - Before(W, i) + c \in DOMAIN z
               /\ z[Before(W, j) - Before(W, i) + c] = Cell(gs[j], c, wv[j])
    <3>1. j = i /\ wv[j] = 1 BY <1>1, <1>5
    <3>2. (j - i) * w = 0
      <4>1. j - i = 0 BY <3>1, <1>1
      <4>2. 0 * w = 0 BY <1>1
      <4> QED BY <4>1, <4>2
    <3>3. Before(W, j) - Before(W, i) + c = c
      <4>1. Before(W, j) - Before(W, i) = 0 BY <1>4, <3>2
      <4>2. c \in Int BY <1>1, <3>1
      <4> HIDE DEF W
      <4>3. 0 + c = c BY <4>2
      <4> QED BY <4>1, <4>3
    <3>4. c \in 0 .. w - 1 BY <3>1
    <3> HIDE DEF W, w
    <3> QED BY <2>2, <3>1, <3>3, <3>4
  <2> QED BY <2>3, <2>4 DEF z, IsRun
<1>6. CASE len > 1
  <2>1. z = [c \in 0 .. len * w - 1 |-> Single(gs, i + c \div w, bszm)[c % w]]
    BY <1>6 DEF Launch, GroupedLaunch
  <2> HIDE DEF z
  <2>2. DOMAIN z = 0 .. len * w - 1 BY <2>1
  <2>3. DOMAIN z \subseteq Nat BY <2>2
  <2>4. ASSUME NEW j \in i .. i + len - 1, NEW c \in 0 .. layer.n[gs[j]] - 1
        PROVE  /\ Before(W, j) - Before(W, i) + c \in DOMAIN z
               /\ z[Before(W, j) - Before(W, i) + c] = Cell(gs[j], c, wv[j])
    <3> DEFINE x == (j - i) * w + c
    <3>1. Before(W, j) - Before(W, i) = (j - i) * w /\ j - i \in 0 .. len - 1 BY <1>4
    <3>2. c \in 0 .. w - 1 /\ layer.n[gs[j]] = w BY <1>2
    <3>3. wv[j] = bszm BY <1>6
    <3>4. x \in 0 .. len * w - 1
      <4> HIDE DEF w
      <4>1. len \in Nat BY <1>1
      <4> QED BY <4>1, <3>1, <3>2, <1>1, BlockBelow
    <3>5. x \div w = j - i /\ x % w = c
      <4> HIDE DEF w
      <4>1. j - i \in Nat BY <3>1
      <4> QED BY <4>1, <3>2, <1>1, BlockColumn
    <3>6. i + (j - i) = j BY <1>1
    <3> HIDE DEF x
    <3>7. z[x] = Single(gs, j, bszm)[c] BY <2>1, <3>4, <3>5, <3>6
    <3>8. z[x] = Cell(gs[j], c, wv[j]) BY <3>2, <3>3, <3>7, GemvIs
    <3>9. x \in DOMAIN z BY <2>2, <3>4
    <3>10. Before(W, j) - Before(W, i) + c = x BY <3>1 DEF x
    <3> HIDE DEF W, w
    <3> QED BY <3>8, <3>9, <3>10
  <2> QED BY <2>3, <2>4 DEF z, IsRun
<1> QED BY <1>1, <1>5, <1>6
-----------------------------------------------------------------------------
(* The loops over the groups                                                *)

LoopStep(gs, p, rows, route, s) ==
  IF route = "mr" THEN EachRun(gs, p, s) ELSE EachGroup(gs, rows, s)

IsLoop(f, gs, p, rows, route, n) ==
  f = [k \in 0 .. n |-> IF k = 0 THEN FirstGroup(gs) ELSE LoopStep(gs, p, rows, route, f[k - 1])]

LEMMA LoopExists ==
  ASSUME NEW n \in Nat, NEW gs, NEW p, NEW rows, NEW route
  PROVE  \E f : IsLoop(f, gs, p, rows, route, n)
<1> DEFINE T == {k \in Nat : ~ \E f : IsLoop(f, gs, p, rows, route, k)}
           first == FirstGroup(gs)
           F(s) == LoopStep(gs, p, rows, route, s)
<1> SUFFICES ASSUME n \in T PROVE FALSE OBVIOUS
<1>1. PICK m \in T : \A k \in T : m <= k
  <2>1. T \in SUBSET Nat /\ T # {} OBVIOUS
  <2> HIDE DEF T
  <2> QED BY <2>1, NatMin
<1>2. m # 0
  <2>1. IsLoop([i \in 0 .. 0 |-> first], gs, p, rows, route, 0) BY DEF IsLoop
  <2> QED BY <2>1
<1>3. m - 1 \in Nat /\ m - 1 \notin T BY <1>1, <1>2
<1>4. PICK f : IsLoop(f, gs, p, rows, route, m - 1) BY <1>3
<1>5. f = [i \in 0 .. m - 1 |-> IF i = 0 THEN first ELSE F(f[i - 1])] BY <1>4 DEF IsLoop
<1> DEFINE g == [i \in 0 .. m |-> IF i = m THEN F(f[m - 1]) ELSE f[i]]
<1> HIDE DEF F, first
<1>6. ASSUME NEW i \in 0 .. m PROVE g[i] = IF i = 0 THEN first ELSE F(g[i - 1])
  <2>1. CASE i = m
    <3>1. m - 1 \in 0 .. m /\ m - 1 # m BY <1>2, <1>3
    <3> QED BY <2>1, <3>1, <1>2
  <2>2. CASE i # m
    <3>1. i \in 0 .. m - 1 BY <2>2, <1>3
    <3>2. f[i] = IF i = 0 THEN first ELSE F(f[i - 1]) BY <1>5, <3>1
    <3>3. i # 0 => i - 1 \in 0 .. m /\ i - 1 # m BY <3>1
    <3> QED BY <2>2, <3>2, <3>3
  <2> QED BY <2>1, <2>2
<1>7. g = [i \in 0 .. m |-> IF i = 0 THEN first ELSE F(g[i - 1])] BY <1>6
<1> HIDE DEF g
<1>8. IsLoop(g, gs, p, rows, route, m) BY <1>7 DEF IsLoop, F, first
<1> QED BY <1>8

LEMMA LoopSteps ==
  ASSUME NEW gs, Len(gs) \in Nat, NEW p, NEW rows, NEW route
  PROVE  \E f : /\ f[0] = FirstGroup(gs)
                /\ \A k \in 1 .. Len(gs) : f[k] = LoopStep(gs, p, rows, route, f[k - 1])
                /\ AfterGroups(gs, p, rows, route) = f[Len(gs)]
<1> DEFINE n == Len(gs)
           first == FirstGroup(gs)
           F(s) == LoopStep(gs, p, rows, route, s)
           IsF(g) == g = [k \in 0 .. n |-> IF k = 0 THEN first ELSE F(g[k - 1])]
           f == CHOOSE g : IsF(g)
<1>1. \E g : IsF(g)
  <2>1. PICK g : IsLoop(g, gs, p, rows, route, n) BY LoopExists
  <2>2. IsF(g) BY <2>1, Zenon DEF IsLoop
  <2> QED BY <2>2, Zenon
<1>2. AfterGroups(gs, p, rows, route) = f[n] BY DEF AfterGroups, LoopStep
<1>3. IsF(f)
  <2> HIDE DEF IsF
  <2> QED BY <1>1
<1> HIDE DEF f, F, first
<1>4. n \in Nat OBVIOUS
<1>5. f[0] = first /\ \A k \in 1 .. n : f[k] = F(f[k - 1])
  <2> HIDE DEF n
  <2> QED BY <1>3, <1>4
<1> QED BY <1>2, <1>5 DEF first, F

LEMMA FirstWrites ==
  ASSUME NEW gs, Chosen(gs), NEW wv
  PROVE  /\ FirstGroup(gs).i = 1 /\ FirstGroup(gs).n0 = Before(WidthsOf(gs), 1)
         /\ Written(FirstGroup(gs).y, gs, wv, 1)
<1>1. FirstGroup(gs).i = 1 /\ FirstGroup(gs).n0 = 0 /\ FirstGroup(gs).y = NewOutput(gs) BY DEF FirstGroup
<1>2. Before(WidthsOf(gs), 1) = 0 BY ChosenIs, BeforeIs
<1>3. IsRow(NewOutput(gs), Total(WidthsOf(gs))) BY DEF NewOutput, IsRow
<1>4. \A j \in 1 .. 1 - 1 : FALSE OBVIOUS
<1> QED BY <1>1, <1>2, <1>3, <1>4 DEF Written

(* The multi-row GEMV goes in runs of groups that are alike; with pointers, *)
(* all groups are one run.                                                  *)
MrWaves(gs, p) == IF p # <<>> /\ E.grouped THEN Len(gs) ELSE 1

AfterRuns(gs, p, s, k) ==
  /\ s.i \in k + 1 .. Len(gs) + 1
  /\ s.n0 = Before(WidthsOf(gs), s.i)
  /\ Written(s.y, gs, [j \in 1 .. Len(gs) |-> MrWaves(gs, p)], s.i)
  /\ p # <<>> /\ E.grouped => s.i \in {1, Len(gs) + 1}

LEMMA RunWrites ==
  ASSUME NEW gs, Chosen(gs), NEW p, Pointers(gs, p), NEW k \in 0 .. Len(gs) - 1, NEW s,
         AfterRuns(gs, p, s, k)
  PROVE  AfterRuns(gs, p, EachRun(gs, p, s), k + 1)
<1> DEFINE n == Len(gs)
           W == WidthsOf(gs)
           wv == [j \in 1 .. n |-> MrWaves(gs, p)]
           r == EachRun(gs, p, s)
<1>1. n \in Nat \ {0} /\ W \in [1 .. n -> Nat] /\ k \in 0 .. n - 1 BY ChosenIs
<1>2. /\ s.i \in k + 1 .. n + 1 /\ s.n0 = Before(W, s.i) /\ Written(s.y, gs, wv, s.i)
      /\ p # <<>> /\ E.grouped => s.i \in {1, n + 1}
  BY DEF AfterRuns
<1>3. CASE s.i > n
  <2>1. r = s BY <1>3 DEF EachRun
  <2>2. s.i \in (k + 1) + 1 .. n + 1
    <3> HIDE DEF n
    <3> QED BY <1>1, <1>2, <1>3
  <2> QED BY <2>1, <2>2 DEF AfterRuns
<1>4. CASE ~(s.i > n)
  <2> DEFINE i == s.i
             len == RunLength(gs, i)
             bszm == BszmForWarps(gs, p)
             z == Launch(gs, i, len, bszm)
  <2>1. r = [i |-> i + len, n0 |-> s.n0 + Before(W, i + len) - Before(W, i), y |-> Put(s.y, s.n0, z)]
    BY <1>4 DEF EachRun
  <2>2. i \in 1 .. n /\ i >= k + 1
    <3> HIDE DEF n, i
    <3>1. i \in k + 1 .. n + 1 /\ ~(i > n) BY <1>2, <1>4 DEF i
    <3> QED BY <3>1, <1>1
  <2> HIDE DEF i, len
  <2>3. /\ len \in 1 .. n - i + 1
        /\ \A j \in i .. i + len - 1 : j = i \/ (E.grouped /\ Alike(gs, i, j))
        /\ (i = 1 /\ E.grouped /\ \A j \in 1 .. n : Alike(gs, 1, j)) => len = n
    BY <2>2, RunLengthIs DEF len
  <2>4. \A j \in i .. i + len - 1 : Alike(gs, i, j) BY <2>3 DEF Alike
  <2>5. len > 1 => E.grouped
    <3> HIDE DEF n
    <3>1. len > 1 => i + 1 \in i .. i + len - 1 /\ i + 1 # i BY <1>1, <2>2, <2>3
    <3> QED BY <3>1, <2>3
  <2>6. p # <<>> /\ E.grouped => i = 1 /\ len = n /\ n > 1
    <3> SUFFICES ASSUME p # <<>>, E.grouped PROVE i = 1 /\ len = n /\ n > 1 OBVIOUS
    <3>1. i = 1
      <4>1. i \in {1, n + 1} BY <1>2 DEF i
      <4> HIDE DEF n
      <4> QED BY <4>1, <2>2, <1>1
    <3>2. /\ n > 1
          /\ \A j \in DOMAIN gs : gs[j] = j /\ layer.n[j] = layer.n[1] /\ layer.K[j] = layer.K[1]
      BY DEF Pointers
    <3>3. DOMAIN gs = 1 .. n BY ChosenIs
    <3>4. \A j \in 1 .. n : Alike(gs, 1, j)
      <4>1. 1 \in 1 .. n BY <1>1
      <4> HIDE DEF n
      <4> QED BY <4>1, <3>2, <3>3 DEF Alike
    <3> QED BY <3>1, <3>2, <3>4, <2>3
  <2>7. MrWaves(gs, p) = IF len > 1 THEN bszm ELSE 1
    <3>1. CASE p # <<>> /\ E.grouped
      <4>1. len > 1 /\ MrWaves(gs, p) = n /\ bszm = n BY <3>1, <2>6 DEF MrWaves, BszmForWarps
      <4> QED BY <4>1
    <3>2. CASE ~(p # <<>> /\ E.grouped)
      <4>1. MrWaves(gs, p) = 1 BY <3>2 DEF MrWaves
      <4>2. len > 1 => bszm = 1 BY <3>2, <2>5 DEF BszmForWarps
      <4> QED BY <4>1, <4>2
    <3> QED BY <3>1, <3>2
  <2> HIDE DEF bszm
  <2>8. \A j \in i .. i + len - 1 : wv[j] = IF len > 1 THEN bszm ELSE 1
    <3>1. \A j \in i .. i + len - 1 : j \in 1 .. n
      <4> HIDE DEF n
      <4> QED BY <1>1, <2>2, <2>3
    <3> QED BY <3>1, <2>7
  <2> HIDE DEF wv
  <2>9. IsRun(z, gs, wv, i, len)
    <3>1. Chosen(gs) OBVIOUS
    <3>2. len \in 1 .. n - i + 1 BY <2>3
    <3> QED BY ONLY <3>1, <3>2, <2>2, <2>4, <2>8, LaunchWrites
  <2> HIDE DEF z
  <2>10. Written(s.y, gs, wv, i) BY <1>2 DEF i
  <2>11. Written(Put(s.y, Before(W, i), z), gs, wv, i + len)
    BY <2>2, <2>3, <2>9, <2>10, PutWrites
  <2>12. s.n0 = Before(W, i) BY <1>2 DEF i
  <2>13. i + len \in (k + 1) + 1 .. n + 1
    <3> HIDE DEF n
    <3> QED BY <1>1, <2>2, <2>3
  <2>14. s.n0 + Before(W, i + len) - Before(W, i) = Before(W, i + len)
    <3>1. i \in 1 .. n + 1 /\ i + len \in 1 .. n + 1
      <4> HIDE DEF n
      <4> QED BY <1>1, <2>2, <2>3
    <3>2. Before(W, i) \in Nat /\ Before(W, i + len) \in Nat
      <4> HIDE DEF n, W
      <4> QED BY <3>1, <1>1, BeforeIs
    <3> HIDE DEF n, W
    <3> QED BY <3>2, <2>12
  <2>15. p # <<>> /\ E.grouped => i + len \in {1, n + 1}
    <3> HIDE DEF n
    <3> QED BY <2>6, <1>1
  <2>16. r.i = i + len /\ r.n0 = Before(W, i + len) /\ r.y = Put(s.y, Before(W, i), z)
    BY <2>1, <2>12, <2>14
  <2> HIDE DEF r
  <2> QED BY <2>11, <2>13, <2>15, <2>16 DEF AfterRuns, wv, r
<1> QED BY <1>3, <1>4

LEMMA RunsWrite ==
  ASSUME NEW gs, Chosen(gs), NEW p, Pointers(gs, p), NEW rows
  PROVE  Columns(AfterGroups(gs, p, rows, "mr").y, gs, [j \in 1 .. Len(gs) |-> MrWaves(gs, p)])
<1> DEFINE n == Len(gs)
<1>1. n \in Nat \ {0} BY ChosenIs
<1>2. PICK f : /\ f[0] = FirstGroup(gs)
               /\ \A k \in 1 .. n : f[k] = EachRun(gs, p, f[k - 1])
               /\ AfterGroups(gs, p, rows, "mr") = f[n]
  BY <1>1, LoopSteps DEF LoopStep
<1> DEFINE T == {k \in 0 .. n : ~AfterRuns(gs, p, f[k], k)}
<1>3. T = {}
  <2> HIDE DEF n
  <2> SUFFICES ASSUME T # {} PROVE FALSE OBVIOUS
  <2>1. PICK m \in T : \A k \in T : m <= k
    <3>1. T \in SUBSET Nat OBVIOUS
    <3> HIDE DEF T
    <3> QED BY <3>1, NatMin
  <2>2. m # 0
    <3>1. /\ f[0].i = 1 /\ f[0].n0 = Before(WidthsOf(gs), 1)
          /\ Written(f[0].y, gs, [j \in 1 .. n |-> MrWaves(gs, p)], 1)
      BY <1>2, FirstWrites
    <3>2. 1 \in 0 + 1 .. n + 1 BY <1>1
    <3>3. AfterRuns(gs, p, f[0], 0) BY <3>1, <3>2 DEF AfterRuns, n
    <3> QED BY <3>3
  <2>3. m - 1 \in 0 .. n - 1 /\ m - 1 \in 0 .. n /\ m - 1 \notin T /\ m \in 1 .. n /\ m - 1 + 1 = m
    BY <1>1, <2>1, <2>2
  <2>4. AfterRuns(gs, p, f[m - 1], m - 1) BY <2>3
  <2>5. AfterRuns(gs, p, EachRun(gs, p, f[m - 1]), m - 1 + 1)
    <3> HIDE DEF T
    <3> QED BY <2>3, <2>4, RunWrites DEF n
  <2>6. AfterRuns(gs, p, f[m], m) BY <2>3, <2>5, <1>2, Zenon
  <2> QED BY <2>1, <2>6
<1>4. AfterRuns(gs, p, f[n], n) BY <1>1, <1>3
<1>5. f[n].i = n + 1
  <2>1. f[n].i \in n + 1 .. n + 1 BY <1>4 DEF AfterRuns
  <2> HIDE DEF n
  <2> QED BY <2>1, <1>1
<1> QED BY <1>2, <1>4, <1>5 DEF AfterRuns, Columns

LEMMA GroupIsRun ==
  ASSUME NEW gs, Chosen(gs), NEW wv, NEW i \in 1 .. Len(gs), NEW cols,
         DOMAIN cols = 0 .. layer.n[gs[i]] - 1,
         \A c \in 0 .. layer.n[gs[i]] - 1 : cols[c] = Cell(gs[i], c, wv[i])
  PROVE  IsRun(cols, gs, wv, i, 1)
<1> DEFINE W == WidthsOf(gs)
           n == Len(gs)
<1>1. n \in Nat /\ W \in [1 .. n -> Nat] /\ layer.n[gs[i]] \in Nat \ {0} BY ChosenIs
<1>2. Before(W, i) \in Nat
  <2> HIDE DEF W
  <2>1. i \in 1 .. n + 1 BY <1>1
  <2> QED BY <2>1, <1>1, BeforeIs
<1>3. DOMAIN cols \subseteq Nat BY <1>1
<1>4. ASSUME NEW j \in i .. i + 1 - 1, NEW c \in 0 .. layer.n[gs[j]] - 1
      PROVE  LET x == Before(W, j) - Before(W, i) + c
             IN x \in DOMAIN cols /\ cols[x] = Cell(gs[j], c, wv[j])
  <2>1. j = i BY <1>1
  <2>2. c \in Int /\ c \in 0 .. layer.n[gs[i]] - 1 BY <2>1, <1>1
  <2>3. Before(W, j) - Before(W, i) + c = c
    <3> HIDE DEF W
    <3> QED BY <2>1, <2>2, <1>2
  <2> HIDE DEF W
  <2> QED BY <2>1, <2>2, <2>3
<1> QED BY <1>3, <1>4 DEF IsRun

(* The loop over the groups, one at a time *)
EachWaves(gs, rows, j) == IF rows = 1 THEN 1 ELSE LinearWaves(gs, j, rows)

AfterEach(gs, rows, s, k) ==
  /\ s.i = k + 1 /\ s.n0 = Before(WidthsOf(gs), k + 1)
  /\ Written(s.y, gs, [j \in 1 .. Len(gs) |-> EachWaves(gs, rows, j)], k + 1)

LEMMA GroupWrites ==
  ASSUME NEW gs, Chosen(gs), NEW rows, NEW k \in 0 .. Len(gs) - 1, NEW s, AfterEach(gs, rows, s, k)
  PROVE  AfterEach(gs, rows, EachGroup(gs, rows, s), k + 1)
<1> DEFINE n == Len(gs)
           W == WidthsOf(gs)
           wv == [j \in 1 .. n |-> EachWaves(gs, rows, j)]
           i == k + 1
           cols == IF rows = 1 THEN Single(gs, i, 1) ELSE Linear(gs, i, rows)
           r == EachGroup(gs, rows, s)
<1>1. /\ n \in Nat \ {0} /\ W \in [1 .. n -> Nat] /\ k \in 0 .. n - 1 /\ i \in 1 .. n
      /\ \A j \in 1 .. n : W[j] = layer.n[gs[j]]
  <2>1. n \in Nat \ {0} /\ W \in [1 .. n -> Nat] /\ k \in 0 .. n - 1
        /\ \A j \in 1 .. n : W[j] = layer.n[gs[j]]
    BY ChosenIs
  <2> HIDE DEF n
  <2>2. i \in 1 .. n BY <2>1
  <2> QED BY <2>1, <2>2
<1>2. s.i = i /\ s.n0 = Before(W, i) /\ Written(s.y, gs, wv, i) BY DEF AfterEach
<1>3. r = [i |-> i + 1, n0 |-> Before(W, i) + layer.n[gs[i]], y |-> Put(s.y, Before(W, i), cols)]
  BY <1>2 DEF EachGroup
<1>4. DOMAIN cols = 0 .. layer.n[gs[i]] - 1
      /\ \A c \in 0 .. layer.n[gs[i]] - 1 : cols[c] = Cell(gs[i], c, wv[i])
  <2>1. wv[i] = EachWaves(gs, rows, i) BY <1>1
  <2>2. CASE rows = 1
    <3>1. cols = Single(gs, i, 1) /\ EachWaves(gs, rows, i) = 1 BY <2>2 DEF EachWaves
    <3> HIDE DEF cols, wv, i
    <3> QED BY <2>1, <3>1, GemvIs
  <2>3. CASE rows # 1
    <3>1. cols = Linear(gs, i, rows) /\ EachWaves(gs, rows, i) = LinearWaves(gs, i, rows)
      BY <2>3 DEF EachWaves
    <3> HIDE DEF cols, wv, i
    <3> QED BY <2>1, <3>1, <1>1, LinearIs
  <2> QED BY <2>2, <2>3
<1> HIDE DEF cols, wv, i
<1>5. IsRun(cols, gs, wv, i, 1) BY <1>1, <1>4, GroupIsRun
<1>6. Written(Put(s.y, Before(W, i), cols), gs, wv, i + 1)
  <2>1. 1 \in 1 .. n - i + 1
    <3> HIDE DEF n
    <3> QED BY <1>1
  <2> QED BY <2>1, <1>1, <1>2, <1>5, PutWrites
<1>7. Before(W, i + 1) = Before(W, i) + layer.n[gs[i]]
  <2>1. n \in Nat /\ i \in 1 .. n /\ W \in [1 .. n -> Nat] /\ W[i] = layer.n[gs[i]] BY <1>1
  <2> HIDE DEF W, n, i
  <2>2. Before(W, i + 1) = Before(W, i) + W[i] BY ONLY <2>1, BeforeIs
  <2> QED BY ONLY <2>1, <2>2
<1>8. r.i = i + 1 /\ r.n0 = Before(W, i + 1) /\ r.y = Put(s.y, Before(W, i), cols) BY <1>3, <1>7
<1> HIDE DEF r
<1> QED BY <1>6, <1>8 DEF AfterEach, wv, r, i

LEMMA GroupsWrite ==
  ASSUME NEW gs, Chosen(gs), NEW p, NEW rows, NEW route, route # "mr"
  PROVE  Columns(AfterGroups(gs, p, rows, route).y, gs, [j \in 1 .. Len(gs) |-> EachWaves(gs, rows, j)])
<1> DEFINE n == Len(gs)
<1>1. n \in Nat \ {0} BY ChosenIs
<1>2. PICK f : /\ f[0] = FirstGroup(gs)
               /\ \A k \in 1 .. n : f[k] = EachGroup(gs, rows, f[k - 1])
               /\ AfterGroups(gs, p, rows, route) = f[n]
  <2>1. PICK f : /\ f[0] = FirstGroup(gs)
                 /\ \A k \in 1 .. Len(gs) : f[k] = LoopStep(gs, p, rows, route, f[k - 1])
                 /\ AfterGroups(gs, p, rows, route) = f[Len(gs)]
    <3>1. Len(gs) \in Nat BY <1>1
    <3> QED BY ONLY <3>1, LoopSteps, SMTT(20)
  <2>2. \A r : LoopStep(gs, p, rows, route, r) = EachGroup(gs, rows, r) BY DEF LoopStep
  <2>3. \A k \in 1 .. n : f[k] = EachGroup(gs, rows, f[k - 1]) BY <2>1, <2>2, Zenon
  <2> QED BY <2>1, <2>3
<1> DEFINE T == {k \in 0 .. n : ~AfterEach(gs, rows, f[k], k)}
<1>3. T = {}
  <2> HIDE DEF n
  <2> SUFFICES ASSUME T # {} PROVE FALSE OBVIOUS
  <2>1. PICK m \in T : \A k \in T : m <= k
    <3>1. T \in SUBSET Nat OBVIOUS
    <3> HIDE DEF T
    <3> QED BY <3>1, NatMin
  <2>2. m # 0
    <3>1. /\ f[0].i = 1 /\ f[0].n0 = Before(WidthsOf(gs), 1)
          /\ Written(f[0].y, gs, [j \in 1 .. n |-> EachWaves(gs, rows, j)], 1)
      BY <1>2, FirstWrites
    <3>2. 0 + 1 = 1 OBVIOUS
    <3>3. AfterEach(gs, rows, f[0], 0) BY <3>1, <3>2 DEF AfterEach, n
    <3> QED BY <3>3
  <2>3. m - 1 \in 0 .. n - 1 /\ m - 1 \in 0 .. n /\ m - 1 \notin T /\ m \in 1 .. n /\ m - 1 + 1 = m
    BY <1>1, <2>1, <2>2
  <2>4. AfterEach(gs, rows, f[m - 1], m - 1) BY <2>3
  <2>5. AfterEach(gs, rows, EachGroup(gs, rows, f[m - 1]), m - 1 + 1)
    <3> HIDE DEF T
    <3> QED BY <2>3, <2>4, GroupWrites DEF n
  <2>6. AfterEach(gs, rows, f[m], m) BY <2>3, <2>5, <1>2, Zenon
  <2> QED BY <2>1, <2>6
<1>4. AfterEach(gs, rows, f[n], n) BY <1>1, <1>3
<1> QED BY <1>2, <1>4 DEF AfterEach, Columns
-----------------------------------------------------------------------------
(* Every route                                                              *)

LEMMA BeforeOne ==
  ASSUME NEW s \in [1 .. 1 -> Nat]
  PROVE  Before(s, 1) = 0 /\ Total(s) = s[1]
<1> DEFINE n == 1
<1>1. n \in Nat /\ n \in 1 .. n /\ s \in [1 .. n -> Nat] OBVIOUS
<1>2. s[n] \in Nat OBVIOUS
<1>3. n = 1 OBVIOUS
<1> HIDE DEF n
<1>4. /\ Before(s, 1) = 0 /\ Before(s, n + 1) = Total(s)
      /\ Before(s, n + 1) = Before(s, n) + s[n]
  BY <1>1, BeforeIs
<1>5. Before(s, n) = 0 BY <1>3, <1>4
<1>6. Total(s) = s[n] BY <1>2, <1>4, <1>5
<1> QED BY <1>3, <1>4, <1>6

LEMMA BeforeAlike ==
  ASSUME NEW n \in Nat, NEW s \in [1 .. n -> Nat], NEW w \in Nat, \A k \in 1 .. n : s[k] = w
  PROVE  /\ \A j \in 1 .. n + 1 : Before(s, j) = (j - 1) * w
         /\ Total(s) = n * w
<1> DEFINE o == 1
           e == n + 1
<1>1. /\ o \in 1 .. n + 1 /\ e \in 1 .. n + 1 /\ o <= e
      /\ \A k \in o .. e - 1 : s[k] = w
  OBVIOUS
<1>2. o = 1 /\ e = n + 1 OBVIOUS
<1>3. Before(s, 1) = 0 /\ Total(s) = Before(s, n + 1) BY BeforeIs
<1> HIDE DEF o, e
<1>4. \A k \in o .. e : Before(s, k) = Before(s, o) + (k - o) * w
  BY ONLY n \in Nat, s \in [1 .. n -> Nat], w \in Nat, <1>1, BeforeEqual
<1>5. ASSUME NEW j \in 1 .. n + 1 PROVE Before(s, j) = (j - 1) * w
  <2>1. j - 1 \in Nat OBVIOUS
  <2> DEFINE d == j - 1
  <2> HIDE DEF d
  <2>2. d * w \in Nat BY <2>1, MulNat DEF d
  <2>3. Before(s, j) = 0 + d * w BY <1>2, <1>3, <1>4 DEF d
  <2> QED BY <2>2, <2>3 DEF d
<1>6. Total(s) = n * w
  <2>1. e \in 1 .. n + 1 /\ e - 1 = n BY <1>2
  <2>2. Before(s, e) = (e - 1) * w BY <2>1, <1>5
  <2> QED BY <2>1, <2>2, <1>2, <1>3
<1> QED BY <1>5, <1>6

LEMMA OneGroupColumns ==
  ASSUME NEW gs, Chosen(gs), Len(gs) = 1, NEW rows
  PROVE  Columns(Linear(gs, 1, rows), gs, [j \in 1 .. 1 |-> LinearWaves(gs, 1, rows)])
<1> DEFINE W == WidthsOf(gs)
           y == Linear(gs, 1, rows)
           w == layer.n[gs[1]]
           wv == [j \in 1 .. 1 |-> LinearWaves(gs, 1, rows)]
<1>1. W \in [1 .. 1 -> Nat] /\ W[1] = w /\ w \in Nat \ {0} BY ChosenIs
<1>2. /\ IsRow(y, w) /\ \A c \in 0 .. w - 1 : y[c] = Cell(gs[1], c, LinearWaves(gs, 1, rows))
  BY LinearIs
<1>3. Before(W, 1) = 0 /\ Total(W) = w
  <2> HIDE DEF W, w
  <2> QED BY <1>1, BeforeOne
<1>4. ASSUME NEW j \in 1 .. 1 + 1 - 1, NEW c \in 0 .. layer.n[gs[j]] - 1
      PROVE  y[Before(W, j) + c] = Cell(gs[j], c, wv[j])
  <2>1. j = 1 /\ c \in 0 .. w - 1 /\ c \in Int OBVIOUS
  <2>2. wv[j] = LinearWaves(gs, 1, rows) BY <2>1
  <2>3. Before(W, j) + c = c BY <2>1, <1>3
  <2> HIDE DEF W, y, wv, w
  <2> QED BY <2>1, <2>2, <2>3, <1>2
<1> HIDE DEF y, wv
<1>5. Written(y, gs, wv, 1 + 1) BY <1>2, <1>3, <1>4 DEF Written
<1> QED BY <1>5 DEF Columns, y, wv

LEMMA MgemmColumns ==
  ASSUME NEW gs, Chosen(gs), NEW p, p # <<>>, Pointers(gs, p)
  PROVE  Columns(Mgemm(gs, p), gs, [j \in 1 .. Len(gs) |-> Len(gs)])
<1> DEFINE n == Len(gs)
           W == WidthsOf(gs)
           y == Mgemm(gs, p)
           w == layer.n[gs[1]]
           wv == [j \in 1 .. n |-> n]
<1>1. /\ n \in Nat \ {0} /\ DOMAIN gs = 1 .. n /\ W \in [1 .. n -> Nat] /\ w \in Nat \ {0}
      /\ \A j \in 1 .. n : W[j] = layer.n[gs[j]]
  <2>1. n \in Nat \ {0} /\ DOMAIN gs = 1 .. n BY ChosenIs
  <2>2. 1 \in 1 .. n
    <3> HIDE DEF n
    <3> QED BY <2>1
  <2> QED BY <2>1, <2>2, ChosenIs
<1>2. /\ \A j \in 1 .. n : gs[j] = j /\ layer.n[j] = w /\ layer.K[j] = layer.K[gs[1]]
      /\ p.trellis = layer.trellis /\ p.suh = layer.suh /\ p.svh = layer.svh
  <2>1. 1 \in 1 .. n
    <3> HIDE DEF n
    <3> QED BY <1>1
  <2> QED BY <2>1, <1>1 DEF Pointers
<1>3. y = [c \in 0 .. n * w - 1 |->
             Gemv(layer.trellis[c \div w + 1], layer.svh[c \div w + 1], layer.suh[c \div w + 1],
                  w, layer.K[gs[1]], n)[c % w]]
  BY <1>2 DEF Mgemm
<1> HIDE DEF n, W, y, w
<1>4. /\ \A j \in 1 .. n + 1 : Before(W, j) = (j - 1) * w
      /\ Total(W) = n * w
  <2>1. \A j \in 1 .. n : W[j] = w BY <1>1, <1>2
  <2>2. n \in Nat /\ w \in Nat BY <1>1
  <2> QED BY ONLY <2>1, <2>2, <1>1, BeforeAlike
<1>6. IsRow(y, n * w) BY <1>3 DEF IsRow
<1>7. ASSUME NEW j \in 1 .. n, NEW c \in 0 .. layer.n[gs[j]] - 1
      PROVE  y[Before(W, j) + c] = Cell(gs[j], c, n)
  <2> DEFINE x == (j - 1) * w + c
  <2>1. gs[j] = j /\ c \in 0 .. w - 1 /\ j - 1 \in 0 .. n - 1 /\ j - 1 + 1 = j BY <1>1, <1>2
  <2>2. x \in 0 .. n * w - 1 BY <2>1, <1>1, BlockBelow
  <2>3. x \div w = j - 1 /\ x % w = c
    <3>1. j - 1 \in Nat BY <2>1
    <3> QED BY <3>1, <2>1, <1>1, BlockColumn
  <2>4. Before(W, j) + c = x BY <1>1, <1>4
  <2> HIDE DEF x
  <2>5. y[x] = Gemv(layer.trellis[j], layer.svh[j], layer.suh[j], w, layer.K[gs[1]], n)[c]
    BY <1>3, <2>1, <2>2, <2>3
  <2>6. Gemv(layer.trellis[j], layer.svh[j], layer.suh[j], w, layer.K[gs[1]], n)[c] = Cell(j, c, n)
    <3>1. layer.K[j] = layer.K[gs[1]] BY <1>2
    <3> QED BY <2>1, <3>1 DEF Gemv, Cell
  <2> QED BY <2>1, <2>4, <2>5, <2>6
<1>8. (n + 1) - 1 = n BY <1>1
<1>9. \A j \in 1 .. n : wv[j] = n OBVIOUS
<1> HIDE DEF wv
<1>10. IsRow(y, Total(W)) BY <1>4, <1>6
<1>11. \A j \in 1 .. (n + 1) - 1 : \A c \in 0 .. layer.n[gs[j]] - 1 :
         y[Before(W, j) + c] = Cell(gs[j], c, wv[j])
  BY <1>7, <1>8, <1>9
<1>12. Written(y, gs, wv, n + 1) BY <1>10, <1>11 DEF Written, W
<1> QED BY <1>12 DEF Columns, y, wv, n

(* linear_groups writes every column, on every route; one row, and the rows *)
(* of the multi-row GEMV, in the waves of the module's one-row path.        *)
DecodeWaves(gs, p) == [j \in 1 .. Len(gs) |-> BszmForWarps(gs, p)]

AsDecoded(gs, p, rows) ==
  rows = 1 \/ (Route(gs, p, rows) = "mr" /\ (E.grouped \/ p = <<>>))

LEMMA LinearGroupsWrite ==
  ASSUME NEW gs, Chosen(gs), NEW p, Pointers(gs, p), NEW rows
  PROVE  \E wv : /\ Columns(LinearGroups(gs, p, rows), gs, wv)
                 /\ AsDecoded(gs, p, rows) => wv = DecodeWaves(gs, p)
<1> DEFINE route == Route(gs, p, rows)
<1>1. CASE Len(gs) = 1
  <2>1. LinearGroups(gs, p, rows) = Linear(gs, 1, rows) BY <1>1 DEF LinearGroups
  <2>2. p = <<>> BY <1>1 DEF Pointers
  <2>3. AsDecoded(gs, p, rows) => LinearWaves(gs, 1, rows) = 1
    <3>1. route = LinearRoute(rows, layer.K[gs[1]]) BY <1>1 DEF Route
    <3>2. rows = 1 => LinearRoute(rows, layer.K[gs[1]]) = "gemm"
      <4>1. 1 <= GEMM_MAX_ROWS BY DispatchAssumption
      <4> QED BY <4>1 DEF LinearRoute
    <3> QED BY <3>1, <3>2 DEF AsDecoded, LinearWaves
  <2> DEFINE wv == [j \in 1 .. 1 |-> LinearWaves(gs, 1, rows)]
  <2>4. Columns(LinearGroups(gs, p, rows), gs, wv) BY <1>1, <2>1, OneGroupColumns
  <2>5. AsDecoded(gs, p, rows) => wv = DecodeWaves(gs, p)
    BY <1>1, <2>2, <2>3 DEF DecodeWaves, BszmForWarps
  <2> HIDE DEF wv
  <2> QED BY <2>4, <2>5
<1>2. CASE Len(gs) # 1 /\ route = "mgemm"
  <2>1. LinearGroups(gs, p, rows) = Mgemm(gs, p) BY <1>2 DEF LinearGroups
  <2>2. p # <<>> BY <1>2 DEF Route
  <2>3. Columns(LinearGroups(gs, p, rows), gs, DecodeWaves(gs, p))
    BY <2>1, <2>2, MgemmColumns DEF DecodeWaves, BszmForWarps
  <2> QED BY <2>3
<1>3. CASE Len(gs) # 1 /\ route = "mr"
  <2>1. LinearGroups(gs, p, rows) = AfterGroups(gs, p, rows, "mr").y
    BY <1>3 DEF LinearGroups
  <2> DEFINE wv == [j \in 1 .. Len(gs) |-> MrWaves(gs, p)]
  <2>2. Columns(LinearGroups(gs, p, rows), gs, wv) BY <2>1, RunsWrite
  <2>3. rows # 1 BY <1>3 DEF Route
  <2>4. AsDecoded(gs, p, rows) => wv = DecodeWaves(gs, p)
    BY <2>3 DEF DecodeWaves, BszmForWarps, MrWaves, AsDecoded
  <2> HIDE DEF wv
  <2> QED BY <2>2, <2>4
<1>4. CASE Len(gs) # 1 /\ route \notin {"mgemm", "mr"}
  <2>1. LinearGroups(gs, p, rows) = AfterGroups(gs, p, rows, route).y /\ route # "mr"
    BY <1>4 DEF LinearGroups
  <2> DEFINE wv == [j \in 1 .. Len(gs) |-> EachWaves(gs, rows, j)]
  <2>2. Columns(LinearGroups(gs, p, rows), gs, wv) BY <2>1, GroupsWrite
  <2>3. rows = 1 => p = <<>> BY <1>4 DEF Route
  <2>4. AsDecoded(gs, p, rows) => rows = 1 BY <1>4 DEF AsDecoded
  <2>5. AsDecoded(gs, p, rows) => wv = DecodeWaves(gs, p)
    BY <2>3, <2>4 DEF DecodeWaves, BszmForWarps, EachWaves
  <2> HIDE DEF wv
  <2> QED BY <2>2, <2>5
<1> QED BY <1>1, <1>2, <1>3, <1>4

(* A row's columns, and the waves they were computed in, determine it.      *)
LEMMA RowsEqual ==
  ASSUME NEW gs, Chosen(gs), NEW wv, NEW y, NEW z, Columns(y, gs, wv), Columns(z, gs, wv)
  PROVE  y = z
<1> DEFINE n == Len(gs)
           W == WidthsOf(gs)
           T == Total(W)
<1>1. /\ n \in Nat /\ W \in [1 .. n -> Nat] /\ (n + 1) - 1 = n
      /\ \A i \in 1 .. n : W[i] = layer.n[gs[i]]
  BY ChosenIs
<1>2. /\ IsRow(y, T) /\ IsRow(z, T)
      /\ \A j \in 1 .. n : \A c \in 0 .. layer.n[gs[j]] - 1 :
           /\ y[Before(W, j) + c] = Cell(gs[j], c, wv[j])
           /\ z[Before(W, j) + c] = Cell(gs[j], c, wv[j])
  BY <1>1 DEF Columns, Written
<1>3. T \in Nat /\ \A i \in 1 .. n : Before(W, i) \in Nat
  <2> HIDE DEF n, W
  <2> QED BY <1>1, BeforeIs
<1>4. ASSUME NEW x \in 0 .. T - 1 PROVE y[x] = z[x]
  <2>1. PICK j \in 1 .. n : x - Before(W, j) \in 0 .. W[j] - 1
    <3> HIDE DEF n, W
    <3> QED BY <1>1, ColumnOfGroup
  <2> DEFINE c == x - Before(W, j)
  <2>2. c \in 0 .. layer.n[gs[j]] - 1 BY <1>1, <2>1
  <2>3. Before(W, j) + c = x BY <1>3
  <2> HIDE DEF c, T, W
  <2>4. y[Before(W, j) + c] = z[Before(W, j) + c] BY <1>2, <2>2
  <2> QED BY <2>3, <2>4
<1>5. [x \in 0 .. T - 1 |-> y[x]] = [x \in 0 .. T - 1 |-> z[x]]
  <2> HIDE DEF T
  <2> QED BY <1>4
<1> QED BY <1>2, <1>5, Zenon DEF IsRow
-----------------------------------------------------------------------------
(* What the groups of a module that is ready hold                           *)

LEMMA HoldsAt ==
  ASSUME NEW g, NEW m, NEW off, Holds(g, m, off)
  PROVE  /\ At(layer.trellis[g]).of = m /\ At(layer.trellis[g]).lo = off
         /\ At(layer.svh[g]).of = m /\ At(layer.svh[g]).lo = off
         /\ At(layer.suh[g]).of = m
<1>1. /\ layer.trellis[g] \in DOMAIN heap /\ layer.svh[g] \in DOMAIN heap /\ layer.suh[g] \in DOMAIN heap
      /\ heap[layer.trellis[g]].of = m /\ heap[layer.trellis[g]].lo = off
      /\ heap[layer.svh[g]].of = m /\ heap[layer.svh[g]].lo = off
      /\ heap[layer.suh[g]].of = m
  BY DEF Holds
<1> QED BY <1>1 DEF At

LEMMA HoldsMember ==
  ASSUME NEW g, NEW m, NEW off, Holds(g, m, off), layer.K[g] = module.members[m].K,
         NEW c, NEW b, off + c = b, NEW w
  PROVE  FromItsMember(Cell(g, c, w), m, b)
<1>1. Cell(g, c, w) = [t |-> <<m, b>>, s |-> <<m, b>>, h |-> m, K |-> layer.K[g], waves |-> w]
  BY HoldsAt DEF Cell
<1> QED BY <1>1 DEF FromItsMember

(* Where the groups are, by what the drafter made of the module. *)
Offset(g) == IF draft = NoDraft THEN 0 ELSE SplitBounds[g]

MemberOf(g) == IF draft = NoDraft THEN g ELSE 1

LEMMA ReadyHolds ==
  ASSUME WLoadInv, ReadyInv, Ready, NEW g \in DOMAIN layer.n
  PROVE  /\ Holds(g, MemberOf(g), Offset(g)) /\ Offset(g) \in Int
         /\ layer.K[g] = module.members[MemberOf(g)].K
<1>1. SetupInv BY DEF WLoadInv
<1>2. CASE Whole
  <2>1. draft = NoDraft /\ layer.n = MemberWidths BY <1>2 DEF Whole
  <2>2. g \in Members BY <2>1 DEF MemberWidths
  <2>3. MemberOf(g) = g /\ Offset(g) = 0 BY <2>1 DEF MemberOf, Offset
  <2>4. Holds(g, g, 0) /\ layer.K[g] = module.members[g].K BY <1>2, <2>2 DEF Whole
  <2> QED BY <2>3, <2>4
<1>3. CASE SplitUp
  <2>1. draft.groups = <<1, 3>> BY <1>3 DEF SplitUp
  <2>2. draft # NoDraft BY <2>1 DEF NoDraft
  <2>3. g \in 1 .. 3 BY <1>3 DEF SplitUp
  <2>4. MemberOf(g) = 1 /\ Offset(g) = SplitBounds[g] BY <2>2 DEF MemberOf, Offset
  <2>5. Holds(g, 1, SplitBounds[g]) /\ layer.K[g] = module.members[1].K BY <1>3, <2>3 DEF SplitUp
  <2>6. SplitAt BY <1>3 DEF SplitUp
  <2>7. SplitBounds[g] \in Nat
    <3>1. g \in 1 .. 4 BY <2>3
    <3> QED BY <2>6, <3>1, SplitBoundsAre, WeightsAssumption
  <2> QED BY <2>4, <2>5, <2>7
<1> QED BY <1>2, <1>3, ReadyWidths

LEMMA ReadyChosen ==
  ASSUME WLoadInv, ReadyInv, Ready
  PROVE  /\ AllGroups \in Seq(DOMAIN layer.n) /\ Chosen(AllGroups)
         /\ WidthsOf(AllGroups) = layer.n /\ Len(AllGroups) = Len(layer.n)
         /\ \A g \in DOMAIN layer.n : AllGroups[g] = g
         /\ Pointers(AllGroups, ptrs)
         /\ draft.groups \in Seq(DOMAIN layer.n)
         /\ draft.groups # <<>> => SplitUp /\ Chosen(draft.groups)
<1> DEFINE n == Len(layer.n)
<1>1. /\ n \in 1 .. 4 /\ DOMAIN layer.n = 1 .. n
      /\ layer.n \in [1 .. n -> Nat \ {0}]
      /\ draft.groups \in Seq(DOMAIN layer.n)
      /\ Whole \/ SplitUp
  BY ReadyWidths
<1>2. AllGroups = [g \in 1 .. n |-> g] BY <1>1 DEF AllGroups
<1> HIDE DEF n
<1>3. AllGroups \in Seq(1 .. n) /\ Len(AllGroups) = n BY <1>1, <1>2
<1>4. \A g \in DOMAIN layer.n :
        /\ layer.n[g] \in Nat \ {0}
        /\ At(layer.trellis[g]).lo \in Int /\ At(layer.svh[g]).lo \in Int
  <2> SUFFICES ASSUME NEW g \in DOMAIN layer.n
               PROVE  /\ layer.n[g] \in Nat \ {0}
                      /\ At(layer.trellis[g]).lo \in Int /\ At(layer.svh[g]).lo \in Int
    OBVIOUS
  <2>1. Holds(g, MemberOf(g), Offset(g)) /\ Offset(g) \in Int BY ReadyHolds
  <2>2. At(layer.trellis[g]).lo = Offset(g) /\ At(layer.svh[g]).lo = Offset(g) BY <2>1, HoldsAt
  <2>3. layer.n[g] \in Nat \ {0} BY <1>1
  <2> QED BY <2>1, <2>2, <2>3
<1>5. Chosen(AllGroups) BY <1>1, <1>3, <1>4 DEF Chosen
<1>6. \A g \in DOMAIN layer.n : AllGroups[g] = g BY <1>1, <1>2
<1>7. WidthsOf(AllGroups) = layer.n
  <2>1. WidthsOf(AllGroups) = [g \in 1 .. n |-> layer.n[g]] BY <1>2 DEF WidthsOf
  <2> QED BY <1>1, <2>1
<1>8. Pointers(AllGroups, ptrs)
  <2> SUFFICES ASSUME ptrs # <<>> PROVE Pointers(AllGroups, ptrs) BY DEF Pointers
  <2>1. ptrs = MgemmPtrs(layer) BY DEF ReadyInv
  <2>2. /\ n > 1 /\ \A i \in DOMAIN layer.n : layer.K[i] = layer.K[1] /\ layer.n[i] = layer.n[1]
        /\ ptrs = [trellis |-> layer.trellis, suh |-> layer.suh, svh |-> layer.svh]
    BY <2>1 DEF MgemmPtrs, n
  <2>3. /\ ptrs.trellis = layer.trellis /\ ptrs.suh = layer.suh /\ ptrs.svh = layer.svh
    BY <2>2
  <2>4. DOMAIN AllGroups = DOMAIN layer.n BY <1>1, <1>2
  <2> QED BY <2>2, <2>3, <2>4, <1>3, <1>6 DEF Pointers
<1>9. ASSUME draft.groups # <<>> PROVE SplitUp /\ Chosen(draft.groups)
  <2>1. SplitUp BY <1>1, <1>9 DEF Whole, NoDraft
  <2>2. Len(draft.groups) = 2 BY <2>1 DEF SplitUp
  <2> QED BY <1>1, <1>4, <2>1, <2>2 DEF Chosen
<1> QED BY <1>1, <1>3, <1>5, <1>6, <1>7, <1>8, <1>9 DEF n

(* The split head's groups are at its bounds. *)
LEMMA SplitBefore ==
  ASSUME SplitUp
  PROVE  /\ \A g \in 1 .. 3 : Before(layer.n, g) = SplitBounds[g]
         /\ Total(layer.n) = HeadWidth
         /\ layer.n \in [1 .. 3 -> Nat \ {0}]
<1>1. SplitAt /\ layer.n = [g \in 1 .. 3 |-> SplitBounds[g + 1] - SplitBounds[g]] BY DEF SplitUp
<1>2. /\ \A g \in 1 .. 4 : SplitBounds[g] \in Nat
      /\ \A g \in 1 .. 3 : SplitBounds[g + 1] - SplitBounds[g] \in Nat \ {0}
  BY <1>1, SplitBoundsAre, WeightsAssumption
<1> DEFINE s == layer.n
           B(g) == SplitBounds[g]
           three == 3
<1>3. B(1) = 0 /\ B(4) = HeadWidth BY DEF SplitBounds
<1>4. s[1] = B(2) - B(1) /\ s[2] = B(3) - B(2) /\ s[3] = B(4) - B(3) BY <1>1
<1>5. s \in [1 .. 3 -> Nat \ {0}] BY <1>1, <1>2
<1>6. B(1) \in Nat /\ B(2) \in Nat /\ B(3) \in Nat /\ B(4) \in Nat BY <1>2
<1> HIDE DEF s, B
<1>7. /\ Before(s, 1) = 0 /\ Before(s, three + 1) = Total(s)
      /\ \A i \in 1 .. three : Before(s, i + 1) = Before(s, i) + s[i]
  <2>1. three \in Nat /\ s \in [1 .. three -> Nat] BY <1>5
  <2> HIDE DEF three
  <2> QED BY <2>1, BeforeIs
<1>8. Before(s, 2) = Before(s, 1) + s[1] /\ Before(s, 3) = Before(s, 2) + s[2]
      /\ Total(s) = Before(s, 3) + s[3]
  <2>1. /\ 1 \in 1 .. three /\ 2 \in 1 .. three /\ 3 \in 1 .. three
        /\ 1 + 1 = 2 /\ 2 + 1 = 3 /\ three = 3
    OBVIOUS
  <2> HIDE DEF three
  <2> QED BY <1>7, <2>1
<1>9. Before(s, 1) = B(1) /\ Before(s, 2) = B(2) /\ Before(s, 3) = B(3) /\ Total(s) = B(4)
  BY <1>3, <1>4, <1>6, <1>7, <1>8
<1>10. \A g \in 1 .. 3 : g = 1 \/ g = 2 \/ g = 3 OBVIOUS
<1>11. \A g \in 1 .. 3 : Before(s, g) = B(g) BY <1>9, <1>10
<1> QED BY <1>3, <1>5, <1>9, <1>11 DEF s, B

(* Column c of group g is the one that o = <<column, member, its column>> stands for. *)
Stands(o, g, c) ==
  /\ g \in DOMAIN layer.n /\ c \in 0 .. layer.n[g] - 1
  /\ o[1] = Before(layer.n, g) + c
  /\ \A w : FromItsMember(Cell(g, c, w), o[2], o[3])

LEMMA OriginIs ==
  ASSUME NEW o \in Origin
  PROVE  \E i \in Members : \E b \in 0 .. MemberWidths[i] - 1 : o = <<Before(MemberWidths, i) + b, i, b>>
BY DEF Origin

LEMMA OriginSplit ==
  ASSUME SplitAt, NEW o \in Origin
  PROVE  \E b \in 0 .. HeadWidth - 1 : o = <<b, 1, b>>
<1>1. Members = {1} /\ HeadWidth \in Nat BY WeightsAssumption DEF SplitAt, SpecialFrom
<1>2. PICK i \in Members : \E b \in 0 .. MemberWidths[i] - 1 : o = <<Before(MemberWidths, i) + b, i, b>>
  BY OriginIs
<1>3. PICK b \in 0 .. MemberWidths[i] - 1 : o = <<Before(MemberWidths, i) + b, i, b>> BY <1>2
<1>4. i = 1 BY <1>1
<1>5. MemberWidths = [j \in 1 .. 1 |-> HeadWidth]
  <2>1. MemberWidths = [j \in {1} |-> module.members[j].n] BY <1>1 DEF MemberWidths
  <2>2. \A j \in {1} : module.members[j].n = HeadWidth BY DEF HeadWidth
  <2>3. {1} = 1 .. 1 OBVIOUS
  <2> QED BY <2>1, <2>2, <2>3
<1>6. MemberWidths \in [1 .. 1 -> Nat] /\ MemberWidths[1] = HeadWidth BY <1>1, <1>5
<1>7. Before(MemberWidths, 1) = 0 BY <1>6, BeforeOne
<1>8. b \in 0 .. HeadWidth - 1 BY <1>4, <1>6
<1>9. o = <<b, 1, b>>
  <2>1. 0 + b = b BY <1>8
  <2> QED BY <1>3, <1>4, <1>7, <2>1
<1> QED BY <1>8, <1>9

LEMMA OriginStands ==
  ASSUME WLoadInv, ReadyInv, Ready, NEW o \in Origin
  PROVE  \E g \in DOMAIN layer.n : \E c \in 0 .. layer.n[g] - 1 : Stands(o, g, c)
<1>1. Whole \/ SplitUp BY ReadyWidths
<1>2. \A g \in DOMAIN layer.n : /\ Holds(g, MemberOf(g), Offset(g)) /\ Offset(g) \in Int
                                 /\ layer.K[g] = module.members[MemberOf(g)].K
  BY ReadyHolds
<1>3. CASE Whole
  <2>1. draft = NoDraft /\ layer.n = MemberWidths BY <1>3 DEF Whole
  <2>2. PICK g \in Members : \E b \in 0 .. MemberWidths[g] - 1 : o = <<Before(MemberWidths, g) + b, g, b>>
    BY OriginIs
  <2>3. PICK c \in 0 .. MemberWidths[g] - 1 : o = <<Before(MemberWidths, g) + c, g, c>> BY <2>2
  <2>4. MemberOf(g) = g /\ Offset(g) = 0 /\ 0 + c = c BY <2>1 DEF MemberOf, Offset
  <2>5. g \in DOMAIN layer.n BY <2>1 DEF MemberWidths
  <2>6. \A w : FromItsMember(Cell(g, c, w), g, c) BY <1>2, <2>4, <2>5, HoldsMember
  <2>7. o[1] = Before(layer.n, g) + c /\ o[2] = g /\ o[3] = c BY <2>1, <2>3
  <2> QED BY <2>1, <2>3, <2>5, <2>6, <2>7 DEF Stands
<1>4. CASE SplitUp
  <2>1. SplitAt /\ draft.groups = <<1, 3>> BY <1>4 DEF SplitUp
  <2>2. draft # NoDraft BY <2>1 DEF NoDraft
  <2>3. PICK b \in 0 .. HeadWidth - 1 : o = <<b, 1, b>> BY <2>1, OriginSplit
  <2>4. /\ \A g \in 1 .. 3 : Before(layer.n, g) = SplitBounds[g]
        /\ Total(layer.n) = HeadWidth /\ layer.n \in [1 .. 3 -> Nat \ {0}]
    BY <1>4, SplitBefore
  <2>5. PICK g \in 1 .. 3 : b - Before(layer.n, g) \in 0 .. layer.n[g] - 1
    <3> DEFINE n == 3
               s == layer.n
    <3>1. n \in Nat /\ s \in [1 .. n -> Nat] /\ b \in 0 .. Total(s) - 1 BY <2>3, <2>4
    <3> HIDE DEF n, s
    <3>2. \E g \in 1 .. n : b - Before(s, g) \in 0 .. s[g] - 1 BY <3>1, ColumnOfGroup
    <3> QED BY <3>2 DEF n, s
  <2> DEFINE c == b - Before(layer.n, g)
  <2>6. g \in DOMAIN layer.n /\ Before(layer.n, g) = SplitBounds[g] /\ b \in Int BY <2>4
  <2>7. MemberOf(g) = 1 /\ Offset(g) = Before(layer.n, g) BY <2>2, <2>6 DEF MemberOf, Offset
  <2>8. Before(layer.n, g) + c = b
    <3>1. Before(layer.n, g) \in Int BY <1>2, <2>6, <2>7
    <3> QED BY <3>1, <2>6
  <2> HIDE DEF c
  <2>9. \A w : FromItsMember(Cell(g, c, w), 1, b) BY <1>2, <2>6, <2>7, <2>8, HoldsMember
  <2>10. o[1] = Before(layer.n, g) + c /\ o[2] = 1 /\ o[3] = b BY <2>3, <2>8
  <2>11. c \in 0 .. layer.n[g] - 1 BY <2>5 DEF c
  <2> QED BY <2>6, <2>9, <2>10, <2>11 DEF Stands
<1> QED BY <1>1, <1>3, <1>4
-----------------------------------------------------------------------------
(* Every step keeps the invariant                                           *)

LEMMA BufferInit == Init => BufferInv
<1> SUFFICES ASSUME Init PROVE BufferInv OBVIOUS
<1>1. WLoadInv BY LoadingInit
<1>2. phase = "new" /\ E = <<>> /\ graphs = {} /\ call = NoCall
      /\ \E size \in Reserved : wbuf = [gen |-> 0, size |-> size]
  BY DEF Init, WeightsInit
<1>3. WbufInv BY <1>2, WeightsAssumption DEF WbufInv
<1>4. ReadyInv BY <1>2 DEF ReadyInv, Ready
<1>5. UseInv BY <1>2 DEF UseInv, NoCall
<1> QED BY <1>1, <1>3, <1>4, <1>5 DEF BufferInv

(* While the module loads, no call has been. *)
LEMMA WeightsBuffer ==
  ASSUME BufferInv, WeightsNext, UNCHANGED <<E, call, graphs>>
  PROVE  BufferInv'
<1>1. WLoadInv /\ WbufInv /\ ReadyInv /\ UseInv BY DEF BufferInv
<1>2. E' = E /\ call' = call /\ graphs' = graphs OBVIOUS
<1>3. CASE CreateWeights
  <2>1. phase = "new" /\ phase' \in {"loading", "failed"} /\ wbuf' = wbuf BY <1>3 DEF CreateWeights
  <2>2. WLoadInv' BY <1>1, <1>3, CreateLoads
  <2>3. WbufInv' BY <1>1, <2>1 DEF WbufInv
  <2>4. ReadyInv' BY <2>1 DEF ReadyInv, Ready
  <2>5. E = <<>> BY <1>1, <2>1 DEF UseInv, Ready
  <2>6. UseInv' BY <1>1, <1>2, <2>5 DEF UseInv
  <2> QED BY <2>2, <2>3, <2>4, <2>6 DEF BufferInv
<1>4. CASE \E t \in stream : Load(t)
  <2>1. PICK t \in stream : Load(t) BY <1>4
  <2>2. WLoadInv' BY <1>1, <2>1, LoadLoads
  <2>3. phase = "loading" /\ wbuf' = wbuf BY <2>1 DEF Load
  <2>4. phase' \in {"loading", "failed"}
    BY <2>1, <2>3 DEF Load, LoadDense, LoadCodebook, LoadGroup
  <2>5. WbufInv' BY <1>1, <2>3 DEF WbufInv
  <2>6. ReadyInv' BY <2>4 DEF ReadyInv, Ready
  <2>7. E = <<>> BY <1>1, <2>3 DEF UseInv, Ready
  <2>8. UseInv' BY <1>1, <1>2, <2>7 DEF UseInv
  <2> QED BY <2>2, <2>5, <2>6, <2>8 DEF BufferInv
<1>5. CASE ProcessWeights
  <2>1. phase = "loading" BY <1>5 DEF ProcessWeights
  <2>2. WLoadInv' BY <1>1, <1>5, ProcessLoads
  <2>3. ReadyInv' /\ WbufInv' BY <1>1, <1>5, ProcessReady
  <2>4. E = <<>> BY <1>1, <2>1 DEF UseInv, Ready
  <2>5. UseInv' BY <1>1, <1>2, <2>4 DEF UseInv
  <2> QED BY <2>2, <2>3, <2>5 DEF BufferInv
<1> QED BY <1>3, <1>4, <1>5 DEF WeightsNext

(* What a call leaves of the module *)
LEMMA CallKeeps ==
  ASSUME BufferInv, wbuf' = wbuf,
         UNCHANGED <<setup, phase, stray, stream, loaded, codebook, partToGroup,
                     layer, heap, draft, ptrs>>
  PROVE  WLoadInv' /\ WbufInv' /\ ReadyInv' /\ (Ready => Ready')
<1>1. WLoadInv /\ WbufInv /\ ReadyInv /\ UseInv BY DEF BufferInv
<1>2. WLoadInv' BY <1>1, OthersLoad
<1>3. WbufInv' BY <1>1 DEF WbufInv
<1>4. ReadyInv'
  <2>1. UNCHANGED <<setup, phase, layer, heap, draft, ptrs>> OBVIOUS
  <2> QED BY <1>1, <2>1, ReadyStays
<1>5. Ready => Ready'
  <2>1. GroupsFor' = GroupsFor /\ phase' = phase BY SetupStable
  <2> QED BY <2>1 DEF Ready
<1> QED BY <1>2, <1>3, <1>4, <1>5

LEMMA ForwardBuffer ==
  ASSUME BufferInv, NEW rows, NEW capturing, Apply(rows, capturing) \/ Draft(rows, capturing)
  PROVE  BufferInv'
<1>1. WLoadInv /\ WbufInv /\ ReadyInv /\ UseInv BY DEF BufferInv
<1>2. /\ E # <<>> /\ E' = E
      /\ UNCHANGED <<setup, phase, stray, stream, loaded, codebook, partToGroup,
                     layer, heap, draft, ptrs>>
  BY DEF Apply, Draft
<1>3. Ready BY <1>1, <1>2 DEF UseInv
<1>4. AllGroups \in Seq(DOMAIN layer.n) /\ draft.groups \in Seq(DOMAIN layer.n)
  BY <1>1, <1>3, ReadyChosen
<1>5. wbuf' = wbuf /\ graphs' \subseteq {wbuf.gen}
  <2>1. CASE Apply(rows, capturing)
    <3>1. UseBuffer(AllGroups, ptrs, rows, capturing) BY <2>1 DEF Apply
    <3> QED BY <1>3, <1>4, <3>1, UseKeepsBuffer
  <2>2. CASE Draft(rows, capturing)
    <3>1. UseBuffer(draft.groups, <<>>, rows, capturing) BY <2>2 DEF Draft
    <3> QED BY <1>3, <1>4, <3>1, UseKeepsBuffer
  <2> QED BY <2>1, <2>2
<1>6. WLoadInv' /\ WbufInv' /\ ReadyInv' /\ Ready'
  BY <1>2, <1>3, <1>5, CallKeeps
<1>7. UseInv' BY <1>1, <1>2, <1>5, <1>6 DEF UseInv
<1> QED BY <1>6, <1>7 DEF BufferInv

LEMMA ImportBuffer ==
  ASSUME BufferInv, Import
  PROVE  BufferInv'
<1>1. UseInv BY DEF BufferInv
<1>2. /\ phase = "ready" /\ GroupsFor # {} /\ E = <<>>
      /\ UNCHANGED <<wvars, call, graphs>>
  BY DEF Import
<1>3. wbuf' = wbuf
      /\ UNCHANGED <<setup, phase, stray, stream, loaded, codebook, partToGroup,
                     layer, heap, draft, ptrs>>
  BY <1>2 DEF wvars
<1>4. Ready BY <1>2 DEF Ready
<1>5. WLoadInv' /\ WbufInv' /\ ReadyInv' /\ Ready' BY <1>3, <1>4, CallKeeps
<1>6. graphs = {} /\ call.op = "none" BY <1>1, <1>2 DEF UseInv
<1>7. UseInv' BY <1>2, <1>5, <1>6 DEF UseInv
<1> QED BY <1>5, <1>7 DEF BufferInv

LEMMA BufferStep ==
  ASSUME BufferInv, [Next]_vars
  PROVE  BufferInv'
<1>1. CASE WeightsNext /\ UNCHANGED <<E, call, graphs>> BY <1>1, WeightsBuffer
<1>2. CASE Import BY <1>2, ImportBuffer
<1>3. CASE Forward BY <1>3, ForwardBuffer DEF Forward
<1>4. CASE UNCHANGED vars
  <2>1. /\ wbuf' = wbuf /\ E' = E /\ call' = call /\ graphs' = graphs
        /\ UNCHANGED <<setup, phase, stray, stream, loaded, codebook, partToGroup,
                       layer, heap, draft, ptrs>>
    BY <1>4 DEF vars, wvars
  <2>2. WLoadInv' /\ WbufInv' /\ ReadyInv' /\ (Ready => Ready') BY <2>1, CallKeeps
  <2>3. UseInv BY DEF BufferInv
  <2>4. UseInv' BY <2>1, <2>2, <2>3 DEF UseInv
  <2> QED BY <2>2, <2>4 DEF BufferInv
<1> QED BY <1>1, <1>2, <1>3, <1>4 DEF Next

(* The buffer that a captured graph reconstructs into is the one that every *)
(* later call uses (reserve_weight_buffer).                                 *)
THEOREM GraphsKeepTheirBuffer == Spec => []GraphBufferLives
<1>1. Init => BufferInv BY BufferInit
<1>2. BufferInv /\ [Next]_vars => BufferInv' BY BufferStep
<1>3. BufferInv => GraphBufferLives BY DEF BufferInv, UseInv, GraphBufferLives
<1> QED BY <1>1, <1>2, <1>3, PTL DEF Spec

LEMMA ReadyTotal ==
  ASSUME WLoadInv, ReadyInv, Ready
  PROVE  Total(layer.n) = Total(MemberWidths)
<1>1. CASE Whole BY <1>1 DEF Whole
<1>2. CASE SplitUp
  <2>1. Total(layer.n) = HeadWidth BY <1>2, SplitBefore
  <2>2. Members = {1} /\ HeadWidth \in Nat BY <1>2, WeightsAssumption DEF SplitUp, SplitAt, SpecialFrom
  <2>3. MemberWidths = [j \in {1} |-> module.members[j].n] BY <2>2 DEF MemberWidths
  <2>4. {1} = 1 .. 1 /\ module.members[1].n = HeadWidth BY DEF HeadWidth
  <2>5. MemberWidths \in [1 .. 1 -> Nat] /\ MemberWidths[1] = HeadWidth BY <2>2, <2>3, <2>4
  <2> QED BY <2>1, <2>5, BeforeOne
<1> QED BY <1>1, <1>2, ReadyWidths

LEMMA ReadyLoaded ==
  ASSUME BufferInv
  PROVE  LoadedWhereRead
<1>1. WLoadInv /\ ReadyInv BY DEF BufferInv
<1>2. stray => phase = "failed" /\ Vision /\ Quantized # {} /\ setup.codebook = "mcg"
  BY <1>1 DEF WLoadInv, StreamInv, Unrenamed
<1>3. ASSUME Ready
      PROVE  /\ Total(layer.n) = Total(MemberWidths)
             /\ \A i \in Members : <<"code", i>> \notin stream => codebook = module.members[i].code
             /\ \A o \in Origin :
                  \E g \in DOMAIN layer.n :
                    LET first == Before(layer.n, g)
                    IN /\ o[1] \in first .. first + layer.n[g] - 1
                       /\ FromItsMember(
                            Gemv(layer.trellis[g], layer.svh[g], layer.suh[g],
                                 layer.n[g], layer.K[g], 1)[o[1] - first], o[2], o[3])
  <2>1. Total(layer.n) = Total(MemberWidths) BY <1>1, <1>3, ReadyTotal
  <2>2. \A i \in Members : <<"code", i>> \notin stream => codebook = module.members[i].code
    <3>1. CanCreate /\ GroupsFor # {} /\ phase = "ready" BY <1>1, <1>3, ReadyWidths DEF Ready
    <3>2. GroupsFor = Members
      <4>1. SetupInv BY <1>1 DEF WLoadInv
      <4> QED BY <3>1, <4>1, GroupsAre
    <3>3. CodeInv BY <1>1 DEF WLoadInv
    <3> QED BY <3>1, <3>2, <3>3 DEF CodeInv
  <2>3. ASSUME NEW o \in Origin
        PROVE  \E g \in DOMAIN layer.n :
                 LET first == Before(layer.n, g)
                 IN /\ o[1] \in first .. first + layer.n[g] - 1
                    /\ FromItsMember(
                         Gemv(layer.trellis[g], layer.svh[g], layer.suh[g],
                              layer.n[g], layer.K[g], 1)[o[1] - first], o[2], o[3])
    <3>1. PICK g \in DOMAIN layer.n : \E c \in 0 .. layer.n[g] - 1 : Stands(o, g, c)
      BY <1>1, <1>3, OriginStands
    <3>2. PICK c \in 0 .. layer.n[g] - 1 : Stands(o, g, c) BY <3>1
    <3> DEFINE first == Before(layer.n, g)
               n == Len(layer.n)
    <3>3. first \in Nat /\ layer.n[g] \in Nat
      <4>1. layer.n \in [1 .. n -> Nat \ {0}] /\ n \in Nat /\ DOMAIN layer.n = 1 .. n
        BY <1>1, <1>3, ReadyWidths
      <4> HIDE DEF n
      <4>2. g \in 1 .. n + 1 /\ layer.n \in [1 .. n -> Nat] BY <4>1
      <4>3. Before(layer.n, g) \in Nat BY <4>1, <4>2, BeforeIs
      <4> QED BY <4>1, <4>3
    <3>4. o[1] = first + c /\ FromItsMember(Cell(g, c, 1), o[2], o[3]) BY <3>2 DEF Stands
    <3> HIDE DEF first
    <3>5. o[1] - first = c /\ o[1] \in first .. first + layer.n[g] - 1 BY <3>3, <3>4
    <3>6. Gemv(layer.trellis[g], layer.svh[g], layer.suh[g], layer.n[g], layer.K[g], 1)[c] = Cell(g, c, 1)
      BY DEF Gemv, Cell
    <3> QED BY <3>4, <3>5, <3>6 DEF first
  <2> QED BY <2>1, <2>2, <2>3
<1> QED BY <1>2, <1>3 DEF LoadedWhereRead, Ready

(* Every column of a module that is ready is its own member's, with the     *)
(* member's scales, bitrate and codebook, and only the mcg scalars of a     *)
(* vision tower ever arrive without a target (create_weights, the loaders,  *)
(* process_weights_after_loading, _split_lm_head_for_draft).                *)
THEOREM LoadsWhereItReads == Spec => []LoadedWhereRead
<1>1. Init => BufferInv BY BufferInit
<1>2. BufferInv /\ [Next]_vars => BufferInv' BY BufferStep
<1>3. BufferInv => LoadedWhereRead BY ReadyLoaded
<1> QED BY <1>1, <1>2, <1>3, PTL DEF Spec
-----------------------------------------------------------------------------
(* The drafter's head                                                       *)

LEMMA SplitNumbers ==
  ASSUME SplitAt
  PROVE  /\ setup.draftBlocks \in Nat \ {0} /\ SpecialFrom \in Nat /\ HeadWidth \in Nat
         /\ setup.draftBlocks < SpecialFrom /\ SpecialFrom < HeadWidth
         /\ TailBlocks \in Nat /\ SpecialFrom = HeadWidth - TailBlocks
<1> DEFINE d == setup.draftBlocks
           b == SpecialFrom
           n == HeadWidth
<1>1. d \in Int /\ n \in Int /\ b \in Int /\ 0 < d /\ d < b /\ b < n BY DEF SplitAt
<1>2. b = n - TailBlocks BY DEF SpecialFrom
<1> HIDE DEF d, b, n
<1> QED BY <1>1, <1>2, WeightsAssumption DEF d, b, n

(* The drafter's columns are the drafted blocks, each once. *)
LEMMA DraftCols ==
  ASSUME SplitUp
  PROVE  /\ 1 \in DOMAIN draft.cols /\ DOMAIN draft.cols \subseteq Nat
         /\ \A i \in DOMAIN draft.cols : draft.cols[i] \in DraftBlocks(HeadWidth)
         /\ \A x \in DraftBlocks(HeadWidth) :
              \E i \in DOMAIN draft.cols :
                draft.cols[i] = x /\ \A k \in DOMAIN draft.cols : draft.cols[k] = x => k = i
<1> DEFINE d == setup.draftBlocks
           b == SpecialFrom
           n == HeadWidth
           cols == draft.cols
<1>1. /\ d \in Nat \ {0} /\ b \in Nat /\ n \in Nat /\ d < b /\ b < n
      /\ TailBlocks \in Nat /\ b = n - TailBlocks
  BY SplitNumbers DEF SplitUp
<1>2. cols = [i \in 1 .. d + n - b |-> IF i <= d THEN i - 1 ELSE b + i - 1 - d] BY DEF SplitUp
<1>3. DraftBlocks(n) = (0 .. d - 1) \cup {i \in d .. n - 1 : i >= n - TailBlocks}
  <2>1. ~(d <= 0 \/ d >= n)
    <3> HIDE DEF d, n, b
    <3> QED BY <1>1
  <2> QED BY <2>1 DEF DraftBlocks
<1> DEFINE D == DraftBlocks(n)
<1> HIDE DEF d, b, n, cols
<1>4. \A x : x \in D <=> x \in 0 .. n - 1 /\ (x < d \/ x >= b) BY <1>1, <1>3
<1> HIDE DEF D
<1>5. /\ DOMAIN cols = 1 .. d + n - b
      /\ \A i \in 1 .. d + n - b : cols[i] = IF i <= d THEN i - 1 ELSE b + i - 1 - d
  BY <1>2
<1>6. 1 \in DOMAIN cols /\ DOMAIN cols \subseteq Nat BY <1>1, <1>5
<1>7. ASSUME NEW i \in DOMAIN cols PROVE cols[i] \in D
  <2>1. i \in 1 .. d + n - b /\ cols[i] = IF i <= d THEN i - 1 ELSE b + i - 1 - d BY <1>5
  <2>2. CASE i <= d
    <3>1. cols[i] = i - 1 BY <2>1, <2>2
    <3>2. i - 1 \in 0 .. n - 1 /\ i - 1 < d BY <1>1, <2>1, <2>2
    <3> QED BY <3>1, <3>2, <1>4
  <2>3. CASE ~(i <= d)
    <3>1. cols[i] = b + i - 1 - d BY <2>1, <2>3
    <3>2. b + i - 1 - d \in 0 .. n - 1 /\ b + i - 1 - d >= b BY <1>1, <2>1, <2>3
    <3> QED BY <3>1, <3>2, <1>4
  <2> QED BY <2>2, <2>3
<1>8. ASSUME NEW x \in D
      PROVE  \E i \in DOMAIN cols : cols[i] = x /\ \A k \in DOMAIN cols : cols[k] = x => k = i
  <2>1. x \in 0 .. n - 1 /\ (x < d \/ x >= b) BY <1>4
  <2> DEFINE i == IF x < d THEN x + 1 ELSE x - b + d + 1
  <2>2. i \in 1 .. d + n - b /\ i = IF x < d THEN x + 1 ELSE x - b + d + 1 BY <1>1, <2>1
  <2> HIDE DEF i
  <2>3. cols[i] = IF i <= d THEN i - 1 ELSE b + i - 1 - d BY <1>5, <2>2
  <2>4. cols[i] = x BY <1>1, <2>1, <2>2, <2>3
  <2>5. ASSUME NEW k \in DOMAIN cols, cols[k] = x PROVE k = i
    <3>1. k \in 1 .. d + n - b /\ x = IF k <= d THEN k - 1 ELSE b + k - 1 - d BY <1>5, <2>5
    <3> QED BY <1>1, <2>1, <2>2, <3>1
  <2>6. i \in DOMAIN cols BY <1>5, <2>2
  <2> QED BY <2>4, <2>5, <2>6
<1> QED BY <1>6, <1>7, <1>8 DEF cols, n, D

(* What the drafter computes is the head's own column. *)
LEMMA DraftLogitsAre ==
  ASSUME WLoadInv, ReadyInv, Ready, SplitUp, NEW rows
  PROVE  \A i \in DOMAIN draft.cols : FromItsMember(DraftLogits(rows)[i - 1], 1, draft.cols[i])
<1> DEFINE d == setup.draftBlocks
           b == SpecialFrom
           n == HeadWidth
           cols == draft.cols
           gs == draft.groups
           W == WidthsOf(gs)
           y == DraftLogits(rows)
<1>1. /\ d \in Nat \ {0} /\ b \in Nat /\ n \in Nat /\ d < b /\ b < n
  BY SplitNumbers DEF SplitUp
<1>2. /\ cols = [i \in 1 .. d + n - b |-> IF i <= d THEN i - 1 ELSE b + i - 1 - d]
      /\ gs = <<1, 3>> /\ SplitAt
      /\ layer.n = [g \in 1 .. 3 |-> SplitBounds[g + 1] - SplitBounds[g]]
      /\ layer.K = [g \in 1 .. 3 |-> module.members[1].K]
      /\ \A g \in 1 .. 3 : Holds(g, 1, SplitBounds[g])
  BY DEF SplitUp
<1>3. SplitBounds = <<0, d, b, n>> BY DEF SplitBounds
<1>4. layer.n[1] = d /\ layer.n[3] = n - b
  <2>1. layer.n[1] = d - 0 /\ layer.n[3] = n - b BY <1>2, <1>3
  <2> HIDE DEF d
  <2> QED BY <2>1, <1>1
<1>5. Chosen(gs) BY <1>2, ReadyChosen
<1>6. PICK wv : Columns(y, gs, wv)
  <2>1. Pointers(gs, <<>>) BY DEF Pointers
  <2> QED BY <1>5, <2>1, LinearGroupsWrite DEF DraftLogits
<1>7. gs[1] = 1 /\ gs[2] = 3 /\ Len(gs) = 2 BY <1>2
<1> HIDE DEF y, gs
<1>8. \A j \in 1 .. 2 : \A c \in 0 .. layer.n[gs[j]] - 1 : y[Before(W, j) + c] = Cell(gs[j], c, wv[j])
  <2>1. \A j \in 1 .. (2 + 1) - 1 : \A c \in 0 .. layer.n[gs[j]] - 1 :
          y[Before(W, j) + c] = Cell(gs[j], c, wv[j])
    BY <1>6, <1>7 DEF Columns, Written
  <2>2. (2 + 1) - 1 = 2 OBVIOUS
  <2> QED BY <2>1, <2>2
<1>9. Before(W, 1) = 0 /\ Before(W, 2) = d
  <2> DEFINE two == 2
             one == 1
  <2>1. /\ two \in Nat /\ one \in 1 .. two /\ W \in [1 .. two -> Nat] /\ W[one] = d
        /\ one + 1 = 2 /\ one = 1
    BY <1>4, <1>5, <1>7, ChosenIs
  <2> HIDE DEF two, one, W
  <2>2. Before(W, 1) = 0 /\ Before(W, one + 1) = Before(W, one) + W[one] BY <2>1, BeforeIs
  <2> QED BY <1>1, <2>1, <2>2
<1> HIDE DEF W
<1>10. \A c \in 0 .. d - 1 : y[c] = Cell(1, c, wv[1])
  <2> SUFFICES ASSUME NEW c \in 0 .. d - 1 PROVE y[c] = Cell(1, c, wv[1]) OBVIOUS
  <2>1. 0 + c = c /\ 1 \in 1 .. 2 OBVIOUS
  <2>2. c \in 0 .. layer.n[gs[1]] - 1 BY <1>4, <1>7
  <2>3. y[Before(W, 1) + c] = Cell(gs[1], c, wv[1]) BY <1>8, <2>1, <2>2
  <2> QED BY <1>7, <1>9, <2>1, <2>3
<1>11. \A c \in 0 .. (n - b) - 1 : y[d + c] = Cell(3, c, wv[2])
  <2> SUFFICES ASSUME NEW c \in 0 .. (n - b) - 1 PROVE y[d + c] = Cell(3, c, wv[2]) OBVIOUS
  <2>1. 2 \in 1 .. 2 OBVIOUS
  <2>2. c \in 0 .. layer.n[gs[2]] - 1 BY <1>4, <1>7
  <2>3. y[Before(W, 2) + c] = Cell(gs[2], c, wv[2]) BY <1>8, <2>1, <2>2
  <2> QED BY <1>7, <1>9, <2>3
<1>12. /\ layer.K[1] = module.members[1].K /\ layer.K[3] = module.members[1].K
       /\ Holds(1, 1, 0) /\ Holds(3, 1, b)
  BY <1>2, <1>3
<1>13. ASSUME NEW i \in DOMAIN cols PROVE FromItsMember(y[i - 1], 1, cols[i])
  <2>1. i \in 1 .. d + n - b /\ cols[i] = IF i <= d THEN i - 1 ELSE b + i - 1 - d BY <1>2
  <2> HIDE DEF d, b, n, cols
  <2>2. CASE i <= d
    <3>1. i - 1 \in 0 .. d - 1 /\ 0 + (i - 1) = i - 1 /\ cols[i] = i - 1 BY <1>1, <2>1, <2>2
    <3>2. y[i - 1] = Cell(1, i - 1, wv[1]) BY <1>10, <3>1
    <3>3. FromItsMember(Cell(1, i - 1, wv[1]), 1, i - 1) BY <1>12, <3>1, HoldsMember
    <3> QED BY <3>1, <3>2, <3>3
  <2>3. CASE ~(i <= d)
    <3> DEFINE c == i - 1 - d
    <3>1. c \in 0 .. (n - b) - 1 /\ b + c = cols[i] /\ d + c = i - 1 BY <1>1, <2>1, <2>3
    <3> HIDE DEF c
    <3>2. y[i - 1] = Cell(3, c, wv[2])
      <4>1. y[d + c] = Cell(3, c, wv[2]) BY <1>11, <3>1
      <4> QED BY <3>1, <4>1
    <3>3. FromItsMember(Cell(3, c, wv[2]), 1, cols[i]) BY <1>12, <3>1, HoldsMember
    <3> QED BY <3>2, <3>3
  <2> QED BY <2>2, <2>3
<1> QED BY <1>13 DEF cols, y

FullHead(y, tops) ==
  /\ \A o \in Origin :
       o[1] \in DOMAIN y =>
         IF o[1] \in DraftBlocks(module.members[1].n)
         THEN FromItsMember(y[o[1]], o[2], o[3]) ELSE y[o[1]] = NegInf
  /\ LET drafted == DraftBlocks(module.members[1].n)
     IN /\ tops \subseteq drafted
        /\ \A c \in tops, d \in drafted : d < Vocab => c < Vocab

LEMMA DraftFull ==
  ASSUME WLoadInv, ReadyInv, Ready, draft.groups # <<>>, NEW rows
  PROVE  FullHead(Scattered(DraftLogits(rows)), TopTokens)
<1>1. SplitUp /\ SplitAt BY ReadyChosen DEF SplitUp
<1> DEFINE cols == draft.cols
           drafted == DraftBlocks(HeadWidth)
           sub == DraftLogits(rows)
           y == Scattered(sub)
<1>2. /\ 1 \in DOMAIN cols /\ DOMAIN cols \subseteq Nat
      /\ \A i \in DOMAIN cols : cols[i] \in drafted
      /\ \A x \in drafted :
           \E i \in DOMAIN cols : cols[i] = x /\ \A k \in DOMAIN cols : cols[k] = x => k = i
  BY <1>1, DraftCols
<1>3. \A i \in DOMAIN cols : FromItsMember(sub[i - 1], 1, cols[i]) BY <1>1, DraftLogitsAre
<1> DEFINE Hits(c) == {i \in DOMAIN cols : cols[i] = c}
<1>4. y = [c \in 0 .. Smaller(Total(layer.n), Vocab) - 1 |->
             IF Hits(c) = {} THEN NegInf ELSE sub[Min(Hits(c)) - 1]]
  BY DEF Scattered
<1> HIDE DEF y, sub, cols, drafted
<1>5. ASSUME NEW x \in DOMAIN y PROVE IF x \in drafted THEN FromItsMember(y[x], 1, x) ELSE y[x] = NegInf
  <2>1. y[x] = IF Hits(x) = {} THEN NegInf ELSE sub[Min(Hits(x)) - 1] BY <1>4
  <2>2. CASE x \in drafted
    <3>1. PICK i \in DOMAIN cols : cols[i] = x /\ \A k \in DOMAIN cols : cols[k] = x => k = i
      BY <1>2, <2>2
    <3>2. Hits(x) = {i} BY <3>1
    <3>3. Min({i}) = i
      <4> DEFINE T == {i}
      <4>1. T \in SUBSET Nat /\ i \in T /\ \A k \in T : i <= k BY <1>2
      <4> HIDE DEF T
      <4>2. Min(T) = i BY <4>1, MinUnique
      <4> QED BY <4>2 DEF T
    <3>4. y[x] = sub[i - 1]
      <4>1. Hits(x) # {} /\ Min(Hits(x)) = i BY <3>2, <3>3
      <4> HIDE DEF Hits
      <4> QED BY <2>1, <4>1
    <3> QED BY <1>3, <2>2, <3>1, <3>4
  <2>3. CASE x \notin drafted
    <3>1. Hits(x) = {} BY <1>2, <2>3
    <3> HIDE DEF Hits
    <3> QED BY <2>1, <2>3, <3>1
  <2> QED BY <2>2, <2>3
<1>6. ASSUME NEW o \in Origin, o[1] \in DOMAIN y
      PROVE  IF o[1] \in drafted THEN FromItsMember(y[o[1]], o[2], o[3]) ELSE y[o[1]] = NegInf
  <2>1. PICK x \in 0 .. HeadWidth - 1 : o = <<x, 1, x>> BY <1>1, OriginSplit
  <2>2. o[1] = x /\ o[2] = 1 /\ o[3] = x BY <2>1
  <2> QED BY <1>5, <1>6, <2>2
<1>7. /\ TopTokens \subseteq drafted
      /\ \A c \in TopTokens, d \in drafted : d < Vocab => c < Vocab
  <2> DEFINE open == {i \in DOMAIN cols : cols[i] < Vocab}
  <2>1. TopTokens = {cols[i] : i \in IF open = {} THEN {1} ELSE open} BY DEF TopTokens, cols
  <2>2. ASSUME NEW c \in TopTokens PROVE c \in drafted
    <3>1. PICK i \in IF open = {} THEN {1} ELSE open : c = cols[i] BY <2>1
    <3>2. i \in DOMAIN cols BY <1>2, <3>1
    <3> QED BY <1>2, <3>1, <3>2
  <2>3. ASSUME NEW c \in TopTokens, NEW d \in drafted, d < Vocab PROVE c < Vocab
    <3>1. PICK k \in DOMAIN cols : cols[k] = d BY <1>2
    <3>2. k \in open BY <2>3, <3>1
    <3>3. PICK i \in open : c = cols[i] BY <2>1, <3>2
    <3> QED BY <3>3
  <2> QED BY <2>2, <2>3
<1>8. HeadWidth = module.members[1].n BY DEF HeadWidth
<1>9. FullHead(y, TopTokens) BY <1>6, <1>7, <1>8 DEF FullHead, drafted
<1> QED BY <1>9 DEF y, sub
-----------------------------------------------------------------------------
(* The results of the calls                                                 *)

(* What the last call gave, of the module as it is.                         *)
ApplyInv ==
  call.op = "apply" =>
    \E wv : /\ Columns(call.y, AllGroups, wv)
            /\ call.route = "mr" /\ (E.grouped \/ ptrs = <<>>) => wv = DecodeWaves(AllGroups, ptrs)

DraftInv == call.op = "draft" => FullHead(call.y, call.tops)

CallInv == ApplyInv /\ DraftInv

LEMMA ColumnsStable ==
  ASSUME layer' = layer, heap' = heap
  PROVE  /\ AllGroups' = AllGroups
         /\ \A gs : WidthsOf(gs)' = WidthsOf(gs)
         /\ \A g, c, w : Cell(g, c, w)' = Cell(g, c, w)
         /\ \A gs, p : DecodeWaves(gs, p)' = DecodeWaves(gs, p)
<1>1. AllGroups' = AllGroups BY DEF AllGroups
<1>2. \A gs : WidthsOf(gs)' = WidthsOf(gs) BY DEF WidthsOf
<1>3. \A g, c, w : Cell(g, c, w)' = Cell(g, c, w) BY DEF Cell, At
<1>4. \A gs, p : DecodeWaves(gs, p)' = DecodeWaves(gs, p) BY DEF DecodeWaves, BszmForWarps
<1> QED BY <1>1, <1>2, <1>3, <1>4

LEMMA OriginStable ==
  ASSUME setup' = setup
  PROVE  /\ Origin' = Origin /\ module' = module
         /\ \A x : DraftBlocks(x)' = DraftBlocks(x)
<1>1. module' = module /\ Members' = Members /\ MemberWidths' = MemberWidths
  BY SetupStable, ReadyStable
<1>2. Origin' = Origin BY <1>1 DEF Origin
<1>3. \A x : DraftBlocks(x)' = DraftBlocks(x) BY DEF DraftBlocks
<1> QED BY <1>1, <1>2, <1>3

(* An apply leaves the module as it was, and a row of it. *)
LEMMA ApplyCall ==
  ASSUME BufferInv, NEW rows, NEW capturing, Apply(rows, capturing)
  PROVE  CallInv'
<1>1. WLoadInv /\ ReadyInv /\ UseInv BY DEF BufferInv
<1>2. /\ E # <<>> /\ E' = E /\ layer' = layer /\ heap' = heap /\ ptrs' = ptrs
      /\ call' = [op |-> "apply", rows |-> rows, route |-> Route(AllGroups, ptrs, rows),
                  y |-> LinearGroups(AllGroups, ptrs, rows), tops |-> {}]
  BY DEF Apply
<1>3. Ready BY <1>1, <1>2 DEF UseInv
<1>4. Chosen(AllGroups) /\ Pointers(AllGroups, ptrs) BY <1>1, <1>3, ReadyChosen
<1>5. PICK wv : /\ Columns(LinearGroups(AllGroups, ptrs, rows), AllGroups, wv)
                /\ AsDecoded(AllGroups, ptrs, rows) => wv = DecodeWaves(AllGroups, ptrs)
  BY <1>4, LinearGroupsWrite
<1>6. PICK y, gs, p : y = LinearGroups(AllGroups, ptrs, rows) /\ gs = AllGroups /\ p = ptrs OBVIOUS
<1>7. Columns(y, gs, wv) BY <1>5, <1>6
<1>8. call'.y = y /\ AllGroups' = gs /\ ptrs' = p BY <1>2, <1>6, ColumnsStable
<1>9. Columns(call.y, AllGroups, wv)'
  <2>1. IsRow(y, Total(WidthsOf(gs)))
        /\ \A j \in 1 .. (Len(gs) + 1) - 1 : \A c \in 0 .. layer.n[gs[j]] - 1 :
             y[Before(WidthsOf(gs), j) + c] = Cell(gs[j], c, wv[j])
    BY <1>7 DEF Columns, Written
  <2>2. WidthsOf(gs)' = WidthsOf(gs) /\ \A g, c, w : Cell(g, c, w)' = Cell(g, c, w)
    BY <1>2, ColumnsStable
  <2> QED BY <1>2, <1>8, <2>1, <2>2 DEF Columns, Written
<1>10. (call.route = "mr" /\ (E.grouped \/ ptrs = <<>>))' => wv = DecodeWaves(AllGroups, ptrs)'
  <2>1. call'.route = Route(AllGroups, ptrs, rows) BY <1>2
  <2>2. DecodeWaves(AllGroups, ptrs)' = DecodeWaves(AllGroups, ptrs)
    BY <1>2, <1>6, <1>8 DEF DecodeWaves, BszmForWarps
  <2> QED BY <1>2, <1>5, <2>1, <2>2 DEF AsDecoded
<1>11. call'.op = "apply" BY <1>2
<1>12. ApplyInv' BY <1>9, <1>10 DEF ApplyInv
<1>13. DraftInv' BY <1>11 DEF DraftInv
<1> QED BY <1>12, <1>13 DEF CallInv

LEMMA DraftCall ==
  ASSUME BufferInv, NEW rows, NEW capturing, Draft(rows, capturing)
  PROVE  CallInv'
<1>1. WLoadInv /\ ReadyInv /\ UseInv BY DEF BufferInv
<1>2. /\ E # <<>> /\ draft.groups # <<>> /\ setup' = setup
      /\ call' = [op |-> "draft", rows |-> rows, route |-> Route(draft.groups, <<>>, rows),
                  y |-> Scattered(DraftLogits(rows)), tops |-> TopTokens]
  BY DEF Draft
<1>3. Ready BY <1>1, <1>2 DEF UseInv
<1>4. PICK y, tops : y = Scattered(DraftLogits(rows)) /\ tops = TopTokens OBVIOUS
<1>5. FullHead(y, tops) BY <1>1, <1>2, <1>3, <1>4, DraftFull
<1>6. call'.y = y /\ call'.tops = tops /\ call'.op = "draft" BY <1>2, <1>4
<1>7. /\ Origin' = Origin /\ module' = module /\ \A x : DraftBlocks(x)' = DraftBlocks(x)
  BY <1>2, OriginStable
<1>8. FullHead(call.y, call.tops)'
  <2>1. DraftBlocks(module.members[1].n)' = DraftBlocks(module.members[1].n)
    BY <1>2 DEF DraftBlocks, module
  <2> QED BY <1>5, <1>6, <1>7, <2>1 DEF FullHead, FromItsMember
<1>9. DraftInv' BY <1>8 DEF DraftInv
<1>10. ApplyInv' BY <1>6 DEF ApplyInv
<1> QED BY <1>9, <1>10 DEF CallInv

LEMMA NoCallYet ==
  ASSUME UseInv, E = <<>>, call' = call
  PROVE  CallInv'
<1>1. call'.op = "none" BY DEF UseInv
<1> QED BY <1>1 DEF CallInv, ApplyInv, DraftInv

LEMMA CallStays ==
  ASSUME CallInv, UNCHANGED vars
  PROVE  CallInv'
<1>1. /\ setup' = setup /\ layer' = layer /\ heap' = heap /\ ptrs' = ptrs /\ E' = E /\ call' = call
  BY DEF vars, wvars
<1>2. ApplyInv'
  <2> SUFFICES ASSUME call'.op = "apply"
               PROVE  \E wv : /\ Columns(call.y, AllGroups, wv)'
                              /\ (call.route = "mr" /\ (E.grouped \/ ptrs = <<>>))'
                                   => wv = DecodeWaves(AllGroups, ptrs)'
    BY DEF ApplyInv
  <2>1. PICK wv : /\ Columns(call.y, AllGroups, wv)
                  /\ call.route = "mr" /\ (E.grouped \/ ptrs = <<>>) => wv = DecodeWaves(AllGroups, ptrs)
    BY <1>1 DEF CallInv, ApplyInv
  <2>2. PICK y, gs, p : y = call.y /\ gs = AllGroups /\ p = ptrs OBVIOUS
  <2>3. call'.y = y /\ AllGroups' = gs BY <1>1, <2>2, ColumnsStable
  <2>4. Columns(call.y, AllGroups, wv)'
    <3>1. IsRow(y, Total(WidthsOf(gs)))
          /\ \A j \in 1 .. (Len(gs) + 1) - 1 : \A c \in 0 .. layer.n[gs[j]] - 1 :
               y[Before(WidthsOf(gs), j) + c] = Cell(gs[j], c, wv[j])
      BY <2>1, <2>2 DEF Columns, Written
    <3>2. WidthsOf(gs)' = WidthsOf(gs) /\ \A g, c, w : Cell(g, c, w)' = Cell(g, c, w)
      BY <1>1, ColumnsStable
    <3> QED BY <1>1, <2>3, <3>1, <3>2 DEF Columns, Written
  <2>5. DecodeWaves(AllGroups, ptrs)' = DecodeWaves(AllGroups, ptrs)
    BY <1>1, <2>2, <2>3 DEF DecodeWaves, BszmForWarps
  <2> QED BY <1>1, <2>1, <2>4, <2>5
<1>3. DraftInv'
  <2> SUFFICES ASSUME call'.op = "draft" PROVE FullHead(call.y, call.tops)' BY DEF DraftInv
  <2>1. FullHead(call.y, call.tops) BY <1>1 DEF CallInv, DraftInv
  <2>2. Origin' = Origin /\ module' = module BY <1>1, OriginStable
  <2>3. DraftBlocks(module.members[1].n)' = DraftBlocks(module.members[1].n)
    BY <1>1 DEF DraftBlocks, module
  <2> QED BY <1>1, <2>1, <2>2, <2>3 DEF FullHead, FromItsMember
<1> QED BY <1>2, <1>3 DEF CallInv

LEMMA CallInit == Init => CallInv
<1> SUFFICES ASSUME Init PROVE CallInv OBVIOUS
<1>1. call.op = "none" BY DEF Init, NoCall
<1> QED BY <1>1 DEF CallInv, ApplyInv, DraftInv

LEMMA CallStep ==
  ASSUME BufferInv, CallInv, [Next]_vars
  PROVE  CallInv'
<1>1. UseInv BY DEF BufferInv
<1>2. CASE WeightsNext /\ UNCHANGED <<E, call, graphs>>
  <2>1. phase # "ready"
    BY <1>2 DEF WeightsNext, CreateWeights, Load, ProcessWeights
  <2>2. E = <<>> /\ call' = call BY <1>1, <1>2, <2>1 DEF UseInv, Ready
  <2> QED BY <1>1, <2>2, NoCallYet
<1>3. CASE Import
  <2>1. E = <<>> /\ call' = call BY <1>3 DEF Import
  <2> QED BY <1>1, <2>1, NoCallYet
<1>4. CASE Forward BY <1>4, ApplyCall, DraftCall DEF Forward
<1>5. CASE UNCHANGED vars BY <1>5, CallStays
<1> QED BY <1>2, <1>3, <1>4, <1>5 DEF Next

LEMMA DispatchInvariant == Spec => [](BufferInv /\ CallInv)
<1>1. Init => BufferInv /\ CallInv BY BufferInit, CallInit
<1>2. BufferInv /\ CallInv /\ [Next]_vars => (BufferInv /\ CallInv)' BY BufferStep, CallStep
<1> QED BY <1>1, <1>2, PTL DEF Spec

LEMMA CallColumns ==
  ASSUME BufferInv, CallInv
  PROVE  EachColumnOnce
<1> SUFFICES ASSUME call.op = "apply", NEW o \in Origin
             PROVE  o[1] \in DOMAIN call.y /\ FromItsMember(call.y[o[1]], o[2], o[3])
  BY DEF EachColumnOnce
<1>1. WLoadInv /\ ReadyInv /\ UseInv BY DEF BufferInv
<1>2. Ready BY <1>1 DEF UseInv
<1>3. PICK g \in DOMAIN layer.n : \E c \in 0 .. layer.n[g] - 1 : Stands(o, g, c)
  BY <1>1, <1>2, OriginStands
<1>4. PICK c \in 0 .. layer.n[g] - 1 : Stands(o, g, c) BY <1>3
<1>5. PICK wv : Columns(call.y, AllGroups, wv) BY DEF CallInv, ApplyInv
<1> DEFINE n == Len(layer.n)
           s == layer.n
           y == call.y
<1>6. /\ WidthsOf(AllGroups) = s /\ Len(AllGroups) = n /\ AllGroups[g] = g
      /\ n \in Nat /\ DOMAIN s = 1 .. n /\ s \in [1 .. n -> Nat]
  <2>1. WidthsOf(AllGroups) = s /\ Len(AllGroups) = n /\ AllGroups[g] = g BY <1>1, <1>2, ReadyChosen
  <2>2. n \in 1 .. 4 /\ DOMAIN s = 1 .. n /\ s \in [1 .. n -> Nat \ {0}] BY <1>1, <1>2, ReadyWidths
  <2> QED BY <2>1, <2>2
<1> HIDE DEF n, y
<1>7. g \in 1 .. n BY <1>6
<1>8. y[Before(s, g) + c] = Cell(g, c, wv[g])
  <2>1. \A j \in 1 .. (n + 1) - 1 : \A d \in 0 .. layer.n[AllGroups[j]] - 1 :
          y[Before(s, j) + d] = Cell(AllGroups[j], d, wv[j])
    BY <1>5, <1>6 DEF Columns, Written, y
  <2>2. (n + 1) - 1 = n BY <1>6
  <2> QED BY <1>6, <1>7, <2>1, <2>2
<1>9. IsRow(y, Total(s)) BY <1>5, <1>6 DEF Columns, Written, y
<1>10. Before(s, g) + c \in 0 .. Total(s) - 1
  <2> HIDE DEF s
  <2>1. /\ Before(s, g) \in Nat /\ Before(s, n + 1) = Total(s) /\ Total(s) \in Nat
        /\ Before(s, g + 1) = Before(s, g) + s[g]
    <3>1. g \in 1 .. n + 1 BY <1>6, <1>7
    <3> QED BY <1>6, <1>7, <3>1, BeforeIs
  <2>2. Before(s, g + 1) <= Before(s, n + 1)
    <3>1. g + 1 \in 1 .. n + 1 /\ n + 1 \in 1 .. n + 1 /\ g + 1 <= n + 1 BY <1>6, <1>7
    <3> QED BY <1>6, <3>1, BeforeGrows
  <2>3. s[g] \in Nat /\ c \in 0 .. s[g] - 1 BY <1>6, <1>7 DEF s
  <2> QED BY <2>1, <2>2, <2>3
<1>11. o[1] = Before(s, g) + c /\ FromItsMember(Cell(g, c, wv[g]), o[2], o[3]) BY <1>4 DEF Stands
<1>12. DOMAIN y = 0 .. Total(s) - 1
  <2> DEFINE T == Total(s)
  <2>1. y = [x \in 0 .. T - 1 |-> y[x]] BY <1>9 DEF IsRow
  <2> HIDE DEF T
  <2>2. DOMAIN y = 0 .. T - 1 BY ONLY <2>1
  <2> QED BY <2>2 DEF T
<1> QED BY <1>8, <1>10, <1>11, <1>12 DEF y

LEMMA CallDecodes ==
  ASSUME BufferInv, CallInv
  PROVE  VerifyRowsMatchDecode
<1> SUFFICES ASSUME call.op = "apply", call.route = "mr", E.grouped \/ ptrs = <<>>
             PROVE  call.y = LinearGroups(AllGroups, ptrs, 1)
  BY DEF VerifyRowsMatchDecode
<1>1. WLoadInv /\ ReadyInv /\ UseInv BY DEF BufferInv
<1>2. Ready BY <1>1 DEF UseInv
<1>3. Chosen(AllGroups) /\ Pointers(AllGroups, ptrs) BY <1>1, <1>2, ReadyChosen
<1>4. Columns(call.y, AllGroups, DecodeWaves(AllGroups, ptrs)) BY DEF CallInv, ApplyInv
<1>5. Columns(LinearGroups(AllGroups, ptrs, 1), AllGroups, DecodeWaves(AllGroups, ptrs))
  <2>1. AsDecoded(AllGroups, ptrs, 1) BY DEF AsDecoded
  <2> QED BY <1>3, <2>1, LinearGroupsWrite
<1> QED BY <1>3, <1>4, <1>5, RowsEqual

LEMMA CallDrafts ==
  ASSUME CallInv
  PROVE  DraftIsFullHead
BY DEF CallInv, DraftInv, FullHead, DraftIsFullHead

(* Whatever the groups, the number of rows and the kernels of the           *)
(* extension, every output column is computed from its own checkpoint       *)
(* member's tensors (linear_groups, exl3_linear).                           *)
THEOREM EveryColumnIsItsMembers == Spec => []EachColumnOnce
<1>1. BufferInv /\ CallInv => EachColumnOnce BY CallColumns
<1> QED BY <1>1, DispatchInvariant, PTL

(* A row of the multi-row GEMV is the row that decoding computes            *)
(* (linear_groups' bszm, exl3_gemv_mr_grouped).                             *)
THEOREM VerifyingIsDecoding == Spec => []VerifyRowsMatchDecode
<1>1. BufferInv /\ CallInv => VerifyRowsMatchDecode BY CallDecodes
<1> QED BY <1>1, DispatchInvariant, PTL

(* The drafter's logits are the target head's, -inf elsewhere, and its      *)
(* proposals are drafted blocks inside the vocabulary when there is one     *)
(* (_split_lm_head_for_draft, compute_logits, get_top_tokens).              *)
THEOREM DraftHeadIsTheTargets == Spec => []DraftIsFullHead
<1>1. CallInv => DraftIsFullHead BY CallDrafts
<1> QED BY <1>1, DispatchInvariant, PTL
=============================================================================
