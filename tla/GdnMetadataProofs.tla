------------------------- MODULE GdnMetadataProofs -------------------------
(***************************************************************************)
(* The promises of GdnMetadata for any number of groups, requests, drafts   *)
(* and sizes, and any contents of the buffers.  What makes them inductive   *)
(* is that a group that is ready has what some build of the batch gives     *)
(* (MdInv): the first group built it, and what another group takes over is  *)
(* what its own build would give, field by field of the metadata and of the *)
(* buffers (UpdatedIsBuilt).  The properties are then about one build.  Its *)
(* rows fall into three cases: drafts only and decodes only, which may go   *)
(* through the buffers and may be padded, and whatever has prefills, which  *)
(* may not.  In the last, a part's k-th row begins at the sum of the        *)
(* lengths of the part's rows before it (MaskedSums), so that the tokens    *)
(* between two starts of the reordered batch are one row's (MaskedTokens).  *)
(***************************************************************************)
EXTENDS GdnMetadata, FiniteSetTheorems, WellFoundedInduction, TLAPS

(* Least elements *)

LEMMA LessFounded == IsWellFoundedOn({p \in Nat \X Nat : p[1] < p[2]}, Nat)
<1>1. OpToRel(<, Nat) = {p \in Nat \X Nat : p[1] < p[2]} BY DEF OpToRel
<1>2. IsWellFoundedOn(OpToRel(<, Nat), Nat) BY NatLessThanWellFounded
<1> QED BY <1>1, <1>2

LEMMA NatMin ==
  ASSUME NEW T \in SUBSET Nat, T # {}
  PROVE  \E m \in T : \A x \in T : m <= x
<1> DEFINE R == {p \in Nat \X Nat : p[1] < p[2]}
<1>1. IsWellFoundedOn(R, Nat) BY LessFounded
<1>2. PICK m \in T : \A y \in T : ~ (<<y, m>> \in R)
  <2> HIDE DEF R
  <2> QED BY <1>1, WFMin
<1>3. ASSUME NEW x \in T PROVE m <= x
  <2>1. x \in Nat /\ m \in Nat OBVIOUS
  <2>2. x < m => <<x, m>> \in R BY <2>1
  <2> QED BY <1>2, <2>1, <2>2
<1> QED BY <1>3

(* Running sums *)

IsSums(f, s, n) == f = [i \in 0 .. n |-> IF i = 0 THEN 0 ELSE f[i - 1] + s[i]]

LEMMA SumsExist ==
  ASSUME NEW n \in Nat, NEW s
  PROVE  \E f : IsSums(f, s, n)
<1> DEFINE T == {k \in Nat : ~ \E f : IsSums(f, s, k)}
<1> SUFFICES ASSUME n \in T PROVE FALSE OBVIOUS
<1>1. PICK m \in T : \A k \in T : m <= k
  <2>1. T \in SUBSET Nat /\ T # {} OBVIOUS
  <2> HIDE DEF T
  <2> QED BY <2>1, NatMin
<1>2. m # 0
  <2>1. IsSums([i \in 0 .. 0 |-> 0], s, 0) BY DEF IsSums
  <2> QED BY <2>1
<1>3. m - 1 \in Nat /\ m - 1 \notin T BY <1>1, <1>2
<1>4. PICK f : IsSums(f, s, m - 1) BY <1>3
<1> DEFINE g == [i \in 0 .. m |-> IF i = m THEN f[m - 1] + s[m] ELSE f[i]]
<1>5. f = [i \in 0 .. m - 1 |-> IF i = 0 THEN 0 ELSE f[i - 1] + s[i]] BY <1>4 DEF IsSums
<1>6. ASSUME NEW i \in 0 .. m PROVE g[i] = IF i = 0 THEN 0 ELSE g[i - 1] + s[i]
  <2>1. CASE i = m
    <3>1. m - 1 \in 0 .. m /\ m - 1 # m BY <1>2, <1>3
    <3> QED BY <2>1, <3>1, <1>2
  <2>2. CASE i # m
    <3>1. i \in 0 .. m - 1 BY <2>2, <1>3
    <3>2. f[i] = IF i = 0 THEN 0 ELSE f[i - 1] + s[i] BY <1>5, <3>1
    <3>3. i # 0 => i - 1 \in 0 .. m /\ i - 1 # m BY <3>1
    <3> QED BY <2>2, <3>2, <3>3
  <2> QED BY <2>1, <2>2
<1>7. IsSums(g, s, m) BY <1>6 DEF IsSums
<1> QED BY <1>7

LEMMA SumsAre ==
  ASSUME NEW n \in Nat, NEW s \in [1 .. n -> Nat]
  PROVE  /\ Sums(s)[0] = 0
         /\ \A i \in 1 .. n : Sums(s)[i] = Sums(s)[i - 1] + s[i]
         /\ \A i \in 0 .. n : Sums(s)[i] \in Nat
<1>1. Len(s) = n OBVIOUS
<1>2. PICK f : IsSums(f, s, n) BY SumsExist
<1>3. IsSums(Sums(s), s, n)
  <2>1. Sums(s) = CHOOSE g : g = [i \in 0 .. n |-> IF i = 0 THEN 0 ELSE g[i - 1] + s[i]]
    BY <1>1 DEF Sums
  <2>2. \E g : g = [i \in 0 .. n |-> IF i = 0 THEN 0 ELSE g[i - 1] + s[i]] BY <1>2 DEF IsSums
  <2> QED BY <2>1, <2>2 DEF IsSums
<1> DEFINE f0 == Sums(s)
<1>4. \A i \in 0 .. n : f0[i] = IF i = 0 THEN 0 ELSE f0[i - 1] + s[i]
  <2> HIDE DEF f0
  <2>1. IsSums(f0, s, n) BY <1>3 DEF f0
  <2>2. f0 = [i \in 0 .. n |-> IF i = 0 THEN 0 ELSE f0[i - 1] + s[i]] BY <2>1 DEF IsSums
  <2> QED BY <2>2
<1>5. f0[0] = 0 /\ \A i \in 1 .. n : f0[i] = f0[i - 1] + s[i]
  <2> HIDE DEF f0
  <2> QED BY <1>4
<1>6. \A i \in 0 .. n : f0[i] \in Nat
  <2> HIDE DEF f0
  <2> DEFINE T == {i \in 0 .. n : f0[i] \notin Nat}
  <2> SUFFICES ASSUME T # {} PROVE FALSE OBVIOUS
  <2>1. PICK m \in T : \A k \in T : m <= k
    <3>1. T \in SUBSET Nat OBVIOUS
    <3> HIDE DEF T
    <3> QED BY <3>1, NatMin
  <2>2. m # 0 BY <1>5
  <2>3. m - 1 \in 0 .. n /\ m - 1 \notin T /\ m \in 1 .. n BY <2>1, <2>2
  <2>4. f0[m - 1] \in Nat /\ s[m] \in Nat BY <2>3
  <2> QED BY <1>5, <2>3, <2>4
<1> QED BY <1>5, <1>6

LEMMA SumsGrow ==
  ASSUME NEW n \in Nat, NEW s \in [1 .. n -> Nat], NEW i \in 0 .. n, NEW j \in 0 .. n, i <= j
  PROVE  Sums(s)[i] <= Sums(s)[j]
<1> DEFINE f0 == Sums(s)
           T == {k \in i .. n : f0[k] < f0[i]}
<1>1. \A k \in 1 .. n : f0[k] = f0[k - 1] + s[k] /\ s[k] \in Nat BY SumsAre
<1>2. \A k \in 0 .. n : f0[k] \in Nat BY SumsAre
<1> HIDE DEF f0
<1> SUFFICES ASSUME T # {} PROVE FALSE BY <1>2, SMTT(20) DEF f0
<1>3. PICK m \in T : \A k \in T : m <= k
  <2>1. T \in SUBSET Nat OBVIOUS
  <2> HIDE DEF T
  <2> QED BY <2>1, NatMin
<1>4. m # i BY <1>2
<1>5. m - 1 \in i .. n /\ m - 1 \notin T /\ m \in 1 .. n BY <1>3, <1>4
<1>6. f0[m - 1] >= f0[i] BY <1>2, <1>5
<1> QED BY <1>1, <1>2, <1>3, <1>5, <1>6

(* Sums up to n say nothing of what comes after. *)
LEMMA SumsAgree ==
  ASSUME NEW n \in Nat, NEW s \in [1 .. n -> Nat], NEW m \in 0 .. n, NEW t \in [1 .. m -> Nat],
         \A i \in 1 .. m : t[i] = s[i]
  PROVE  \A i \in 0 .. m : Sums(t)[i] = Sums(s)[i]
<1> DEFINE f0 == Sums(s)
           g0 == Sums(t)
           T == {k \in 0 .. m : g0[k] # f0[k]}
<1>1. f0[0] = 0 /\ \A k \in 1 .. n : f0[k] = f0[k - 1] + s[k] BY SumsAre
<1>0. m \in Nat OBVIOUS
<1>2. g0[0] = 0 /\ \A k \in 1 .. m : g0[k] = g0[k - 1] + t[k] BY <1>0, SumsAre
<1> HIDE DEF f0, g0
<1> SUFFICES ASSUME T # {} PROVE FALSE BY DEF f0, g0
<1>3. PICK x \in T : \A k \in T : x <= k
  <2>1. T \in SUBSET Nat OBVIOUS
  <2> HIDE DEF T
  <2> QED BY <2>1, NatMin
<1>4. x # 0 BY <1>1, <1>2
<1>5. x - 1 \in 0 .. m /\ x - 1 \notin T /\ x \in 1 .. m /\ x \in 1 .. n
  <2>1. x \in 0 .. m /\ m \in 0 .. n BY <1>3
  <2>2. x - 1 \in 0 .. m /\ x \in 1 .. m /\ x \in 1 .. n /\ ~(x <= x - 1) BY <1>4, <2>1
  <2> QED BY <1>3, <2>2
<1> QED BY <1>1, <1>2, <1>3, <1>5
-----------------------------------------------------------------------------
(* Masks: Count(mask, i) elements lie at or before i *)

Count(mask, i) == Cardinality({j \in mask : j <= i})

LEMMA CountIs ==
  ASSUME NEW n \in Nat, NEW mask \in SUBSET (1 .. n)
  PROVE  /\ Cardinality(mask) \in Nat
         /\ \A i \in 0 .. n : Count(mask, i) \in Nat
         /\ Count(mask, 0) = 0 /\ Count(mask, n) = Cardinality(mask)
         /\ \A i \in 1 .. n :
              Count(mask, i) = IF i \in mask THEN Count(mask, i - 1) + 1 ELSE Count(mask, i - 1)
<1> DEFINE U(i) == {j \in mask : j <= i}
<1>1. IsFiniteSet(1 .. n) BY FS_Interval
<1>2. \A S \in SUBSET (1 .. n) : IsFiniteSet(S) /\ Cardinality(S) \in Nat
  BY <1>1, FS_Subset, FS_CardinalityType
<1>3. \A i : U(i) \in SUBSET (1 .. n) OBVIOUS
<1>4. U(0) = {} /\ U(n) = mask
  <2>1. \A j \in mask : j \in Int /\ ~(j <= 0) /\ j <= n OBVIOUS
  <2> QED BY <2>1
<1>5. ASSUME NEW i \in 1 .. n
      PROVE  Count(mask, i) = IF i \in mask THEN Count(mask, i - 1) + 1 ELSE Count(mask, i - 1)
  <2>1. CASE i \in mask
    <3>1. U(i) = U(i - 1) \cup {i} /\ i \notin U(i - 1)
      <4>1. \A j \in mask : j <= i <=> j <= i - 1 \/ j = i OBVIOUS
      <4>2. \A j : j \in U(i) <=> j \in U(i - 1) \/ j = i BY <2>1, <4>1
      <4>3. ~(i <= i - 1) OBVIOUS
      <4> QED BY <4>2, <4>3
    <3>2. IsFiniteSet(U(i - 1)) BY <1>2, <1>3
    <3> HIDE DEF U
    <3>3. Cardinality(U(i - 1) \cup {i}) = Cardinality(U(i - 1)) + 1 BY <3>1, <3>2, FS_AddElement
    <3> QED BY <2>1, <3>1, <3>3 DEF Count, U
  <2>2. CASE i \notin mask
    <3>1. U(i) = U(i - 1)
      <4>1. \A j \in mask : j <= i <=> j <= i - 1 BY <2>2
      <4> QED BY <4>1
    <3> QED BY <2>2, <3>1 DEF Count
  <2> QED BY <2>1, <2>2
<1>6. \A i : Cardinality(U(i)) \in Nat BY <1>2, <1>3
<1> QED BY <1>2, <1>4, <1>5, <1>6, FS_EmptySet DEF Count

LEMMA CountGrows ==
  ASSUME NEW n \in Nat, NEW mask \in SUBSET (1 .. n), NEW i \in 0 .. n, NEW j \in 0 .. n, i <= j
  PROVE  Count(mask, i) <= Count(mask, j)
<1> DEFINE U(k) == {x \in mask : x <= k}
<1>1. U(i) \in SUBSET U(j)
  <2>1. \A x \in mask : x \in Int /\ (x <= i => x <= j) OBVIOUS
  <2> QED BY <2>1
<1>2. IsFiniteSet(U(j))
  <2>1. IsFiniteSet(1 .. n) BY FS_Interval
  <2>2. U(j) \in SUBSET (1 .. n) OBVIOUS
  <2> QED BY <2>1, <2>2, FS_Subset
<1> HIDE DEF U
<1>3. Cardinality(U(i)) <= Cardinality(U(j)) BY <1>1, <1>2, FS_Subset
<1> QED BY <1>3 DEF Count, U

LEMMA NthIs ==
  ASSUME NEW n \in Nat, NEW mask \in SUBSET (1 .. n), NEW i \in mask
  PROVE  Nth(mask, Count(mask, i)) = i /\ Count(mask, i) \in 1 .. Cardinality(mask)
<1>1. i \in 1 .. n /\ i - 1 \in 0 .. n /\ i \in 0 .. n /\ n \in 0 .. n OBVIOUS
<1>2. Count(mask, i) = Count(mask, i - 1) + 1 BY <1>1, CountIs
<1>3. ASSUME NEW j \in mask, Count(mask, j) = Count(mask, i) PROVE j = i
  <2>1. j \in 1 .. n /\ j - 1 \in 0 .. n /\ j \in 0 .. n OBVIOUS
  <2>2. Count(mask, j) = Count(mask, j - 1) + 1 BY <2>1, CountIs
  <2>3. Count(mask, i) \in Nat /\ Count(mask, j) \in Nat /\ Count(mask, i - 1) \in Nat /\ Count(mask, j - 1) \in Nat
    BY <1>1, <2>1, CountIs
  <2>4. CASE i < j
    <3>1. Count(mask, i) <= Count(mask, j - 1) BY <1>1, <2>1, <2>4, CountGrows
    <3> QED BY <1>3, <2>2, <2>3, <3>1
  <2>5. CASE j < i
    <3>1. Count(mask, j) <= Count(mask, i - 1) BY <1>1, <2>1, <2>5, CountGrows
    <3> QED BY <1>2, <1>3, <2>3, <3>1
  <2> QED BY <1>1, <2>1, <2>4, <2>5
<1>4. Nth(mask, Count(mask, i)) = CHOOSE j \in mask : Count(mask, j) = Count(mask, i) BY DEF Nth, Count
<1>5. Count(mask, i) <= Cardinality(mask)
  <2>1. i <= n BY <1>1
  <2>2. Count(mask, i) <= Count(mask, n) BY <1>1, <2>1, CountGrows
  <2>3. Count(mask, n) = Cardinality(mask) BY CountIs
  <2> QED BY <2>2, <2>3
<1>6. Count(mask, i) \in Nat /\ Count(mask, i - 1) \in Nat /\ Cardinality(mask) \in Nat BY <1>1, CountIs
<1>7. (CHOOSE j \in mask : Count(mask, j) = Count(mask, i)) = i BY <1>3
<1>8. Nth(mask, Count(mask, i)) = i BY <1>4, <1>7
<1>9. Count(mask, i) \in 1 .. Cardinality(mask)
  <2> HIDE DEF Count
  <2> QED BY <1>2, <1>5, <1>6
<1> QED BY <1>8, <1>9

LEMMA NthTyped ==
  ASSUME NEW n \in Nat, NEW mask \in SUBSET (1 .. n), NEW k \in 1 .. Cardinality(mask)
  PROVE  Nth(mask, k) \in mask /\ Count(mask, Nth(mask, k)) = k
<1> DEFINE T == {i \in 0 .. n : Count(mask, i) >= k}
<1>1. Cardinality(mask) \in Nat /\ n \in 0 .. n /\ Count(mask, n) = Cardinality(mask)
      /\ Count(mask, 0) = 0
  BY CountIs
<1>2. n \in T BY <1>1
<1>3. PICK i \in T : \A j \in T : i <= j
  <2>1. T \in SUBSET Nat /\ T # {} BY <1>2
  <2> HIDE DEF T
  <2> QED BY <2>1, NatMin
<1>4. i # 0 BY <1>1
<1>5. i \in 1 .. n /\ i - 1 \in 0 .. n /\ i - 1 \notin T BY <1>3, <1>4
<1>6. Count(mask, i) \in Nat /\ Count(mask, i - 1) \in Nat BY <1>5, CountIs, SMTT(20)
<1>7. Count(mask, i) = IF i \in mask THEN Count(mask, i - 1) + 1 ELSE Count(mask, i - 1)
  BY <1>5, CountIs
<1>8. Count(mask, i - 1) < k /\ Count(mask, i) >= k BY <1>3, <1>5, <1>6
<1>9. i \in mask /\ Count(mask, i) = k BY <1>6, <1>7, <1>8
<1>10. Nth(mask, k) = i BY <1>9, NthIs
<1> QED BY <1>9, <1>10

(* The first m of n indices. *)
LEMMA NthFirst ==
  ASSUME NEW m \in Nat
  PROVE  Cardinality(1 .. m) = m /\ \A k \in 1 .. m : Nth(1 .. m, k) = k
<1>1. Cardinality(1 .. m) = m BY FS_Interval
<1>2. ASSUME NEW k \in 1 .. m PROVE Nth(1 .. m, k) = k
  <2>1. {j \in 1 .. m : j <= k} = 1 .. k OBVIOUS
  <2>2. Cardinality(1 .. k) = k BY FS_Interval
  <2>3. Count(1 .. m, k) = k BY <2>1, <2>2 DEF Count
  <2>4. k \in 1 .. m /\ (1 .. m) \in SUBSET (1 .. m) OBVIOUS
  <2> QED BY <2>3, <2>4, NthIs
<1> QED BY <1>1, <1>2
-----------------------------------------------------------------------------
(* Rows and their tokens *)

RowSet == [req : Requests \union {Pad}, q : Nat, draft : Int, acc : Nat, started : BOOLEAN]

LEMMA LensAre ==
  ASSUME NEW rows \in Seq(RowSet)
  PROVE  /\ Len(rows) \in Nat /\ DOMAIN rows = 1 .. Len(rows)
         /\ Lens(rows) \in [1 .. Len(rows) -> Nat] /\ Len(Lens(rows)) = Len(rows)
         /\ \A i \in 1 .. Len(rows) : rows[i] \in RowSet /\ Lens(rows)[i] = rows[i].q /\ rows[i].q \in Nat
<1>1. Len(rows) \in Nat /\ DOMAIN rows = 1 .. Len(rows) OBVIOUS
<1>2. \A i \in 1 .. Len(rows) : rows[i] \in RowSet OBVIOUS
<1>3. \A i \in 1 .. Len(rows) : rows[i].q \in Nat BY <1>2 DEF RowSet
<1>4. Lens(rows) = [i \in 1 .. Len(rows) |-> rows[i].q] BY <1>1 DEF Lens
<1> QED BY <1>1, <1>2, <1>3, <1>4

LEMMA RowSums ==
  ASSUME NEW rows \in Seq(RowSet)
  PROVE  /\ Sums(Lens(rows))[0] = 0
         /\ \A i \in 0 .. Len(rows) : Sums(Lens(rows))[i] \in 0 .. NumTokens(rows)
         /\ \A i \in 1 .. Len(rows) : Sums(Lens(rows))[i] = Sums(Lens(rows))[i - 1] + rows[i].q
         /\ NumTokens(rows) \in Nat
<1> DEFINE S == Sums(Lens(rows))
           n == Len(rows)
<1>1. n \in Nat /\ Lens(rows) \in [1 .. n -> Nat] BY LensAre
<1>2. S[0] = 0 /\ (\A i \in 1 .. n : S[i] = S[i - 1] + Lens(rows)[i]) /\ \A i \in 0 .. n : S[i] \in Nat
  BY <1>1, SumsAre
<1>3. \A i \in 0 .. n : S[i] <= S[n] BY <1>1, SumsGrow
<1>4. \A i \in 1 .. n : Lens(rows)[i] = rows[i].q BY LensAre
<1>5. S[n] = NumTokens(rows) /\ n \in 0 .. n BY <1>1 DEF NumTokens
<1> HIDE DEF S, n
<1>6. \A i \in 0 .. n : S[i] \in 0 .. S[n] BY <1>2, <1>3, <1>5
<1> QED BY <1>2, <1>4, <1>5, <1>6 DEF S, n

(* Every token has one row. *)
(* Two stretches that share t, if the earlier ends where the later starts or before. *)
LEMMA Apart ==
  ASSUME NEW i \in Int, NEW j \in Int, NEW a \in Int, NEW b \in Int, NEW c \in Int, NEW d \in Int,
         NEW t, t \in a .. b - 1, t \in c .. d - 1, j < i => d <= a, i < j => b <= c
  PROVE  j = i
OBVIOUS

LEMMA RowOfIs ==
  ASSUME NEW rows \in Seq(RowSet), NEW i \in 1 .. Len(rows), NEW t \in TokensOf(rows, i)
  PROVE  RowOf(rows, t) = i /\ t \in 0 .. NumTokens(rows) - 1
<1> DEFINE S == Sums(Lens(rows))
           n == Len(rows)
<1>1. n \in Nat /\ DOMAIN rows = 1 .. n /\ Lens(rows) \in [1 .. n -> Nat] BY LensAre
<1>2. NumTokens(rows) \in Nat /\ \A j \in 0 .. n : S[j] \in 0 .. NumTokens(rows) BY RowSums
<1>3. i \in 1 .. n /\ i \in 0 .. n /\ i - 1 \in 0 .. n BY <1>1
<1>4. t \in S[i - 1] .. S[i] - 1 BY DEF TokensOf
<1>5. ASSUME NEW j \in 1 .. n, t \in TokensOf(rows, j) PROVE j = i
  <2>1. t \in S[j - 1] .. S[j] - 1 BY <1>5 DEF TokensOf
  <2>2. j \in 0 .. n /\ j - 1 \in 0 .. n BY <1>1
  <2>0. \A a, b \in 0 .. n : a <= b => S[a] <= S[b] BY <1>1, SumsGrow
  <2>3. j < i => S[j] <= S[i - 1]
    <3>1. j < i => j <= i - 1 BY <1>3, <2>2
    <3> QED BY <1>3, <2>0, <2>2, <3>1
  <2>4. i < j => S[i] <= S[j - 1]
    <3>1. i < j => i <= j - 1 BY <1>3, <2>2
    <3> QED BY <1>3, <2>0, <2>2, <3>1
  <2> HIDE DEF S, n
  <2>5. \A k \in 0 .. n : S[k] \in Int BY <1>2
  <2>6. S[i] \in Int /\ S[i - 1] \in Int /\ S[j] \in Int /\ S[j - 1] \in Int BY <1>3, <2>2, <2>5
  <2>7. i \in Int /\ j \in Int BY <1>3, <2>2
  <2> QED BY <1>4, <2>1, <2>3, <2>4, <2>6, <2>7, Apart, Zenon
<1>6. RowOf(rows, t) = i BY <1>1, <1>5 DEF RowOf
<1>7. t \in 0 .. NumTokens(rows) - 1
  <2>1. S[i] \in 0 .. NumTokens(rows) /\ S[i - 1] \in 0 .. NumTokens(rows) BY <1>2, <1>3
  <2> HIDE DEF S, n
  <2> QED BY <1>2, <1>4, <2>1
<1> QED BY <1>6, <1>7

LEMMA RowOfTyped ==
  ASSUME NEW rows \in Seq(RowSet), NEW t \in 0 .. NumTokens(rows) - 1
  PROVE  RowOf(rows, t) \in 1 .. Len(rows) /\ t \in TokensOf(rows, RowOf(rows, t))
<1> DEFINE S == Sums(Lens(rows))
           n == Len(rows)
           T == {i \in 0 .. n : t < S[i]}
<1>1. n \in Nat /\ S[0] = 0 /\ NumTokens(rows) \in Nat /\ S[n] = NumTokens(rows)
  BY LensAre, RowSums DEF NumTokens
<1>2. \A i \in 0 .. n : S[i] \in 0 .. NumTokens(rows) BY RowSums
<1> HIDE DEF S, n
<1>3. n \in T BY <1>1
<1>4. PICK i \in T : \A j \in T : i <= j
  <2>1. T \in SUBSET Nat /\ T # {} BY <1>3
  <2> HIDE DEF T
  <2> QED BY <2>1, NatMin
<1>5. i # 0 BY <1>1
<1>6. i \in 1 .. n /\ i - 1 \in 0 .. n /\ i - 1 \notin T
  <2>1. i \in 0 .. n OBVIOUS
  <2>2. i \in 1 .. n /\ i - 1 \in 0 .. n /\ ~(i <= i - 1) BY <1>1, <1>5, <2>1
  <2> QED BY <1>4, <2>2
<1>7. S[i - 1] <= t /\ t <= S[i] - 1 /\ S[i] \in Int /\ S[i - 1] \in Int BY <1>1, <1>2, <1>4, <1>6
<1>8. t \in TokensOf(rows, i) BY <1>7 DEF TokensOf, S
<1>9. RowOf(rows, t) = i BY <1>6, <1>8, RowOfIs DEF n
<1> QED BY <1>6, <1>8, <1>9 DEF n

LEMMA MaskedRows ==
  ASSUME NEW rows \in Seq(RowSet), NEW mask \in SUBSET (1 .. Len(rows))
  PROVE  /\ Masked(rows, mask) \in Seq(RowSet) /\ Len(Masked(rows, mask)) = Cardinality(mask)
         /\ \A k \in 1 .. Cardinality(mask) : Masked(rows, mask)[k] = rows[Nth(mask, k)]
<1>1. Len(rows) \in Nat /\ \A i \in 1 .. Len(rows) : rows[i] \in RowSet BY LensAre
<1>2. Cardinality(mask) \in Nat BY <1>1, CountIs
<1>3. \A k \in 1 .. Cardinality(mask) : Nth(mask, k) \in 1 .. Len(rows) BY <1>1, NthTyped
<1>4. \A k \in 1 .. Cardinality(mask) : rows[Nth(mask, k)] \in RowSet BY <1>1, <1>3
<1> QED BY <1>2, <1>4 DEF Masked

(* A stretch of a sequence that counts up from a. *)
Slots(part, c, d) == {part[i + 1] : i \in c .. d - 1}
Runs(part, c, a, q) == \A e \in 0 .. q - 1 : part[c + e + 1] = a + e

LEMMA RunsImage ==
  ASSUME NEW part, NEW a \in Nat, NEW c \in Nat, NEW q \in Nat, Runs(part, c, a, q),
         NEW b, b = a + q, NEW d, d = c + q
  PROVE  Slots(part, c, d) = a .. b - 1
<1>1. ASSUME NEW i \in c .. d - 1 PROVE part[i + 1] \in a .. b - 1
  <2>1. i - c \in 0 .. q - 1 /\ c + (i - c) + 1 = i + 1 /\ a + (i - c) \in a .. b - 1 OBVIOUS
  <2> QED BY <2>1 DEF Runs
<1>2. ASSUME NEW t \in a .. b - 1 PROVE \E i \in c .. d - 1 : part[i + 1] = t
  <2>1. t - a \in 0 .. q - 1 /\ a + (t - a) = t /\ c + (t - a) \in c .. d - 1 OBVIOUS
  <2> QED BY <2>1 DEF Runs
<1> QED BY <1>1, <1>2 DEF Slots

(* Count over a stretch that is in the mask, and over one that is not. *)
Inside(T, a, d) == \A t \in a + 1 .. a + d : t \in T
Outside(T, a, d) == \A t \in a + 1 .. a + d : t \notin T
Climbs(T, a, d) == \A e \in 0 .. d : Count(T, a + e) = Count(T, a) + e

LEMMA CountInside ==
  ASSUME NEW n \in Nat, NEW T \in SUBSET (1 .. n), NEW a \in Nat, NEW d \in Nat, a + d <= n,
         Inside(T, a, d)
  PROVE  Climbs(T, a, d)
<1>a. \A i \in 0 .. n : Count(T, i) \in Nat BY CountIs
<1>b. \A i \in 1 .. n : Count(T, i) = IF i \in T THEN Count(T, i - 1) + 1 ELSE Count(T, i - 1) BY CountIs
<1> DEFINE X == {e \in 0 .. d : Count(T, a + e) # Count(T, a) + e}
<1> SUFFICES ASSUME X # {} PROVE FALSE BY DEF Climbs
<1>1. PICK e \in X : \A f \in X : e <= f
  <2>1. X \in SUBSET Nat OBVIOUS
  <2> HIDE DEF X
  <2> QED BY <2>1, NatMin
<1>2. a \in 0 .. n /\ Count(T, a) \in Nat BY <1>a
<1>3. e # 0
  <2>1. a + 0 = a BY <1>2
  <2> QED BY <1>2, <2>1
<1>4. e - 1 \in 0 .. d /\ e - 1 \notin X /\ a + e \in 1 .. n /\ a + e \in a + 1 .. a + d
      /\ (a + e) - 1 = a + (e - 1)
  BY <1>1, <1>3
<1>5. Count(T, a + (e - 1)) = Count(T, a) + (e - 1) BY <1>4
<1>6. Count(T, a + e) = Count(T, a + (e - 1)) + 1 BY <1>b, <1>4 DEF Inside
<1> QED BY <1>1, <1>2, <1>5, <1>6

LEMMA CountOutside ==
  ASSUME NEW n \in Nat, NEW T \in SUBSET (1 .. n), NEW a \in Nat, NEW d \in Nat, a + d <= n,
         Outside(T, a, d)
  PROVE  Count(T, a + d) = Count(T, a)
<1>b. \A i \in 1 .. n : Count(T, i) = IF i \in T THEN Count(T, i - 1) + 1 ELSE Count(T, i - 1) BY CountIs
<1> DEFINE X == {e \in 0 .. d : Count(T, a + e) # Count(T, a)}
<1>0. d \in 0 .. d OBVIOUS
<1> SUFFICES ASSUME X # {} PROVE FALSE BY <1>0
<1>1. PICK e \in X : \A f \in X : e <= f
  <2>1. X \in SUBSET Nat OBVIOUS
  <2> HIDE DEF X
  <2> QED BY <2>1, NatMin
<1>3. e # 0
  <2>1. a + 0 = a OBVIOUS
  <2> QED BY <2>1
<1>4. e - 1 \in 0 .. d /\ e - 1 \notin X /\ a + e \in 1 .. n /\ a + e \in a + 1 .. a + d
      /\ (a + e) - 1 = a + (e - 1)
  BY <1>1, <1>3
<1>5. Count(T, a + (e - 1)) = Count(T, a) BY <1>4
<1>6. Count(T, a + e) = Count(T, a + (e - 1)) BY <1>b, <1>4 DEF Outside
<1> QED BY <1>1, <1>5, <1>6

(* The tokens of some of the rows, in order, are those rows' tokens laid end to end. *)

Tokens(rows) == [t \in 1 .. NumTokens(rows) |-> t - 1]
TokenMask(rows, mask) == {t \in 1 .. NumTokens(rows) : RowOf(rows, t - 1) \in mask}

LEMMA MaskedSums ==
  ASSUME NEW rows \in Seq(RowSet), NEW mask \in SUBSET (1 .. Len(rows)), NEW i \in 0 .. Len(rows)
  PROVE  Count(TokenMask(rows, mask), Sums(Lens(rows))[i])
           = Sums(Lens(Masked(rows, mask)))[Count(mask, i)]
<1> DEFINE S == Sums(Lens(rows))
           n == Len(rows)
           N == NumTokens(rows)
           T == TokenMask(rows, mask)
           sub == Masked(rows, mask)
           S2 == Sums(Lens(sub))
           m == Cardinality(mask)
           X == {j \in 0 .. n : Count(T, S[j]) # S2[Count(mask, j)]}
<1>1. n \in Nat /\ N \in Nat /\ T \in SUBSET (1 .. N) BY LensAre, RowSums DEF TokenMask
<1>2. S[0] = 0 /\ (\A j \in 0 .. n : S[j] \in 0 .. N)
      /\ (\A j \in 1 .. n : S[j] = S[j - 1] + rows[j].q /\ rows[j].q \in Nat)
  BY RowSums, LensAre
<1>3. sub \in Seq(RowSet) /\ Len(sub) = m /\ \A k \in 1 .. m : sub[k] = rows[Nth(mask, k)] BY MaskedRows
<1>4. S2[0] = 0 /\ \A k \in 1 .. m : S2[k] = S2[k - 1] + sub[k].q BY <1>3, RowSums
<1>5. /\ Count(mask, 0) = 0 /\ m \in Nat
      /\ \A j \in 0 .. n : Count(mask, j) \in Nat
      /\ \A j \in 1 .. n :
           Count(mask, j) = IF j \in mask THEN Count(mask, j - 1) + 1 ELSE Count(mask, j - 1)
  BY <1>1, CountIs
<1>6. Count(T, 0) = 0 /\ \A t \in 0 .. N : Count(T, t) \in Nat BY <1>1, CountIs
<1>7. ASSUME NEW j \in 1 .. n, NEW t \in S[j - 1] + 1 .. S[j] PROVE t \in T <=> j \in mask
  <2>1. S[j - 1] \in 0 .. N /\ S[j] \in 0 .. N BY <1>1, <1>2
  <2>2. t - 1 \in S[j - 1] .. S[j] - 1 /\ t \in 1 .. N
    <3> HIDE DEF S, N, n
    <3> QED BY <1>1, <2>1, SMTT(20)
  <2>3. RowOf(rows, t - 1) = j BY <2>2, RowOfIs DEF TokensOf
  <2> QED BY <2>2, <2>3 DEF TokenMask
<1> SUFFICES ASSUME X # {} PROVE FALSE OBVIOUS
<1> HIDE DEF S, n, N, T, sub, S2, m
<1>8. PICK j \in X : \A k \in X : j <= k
  <2>1. X \in SUBSET Nat OBVIOUS
  <2> HIDE DEF X
  <2> QED BY <2>1, NatMin
<1>9. j # 0 BY <1>2, <1>4, <1>5, <1>6
<1>10. j \in 0 .. n /\ j \in 1 .. n /\ j - 1 \in 0 .. n /\ ~(j <= j - 1) BY <1>1, <1>9
<1>11. Count(T, S[j - 1]) = S2[Count(mask, j - 1)] /\ Count(T, S[j]) # S2[Count(mask, j)]
  BY <1>8, <1>10
<1> HIDE DEF X
<1>12. S[j] = S[j - 1] + rows[j].q /\ rows[j].q \in Nat /\ S[j - 1] \in Nat /\ S[j] <= N
  <2>1. S[j] = S[j - 1] + rows[j].q /\ rows[j].q \in Nat BY <1>2, <1>10
  <2>2. S[j - 1] \in 0 .. N /\ S[j] \in 0 .. N BY <1>2, <1>10
  <2> QED BY <1>1, <2>1, <2>2
<1>13. CASE j \in mask
  <2>1. \A t \in S[j - 1] + 1 .. S[j - 1] + rows[j].q : t \in T BY <1>7, <1>10, <1>12, <1>13
  <2>2. rows[j].q \in 0 .. rows[j].q BY <1>12
  <2>3. Count(T, S[j]) = Count(T, S[j - 1]) + rows[j].q
    <3>1. S[j - 1] + rows[j].q <= N BY <1>12
    <3>2. Count(T, S[j - 1] + rows[j].q) = Count(T, S[j - 1]) + rows[j].q
      <4> DEFINE a == S[j - 1]
                 d == rows[j].q
      <4>1. a \in Nat /\ d \in Nat /\ a + d <= N /\ d \in 0 .. d /\ Inside(T, a, d)
        BY <1>12, <2>1, <2>2, <3>1 DEF Inside
      <4> HIDE DEF a, d
      <4>3. Climbs(T, a, d) BY <1>1, <4>1, CountInside
      <4>2. Count(T, a + d) = Count(T, a) + d BY <4>1, <4>3 DEF Climbs
      <4> QED BY <4>2 DEF a, d
    <3> QED BY <1>12, <3>2
  <2>4. Count(mask, j) = Count(mask, j - 1) + 1 BY <1>5, <1>10, <1>13
  <2>5. Nth(mask, Count(mask, j)) = j /\ Count(mask, j) \in 1 .. m BY <1>1, <1>13, NthIs DEF n, m
  <2>6. sub[Count(mask, j)] = rows[j] BY <1>3, <2>5
  <2>7. Count(mask, j) - 1 = Count(mask, j - 1) BY <1>5, <1>10, <2>4
  <2>8. S2[Count(mask, j)] = S2[Count(mask, j - 1)] + rows[j].q BY <1>4, <2>5, <2>6, <2>7
  <2> QED BY <1>11, <2>3, <2>8
<1>14. CASE j \notin mask
  <2>1. \A t \in S[j - 1] + 1 .. S[j - 1] + rows[j].q : t \notin T BY <1>7, <1>10, <1>12, <1>14
  <2>2. Count(T, S[j]) = Count(T, S[j - 1])
    <3>1. S[j - 1] + rows[j].q <= N BY <1>12
    <3>2. Count(T, S[j - 1] + rows[j].q) = Count(T, S[j - 1])
      <4> DEFINE a == S[j - 1]
                 d == rows[j].q
      <4>1. a \in Nat /\ d \in Nat /\ a + d <= N /\ Outside(T, a, d)
        BY <1>12, <2>1, <3>1 DEF Outside
      <4> HIDE DEF a, d
      <4>2. Count(T, a + d) = Count(T, a) BY <1>1, <4>1, CountOutside
      <4> QED BY <4>2 DEF a, d
    <3> QED BY <1>12, <3>2
  <2>3. Count(mask, j) = Count(mask, j - 1) BY <1>5, <1>10, <1>14
  <2> QED BY <1>11, <2>2, <2>3
<1> QED BY <1>13, <1>14

LEMMA MaskedTokens ==
  ASSUME NEW rows \in Seq(RowSet), NEW mask \in SUBSET (1 .. Len(rows)),
         NEW k \in 1 .. Cardinality(mask)
  PROVE  LET S2 == Sums(Lens(Masked(rows, mask)))
             r == Nth(mask, k)
             part == Masked(Tokens(rows), TokenMask(rows, mask))
         IN /\ r \in mask /\ S2[k] = S2[k - 1] + rows[r].q
            /\ S2[k - 1] \in Nat /\ S2[k] <= Cardinality(TokenMask(rows, mask))
            /\ {part[i + 1] : i \in S2[k - 1] .. S2[k] - 1} = TokensOf(rows, r)
<1> DEFINE S == Sums(Lens(rows))
           n == Len(rows)
           N == NumTokens(rows)
           T == TokenMask(rows, mask)
           S2 == Sums(Lens(Masked(rows, mask)))
           r == Nth(mask, k)
           part == Masked(Tokens(rows), T)
           q == rows[r].q
<1>1. n \in Nat /\ N \in Nat /\ T \in SUBSET (1 .. N) BY LensAre, RowSums DEF TokenMask
<1>2. r \in mask /\ Count(mask, r) = k BY <1>1, NthTyped
<1>3. r \in 1 .. n /\ r \in 0 .. n /\ r - 1 \in 0 .. n
  <2> HIDE DEF r
  <2>1. r \in 1 .. n BY <1>2
  <2> HIDE DEF n
  <2> QED BY <1>1, <2>1
<1>4. Count(mask, r - 1) = k - 1
  <2>1. Count(mask, r) = Count(mask, r - 1) + 1 /\ Count(mask, r - 1) \in Nat BY <1>1, <1>2, <1>3, CountIs, SMTT(20)
  <2> HIDE DEF r
  <2> QED BY <1>2, <2>1
<1>5. S2[k] = Count(T, S[r]) /\ S2[k - 1] = Count(T, S[r - 1])
  BY <1>2, <1>3, <1>4, MaskedSums
<1>6. S[r] = S[r - 1] + q /\ q \in Nat /\ S[r - 1] \in Nat /\ S[r - 1] \in 0 .. N /\ S[r] \in 0 .. N
  BY <1>3, RowSums, LensAre, SMTT(20)
<1>7. \A t \in S[r - 1] + 1 .. S[r - 1] + q : t \in T
  <2> SUFFICES ASSUME NEW t \in S[r - 1] + 1 .. S[r - 1] + q PROVE t \in T OBVIOUS
  <2>1. t - 1 \in S[r - 1] .. S[r] - 1 /\ t \in 1 .. N
    <3> HIDE DEF S, N, r, q
    <3> QED BY <1>1, <1>6
  <2>2. RowOf(rows, t - 1) = r BY <1>3, <2>1, RowOfIs DEF TokensOf
  <2> QED BY <1>2, <2>1, <2>2 DEF TokenMask
<1> HIDE DEF S, n, N, T, S2, r, q
<1>8. \A e \in 0 .. q : Count(T, S[r - 1] + e) = Count(T, S[r - 1]) + e
  <2> DEFINE a == S[r - 1]
  <2>1. a \in Nat /\ q \in Nat /\ a + q <= N /\ Inside(T, a, q) BY <1>6, <1>7 DEF Inside
  <2> HIDE DEF a
  <2>2. Climbs(T, a, q) BY <1>1, <2>1, CountInside
  <2> QED BY <2>2 DEF a, Climbs
<1>9. Count(T, S[r - 1]) \in Nat /\ Count(T, S[r]) <= Cardinality(T) /\ Cardinality(T) \in Nat
  <2>1. N \in 0 .. N /\ S[r] <= N BY <1>1, <1>6
  <2>2. Count(T, S[r]) <= Count(T, N) BY <1>1, <1>6, <2>1, CountGrows
  <2> QED BY <1>1, <1>6, <2>2, CountIs, SMTT(20)
<1>10. S2[k] = S2[k - 1] + q
  <2>1. q \in 0 .. q BY <1>6
  <2> QED BY <1>5, <1>6, <1>8, <2>1
<1> DEFINE a == S[r - 1]
           c == S2[k - 1]
<1>a. a \in Nat /\ c \in Nat /\ q \in Nat BY <1>5, <1>6, <1>9
<1>b. \A t \in a + 1 .. a + q : t \in T BY <1>7
<1>c. Climbs(T, a, q) /\ Count(T, a) = c BY <1>5, <1>8 DEF Climbs
<1> HIDE DEF a, c
<1>11. Runs(part, c, a, q)
  <2> SUFFICES ASSUME NEW e \in 0 .. q - 1 PROVE part[c + e + 1] = a + e BY DEF Runs
  <2>1. e + 1 \in 0 .. q /\ a + (e + 1) \in a + 1 .. a + q BY <1>a
  <2>2. a + (e + 1) \in T /\ a + (e + 1) \in 1 .. N BY <1>1, <1>b, <2>1
  <2>3. Count(T, a + (e + 1)) = c + (e + 1) BY <1>c, <2>1 DEF Climbs
  <2>4. Nth(T, c + (e + 1)) = a + (e + 1) /\ c + (e + 1) \in 1 .. Cardinality(T)
    BY <1>1, <2>2, <2>3, NthIs
  <2>5. part[c + (e + 1)] = Tokens(rows)[a + (e + 1)] BY <2>4 DEF Masked
  <2>6. Tokens(rows)[a + (e + 1)] = (a + (e + 1)) - 1 BY <2>2 DEF Tokens, N
  <2>7. c + e + 1 = c + (e + 1) /\ (a + (e + 1)) - 1 = a + e BY <1>a
  <2> QED BY <2>5, <2>6, <2>7
<1>d. S[r] = a + q /\ S2[k] = c + q BY <1>6, <1>10 DEF a, c
<1>e. Slots(part, c, S2[k]) = a .. S[r] - 1
  <2> HIDE DEF part
  <2> QED BY <1>a, <1>11, <1>d, RunsImage
<1>12. {part[i + 1] : i \in S2[k - 1] .. S2[k] - 1} = S[r - 1] .. S[r] - 1 BY <1>e DEF a, c, Slots
<1>13. TokensOf(rows, r) = S[r - 1] .. S[r] - 1 BY DEF TokensOf, S
<1>14. S2[k - 1] \in Nat /\ S2[k] <= Cardinality(T) BY <1>5, <1>9
<1> QED BY <1>2, <1>10, <1>12, <1>13, <1>14 DEF S2, r, T, q
-----------------------------------------------------------------------------
(* Tensors and their views *)

IsTensor(b, L) == b = [i \in 1 .. L |-> b[i]]

LEMMA TensorLen ==
  ASSUME NEW L \in Nat, NEW b, IsTensor(b, L)
  PROVE  DOMAIN b = 1 .. L /\ Len(b) = L
BY DEF IsTensor

LEMMA ViewIs ==
  ASSUME NEW L \in Nat, NEW b, IsTensor(b, L), NEW n \in Nat
  PROVE  /\ n <= L => View(b, n) = [i \in 1 .. n |-> b[i]] /\ Len(View(b, n)) = n
         /\ L <= n => View(b, n) = b /\ Len(View(b, n)) = L
         /\ View(b, Len(View(b, n))) = View(b, n)
<1>1. Len(b) = L BY TensorLen
<1>2. n <= L => View(b, n) = [i \in 1 .. n |-> b[i]] /\ Len(View(b, n)) = n
  <2>1. n <= L => (IF n < L THEN n ELSE L) = n OBVIOUS
  <2>2. n <= L => View(b, n) = [i \in 1 .. n |-> b[i]] BY <1>1, <2>1 DEF View
  <2> QED BY <2>2
<1>3. L <= n => View(b, n) = b /\ Len(View(b, n)) = L
  <2>1. L <= n => (IF n < L THEN n ELSE L) = L OBVIOUS
  <2>2. L <= n => View(b, n) = [i \in 1 .. L |-> b[i]] BY <1>1, <2>1 DEF View
  <2> QED BY <1>1, <2>2 DEF IsTensor
<1>4. View(b, Len(View(b, n))) = View(b, n)
  <2>1. CASE n <= L BY <1>2, <2>1
  <2>2. CASE L <= n
    <3>1. Len(View(b, n)) = L /\ View(b, n) = b BY <1>3, <2>2
    <3>2. View(b, L) = [i \in 1 .. L |-> b[i]] BY <1>1 DEF View
    <3> QED BY <3>1, <3>2 DEF IsTensor
  <2> QED BY <2>1, <2>2
<1> QED BY <1>2, <1>3, <1>4

LEMMA CopyTyped ==
  ASSUME NEW L \in Nat, NEW b, IsTensor(b, L), NEW vals, NEW n, NEW v
  PROVE  /\ IsTensor(CopyInto(b, vals), L) /\ IsTensor(CopyAndFill(b, vals, n, v), L)
         /\ \A i \in 1 .. L :
              /\ CopyInto(b, vals)[i] = IF i <= Len(vals) THEN vals[i] ELSE b[i]
              /\ CopyAndFill(b, vals, n, v)[i]
                   = IF i <= Len(vals) THEN vals[i] ELSE IF i <= n THEN v ELSE b[i]
<1>1. DOMAIN b = 1 .. L BY TensorLen
<1> QED BY <1>1 DEF IsTensor, CopyInto, CopyAndFill

(* Copying what one buffer shows of a copy into another buffer is copying there. *)
LEMMA CopyOfCopy ==
  ASSUME NEW L \in Nat, NEW a, IsTensor(a, L), NEW b, IsTensor(b, L),
         NEW vals, Len(vals) \in Nat
  PROVE  CopyInto(b, View(CopyInto(a, vals), Len(vals))) = CopyInto(b, vals)
<1> DEFINE x == CopyInto(a, vals)
           k == Len(vals)
           w == View(x, k)
<1>1. IsTensor(x, L) /\ \A i \in 1 .. L : x[i] = IF i <= k THEN vals[i] ELSE a[i] BY CopyTyped
<1>2. DOMAIN b = 1 .. L BY TensorLen
<1>3. \A i \in 1 .. L : (i <= Len(w) <=> i <= k) /\ (i <= k => w[i] = x[i])
  <2> HIDE DEF x, k
  <2>0. k \in Nat BY DEF k
  <2>1. CASE k <= L
    <3>1. w = [i \in 1 .. k |-> x[i]] /\ Len(w) = k BY <1>1, <2>0, <2>1, ViewIs
    <3> QED BY <2>0, <3>1
  <2>2. CASE L <= k
    <3>1. w = x /\ Len(w) = L BY <1>1, <2>0, <2>2, ViewIs
    <3> QED BY <2>0, <2>2, <3>1
  <2> QED BY <2>0, <2>1, <2>2
<1> HIDE DEF x, k, w
<1>4. \A i \in 1 .. L : (IF i <= Len(w) THEN w[i] ELSE b[i]) = (IF i <= k THEN vals[i] ELSE b[i])
  BY <1>1, <1>3
<1>5. CopyInto(b, w) = [i \in 1 .. L |-> IF i <= Len(w) THEN w[i] ELSE b[i]] BY <1>2 DEF CopyInto
<1>6. CopyInto(b, vals) = [i \in 1 .. L |-> IF i <= k THEN vals[i] ELSE b[i]] BY <1>2 DEF CopyInto, k
<1>7. CopyInto(b, w) = CopyInto(b, vals) BY <1>4, <1>5, <1>6
<1> QED BY <1>7 DEF w, x, k

LEMMA CopyOfFill ==
  ASSUME NEW L \in Nat, NEW a, IsTensor(a, L), NEW b, IsTensor(b, L),
         NEW vals, Len(vals) \in Nat, NEW n \in Nat, Len(vals) <= n, NEW v
  PROVE  CopyInto(b, View(CopyAndFill(a, vals, n, v), n)) = CopyAndFill(b, vals, n, v)
<1> DEFINE x == CopyAndFill(a, vals, n, v)
           k == Len(vals)
           w == View(x, n)
<1>1. IsTensor(x, L) /\ \A i \in 1 .. L : x[i] = IF i <= k THEN vals[i] ELSE IF i <= n THEN v ELSE a[i]
  BY CopyTyped
<1>2. DOMAIN b = 1 .. L BY TensorLen
<1>3. \A i \in 1 .. L : (i <= Len(w) <=> i <= n) /\ (i <= n => w[i] = x[i])
  <2> HIDE DEF x, k
  <2>1. CASE n <= L
    <3>1. w = [i \in 1 .. n |-> x[i]] /\ Len(w) = n BY <1>1, <2>1, ViewIs
    <3> QED BY <3>1
  <2>2. CASE L <= n
    <3>1. w = x /\ Len(w) = L BY <1>1, <2>2, ViewIs
    <3> QED BY <2>2, <3>1
  <2> QED BY <2>1, <2>2
<1> HIDE DEF x, w
<1>4. \A i \in 1 .. L : (IF i <= Len(w) THEN w[i] ELSE b[i])
                          = (IF i <= k THEN vals[i] ELSE IF i <= n THEN v ELSE b[i])
  BY <1>1, <1>3
<1> HIDE DEF k
<1>5. CopyInto(b, w) = [i \in 1 .. L |-> IF i <= Len(w) THEN w[i] ELSE b[i]] BY <1>2 DEF CopyInto
<1>6. CopyAndFill(b, vals, n, v) = [i \in 1 .. L |-> IF i <= k THEN vals[i] ELSE IF i <= n THEN v ELSE b[i]]
  BY <1>2 DEF CopyAndFill, k
<1>7. CopyInto(b, w) = CopyAndFill(b, vals, n, v) BY <1>4, <1>5, <1>6
<1> QED BY <1>7 DEF w, x

LEMMA ViewSame ==
  ASSUME NEW L \in Nat, NEW a, IsTensor(a, L), NEW b, IsTensor(b, L), NEW n \in Nat
  PROVE  View(b, Len(View(a, n))) = View(b, n)
<1>1. CASE n <= L BY <1>1, ViewIs
<1>2. CASE L <= n
  <2>1. Len(View(a, n)) = L /\ View(b, n) = b BY <1>2, ViewIs
  <2>2. View(b, L) = b /\ L <= L BY ViewIs
  <2> QED BY <2>1, <2>2
<1> QED BY <1>1, <1>2
-----------------------------------------------------------------------------
(* Batches: rows of requests, then padding *)

BatchOf(rows, m) ==
  /\ rows \in Seq(RowSet) /\ m \in 1 .. Len(rows)
  /\ \A i \in 1 .. m : rows[i].req # Pad /\ rows[i].q > 0
  /\ \A i \in m + 1 .. Len(rows) : rows[i] = PadRow
  /\ m < Len(rows) => /\ full /\ \A i \in 1 .. m : rows[i].draft = num_spec
                      /\ Len(rows) * (num_spec + 1) <= size.bs

ConfInv == size \in Sizes /\ num_spec \in 0 .. MaxSpec /\ full \in BOOLEAN

LEMMA Conf == ASSUME ConfInv PROVE size.bs \in Nat \ {0} /\ size.rows \in Nat \ {0} /\ num_spec \in Nat
BY GdnAssumption DEF ConfInv

BufFields == {"specState", "specMask", "specTok", "tok", "specStart", "accepted", "state", "start"}
IsBuf(b) == b = [f \in BufFields |-> b[f]]

Buffers(b) ==
  /\ IsBuf(b)
  /\ IsTensor(b.specState, size.bs) /\ IsTensor(b.specMask, size.bs)
  /\ IsTensor(b.specTok, size.bs * (num_spec + 1)) /\ IsTensor(b.tok, size.bs * (num_spec + 1))
  /\ IsTensor(b.specStart, size.bs + 1) /\ IsTensor(b.accepted, size.bs)
  /\ IsTensor(b.state, size.bs) /\ IsTensor(b.start, size.bs + 1)

(* A speculative step without prefills: the rows of drafts come first. *)
DraftsOnly(rows) == Speculative(rows) /\ Counts(rows).prefills = 0

LEMMA BatchRows ==
  ASSUME NEW rows, NEW m, BatchOf(rows, m)
  PROVE  /\ m \in Nat \ {0} /\ Len(rows) \in Nat \ {0} /\ m <= Len(rows) /\ DOMAIN rows = 1 .. Len(rows)
         /\ \A i \in 1 .. Len(rows) : rows[i].q \in Nat
         /\ SpecMask(rows) \in SUBSET (1 .. m)
         /\ OtherMask(rows) \in SUBSET (1 .. Len(rows)) /\ SpecMask(rows) \in SUBSET (1 .. Len(rows))
<1>1. rows \in Seq(RowSet) BY DEF BatchOf
<1>2. Len(rows) \in Nat /\ DOMAIN rows = 1 .. Len(rows) /\ \A i \in 1 .. Len(rows) : rows[i].q \in Nat
  BY <1>1, LensAre
<1>3. m \in 1 .. Len(rows) BY DEF BatchOf
<1>4. m \in Nat \ {0} /\ Len(rows) \in Nat \ {0} /\ m <= Len(rows) BY <1>2, <1>3
<1>5. ASSUME NEW i \in SpecMask(rows) PROVE i \in 1 .. m
  <2>1. i \in 1 .. Len(rows) /\ IsSpec(rows[i]) BY <1>2 DEF SpecMask
  <2>2. ~IsSpec(PadRow) BY DEF IsSpec, PadRow
  <2>3. i \notin m + 1 .. Len(rows) BY <2>1, <2>2 DEF BatchOf
  <2> QED BY <1>4, <2>1, <2>3
<1>6. OtherMask(rows) \in SUBSET (1 .. Len(rows)) /\ SpecMask(rows) \in SUBSET (1 .. Len(rows))
  BY <1>2 DEF OtherMask, SpecMask
<1> QED BY <1>2, <1>4, <1>5, <1>6

LEMMA DraftsFirst ==
  ASSUME NEW rows, NEW m, BatchOf(rows, m), DraftsOnly(rows)
  PROVE  /\ SpecMask(rows) = 1 .. m /\ Cardinality(SpecMask(rows)) = m
         /\ SpecRows(rows) = [k \in 1 .. m |-> rows[k]]
         /\ SpecRows(rows) \in Seq(RowSet) /\ Len(SpecRows(rows)) = m
         /\ \A k \in 1 .. m : IsSpec(rows[k])
<1>1. {i \in OtherMask(rows) : rows[i].q > 0} = {}
  <2>1. IsFiniteSet(1 .. Len(rows)) BY BatchRows, FS_Interval
  <2>2. {i \in OtherMask(rows) : rows[i].q > 0} \in SUBSET (1 .. Len(rows)) BY BatchRows
  <2>3. IsFiniteSet({i \in OtherMask(rows) : rows[i].q > 0}) BY <2>1, <2>2, FS_Subset
  <2>4. Cardinality({i \in OtherMask(rows) : rows[i].q > 0}) = 0 BY DEF DraftsOnly, Counts
  <2> QED BY <2>3, <2>4, FS_EmptySet
<1>2. ASSUME NEW i \in 1 .. m PROVE i \in SpecMask(rows)
  <2>1. i \in DOMAIN rows BY BatchRows
  <2>2. rows[i].q > 0 BY DEF BatchOf
  <2> QED BY <1>1, <2>1, <2>2 DEF OtherMask
<1>3. SpecMask(rows) = 1 .. m BY <1>2, BatchRows
<1>4. m \in Nat /\ rows \in Seq(RowSet) BY BatchRows DEF BatchOf
<1>5. Cardinality(1 .. m) = m /\ \A k \in 1 .. m : Nth(1 .. m, k) = k BY <1>4, NthFirst
<1>6. SpecRows(rows) = [k \in 1 .. m |-> rows[k]] BY <1>3, <1>5 DEF SpecRows, Masked
<1>7. SpecMask(rows) \in SUBSET (1 .. Len(rows)) BY BatchRows
<1>8. SpecRows(rows) \in Seq(RowSet) /\ Len(SpecRows(rows)) = m
  BY <1>3, <1>4, <1>5, <1>7, MaskedRows DEF SpecRows
<1>9. \A k \in 1 .. m : IsSpec(rows[k]) BY <1>3 DEF SpecMask
<1> QED BY <1>3, <1>5, <1>6, <1>8, <1>9
-----------------------------------------------------------------------------
(* Metadata and buffers as functions of their fields *)

MdFields ==
  {"prefills", "decodes", "specs", "specTokens", "specState", "specMask", "specTok", "specStart",
   "accepted", "state", "tok", "start", "prefillStart", "prefillState", "prefillStarted",
   "size", "usedSpec", "usedDecode"}
IsMd(md) == md = [f \in MdFields |-> md[f]]

LEMMA NoMd == IsMd(NoMetadata)
BY DEF IsMd, MdFields, NoMetadata

LEMMA ExceptMd == ASSUME NEW md, IsMd(md), NEW f, NEW v PROVE IsMd([md EXCEPT ![f] = v])
BY DEF IsMd

LEMMA SameMd ==
  ASSUME NEW a, NEW b, IsMd(a), IsMd(b),
         a.prefills = b.prefills, a.decodes = b.decodes, a.specs = b.specs,
         a.specTokens = b.specTokens, a.specState = b.specState, a.specMask = b.specMask,
         a.specTok = b.specTok, a.specStart = b.specStart, a.accepted = b.accepted,
         a.state = b.state, a.tok = b.tok, a.start = b.start,
         a.prefillStart = b.prefillStart, a.prefillState = b.prefillState,
         a.prefillStarted = b.prefillStarted, a.size = b.size,
         a.usedSpec = b.usedSpec, a.usedDecode = b.usedDecode
  PROVE  a = b
<1>1. \A f \in MdFields : a[f] = b[f] BY DEF MdFields
<1> QED BY <1>1 DEF IsMd

LEMMA SameBuf ==
  ASSUME NEW a, NEW b, IsBuf(a), IsBuf(b),
         a.specState = b.specState, a.specMask = b.specMask, a.specTok = b.specTok, a.tok = b.tok,
         a.specStart = b.specStart, a.accepted = b.accepted, a.state = b.state, a.start = b.start
  PROVE  a = b
<1>1. \A f \in BufFields : a[f] = b[f] BY DEF BufFields
<1> QED BY <1>1 DEF IsBuf

LEMMA ExceptBuf == ASSUME NEW b, IsBuf(b), NEW f, NEW v PROVE IsBuf([b EXCEPT ![f] = v])
BY DEF IsBuf
-----------------------------------------------------------------------------
(* What build gives where there are only drafts *)

NotSpec == FALSE
NullRow == BlockRow(1, [req |-> Pad])
MaskOf(rows) == [i \in DOMAIN rows |-> IsSpec(rows[i])]
AcceptedOf(rows) == [i \in DOMAIN SpecRows(rows) |-> SpecRows(rows)[i].acc]
FrontStarts(rows, m) == SubSeq(Starts(Lens(rows)), 1, m + 1)

SpecMd(rows, m, states) ==
  [NoMetadata EXCEPT
     !.specs = m, !.size = Len(rows), !.specTokens = NumTokens(SpecRows(rows)),
     !.specState = states, !.specMask = MaskOf(rows), !.accepted = AcceptedOf(rows),
     !.specTok = Tokens(rows), !.specStart = FrontStarts(rows, m)]

SpecFits(rows, m) == full /\ m <= size.bs /\ NumTokens(SpecRows(rows)) <= size.bs

SpecBuf(buf, rows, m, states) ==
  LET n == Len(rows)
      starts == FrontStarts(rows, m)
  IN [buf EXCEPT
        !.specState = CopyAndFill(@, states, n, NullRow),
        !.specMask = CopyAndFill(@, SubSeq(MaskOf(rows), 1, m), n, NotSpec),
        !.tok = CopyInto(@, <<>>), !.specTok = CopyInto(@, Tokens(rows)),
        !.specStart = CopyAndFill(@, starts, n + 1, Last(starts)),
        !.accepted = CopyAndFill(@, AcceptedOf(rows), n, 1)]

SpecView(new, rows, m, states) ==
  LET n == Len(rows)
  IN [SpecMd(rows, m, states) EXCEPT
        !.usedSpec = TRUE,
        !.specState = View(new.specState, n), !.specMask = View(new.specMask, n),
        !.tok = View(new.tok, 0), !.specTok = View(new.specTok, Len(Tokens(rows))),
        !.specStart = View(new.specStart, n + 1), !.accepted = View(new.accepted, n)]

LEMMA SpecMdFields ==
  ASSUME NEW rows, NEW m, NEW states
  PROVE  LET md == SpecMd(rows, m, states) IN
         /\ IsMd(md)
         /\ md.prefills = 0 /\ md.decodes = 0 /\ md.specs = m /\ md.size = Len(rows)
         /\ md.specTokens = NumTokens(SpecRows(rows)) /\ md.specState = states
         /\ md.specMask = MaskOf(rows) /\ md.accepted = AcceptedOf(rows)
         /\ md.specTok = Tokens(rows) /\ md.specStart = FrontStarts(rows, m)
         /\ md.tok = <<>> /\ md.state = <<>> /\ md.start = <<>>
         /\ md.prefillStart = <<>> /\ md.prefillState = <<>> /\ md.prefillStarted = <<>>
<1> DEFINE md == SpecMd(rows, m, states)
<1>1. IsMd(md) BY NoMd, ExceptMd DEF SpecMd
<1> QED BY <1>1 DEF SpecMd, NoMetadata

LEMMA SpecMdFlags ==
  ASSUME NEW rows, NEW m, NEW states
  PROVE  SpecMd(rows, m, states).usedSpec = FALSE /\ SpecMd(rows, m, states).usedDecode = FALSE
BY DEF SpecMd, NoMetadata

LEMMA SpecMdSteps ==
  ASSUME NEW m, NEW n, NEW states, NEW mask, NEW tokens, NEW accepted, NEW toks, NEW starts
  PROVE  [[[NoMetadata EXCEPT !.prefills = 0, !.decodes = 0, !.specs = m, !.size = n]
             EXCEPT !.specState = states, !.specMask = mask, !.specTokens = tokens,
                    !.accepted = accepted]
             EXCEPT !.specTok = toks, !.specStart = starts]
           = [NoMetadata EXCEPT
                !.specs = m, !.size = n, !.specTokens = tokens, !.specState = states,
                !.specMask = mask, !.accepted = accepted, !.specTok = toks, !.specStart = starts]
<1> DEFINE a == [[[NoMetadata EXCEPT !.prefills = 0, !.decodes = 0, !.specs = m, !.size = n]
                    EXCEPT !.specState = states, !.specMask = mask, !.specTokens = tokens,
                           !.accepted = accepted]
                    EXCEPT !.specTok = toks, !.specStart = starts]
           b == [NoMetadata EXCEPT
                   !.specs = m, !.size = n, !.specTokens = tokens, !.specState = states,
                   !.specMask = mask, !.accepted = accepted, !.specTok = toks, !.specStart = starts]
<1>1. IsMd(a) /\ IsMd(b) BY NoMd, ExceptMd
<1>2. /\ a.prefills = b.prefills /\ a.decodes = b.decodes /\ a.specs = b.specs
      /\ a.specTokens = b.specTokens /\ a.specState = b.specState /\ a.specMask = b.specMask
      /\ a.specTok = b.specTok /\ a.specStart = b.specStart /\ a.accepted = b.accepted
  BY DEF NoMetadata
<1>3. /\ a.state = b.state /\ a.tok = b.tok /\ a.start = b.start
      /\ a.prefillStart = b.prefillStart /\ a.prefillState = b.prefillState
      /\ a.prefillStarted = b.prefillStarted /\ a.size = b.size
      /\ a.usedSpec = b.usedSpec /\ a.usedDecode = b.usedDecode
  BY DEF NoMetadata
<1> HIDE DEF a, b
<1>4. a = b BY <1>1, <1>2, <1>3, SameMd
<1> QED BY <1>4 DEF a, b

LEMMA PartsSpec ==
  ASSUME NEW rows, NEW m, BatchOf(rows, m), DraftsOnly(rows), NEW g
  PROVE  WithPrefills(rows, Parts(g, rows)) = SpecMd(rows, m, BlockTable(g, SpecRows(rows)))
<1>1. Counts(rows).prefills = 0 /\ Counts(rows).decodes = 0 /\ Counts(rows).specs = m
  BY DraftsFirst DEF DraftsOnly, Counts
<1>2. Parts(g, rows)
        = [[[NoMetadata EXCEPT !.prefills = 0, !.decodes = 0, !.specs = m, !.size = Len(rows)]
             EXCEPT !.specState = BlockTable(g, SpecRows(rows)), !.specMask = MaskOf(rows),
                    !.specTokens = NumTokens(SpecRows(rows)), !.accepted = AcceptedOf(rows)]
             EXCEPT !.specTok = Tokens(rows), !.specStart = FrontStarts(rows, m)]
  BY <1>1, Zenon DEF DraftsOnly, Parts, MaskOf, AcceptedOf, Tokens, FrontStarts
<1> DEFINE md == Parts(g, rows)
<1>3. md = SpecMd(rows, m, BlockTable(g, SpecRows(rows)))
  BY <1>2, SpecMdSteps, Zenon DEF SpecMd
<1> HIDE DEF md
<1>4. md.prefills = 0 BY <1>3, SpecMdFields
<1>5. WithPrefills(rows, md) = md BY <1>4 DEF WithPrefills
<1> QED BY <1>3, <1>5, Zenon DEF md

LEMMA BuiltSpec ==
  ASSUME NEW rows, NEW m, BatchOf(rows, m), DraftsOnly(rows), NEW g, NEW buf
  PROVE  LET states == BlockTable(g, SpecRows(rows))
         IN Built(g, rows, buf) =
              IF SpecFits(rows, m)
              THEN [buf |-> SpecBuf(buf, rows, m, states),
                    md |-> SpecView(SpecBuf(buf, rows, m, states), rows, m, states)]
              ELSE [buf |-> buf, md |-> SpecMd(rows, m, states)]
<1> DEFINE states == BlockTable(g, SpecRows(rows))
           md == SpecMd(rows, m, states)
<1>1. WithPrefills(rows, Parts(g, rows)) = md BY PartsSpec
<1>2. /\ md.prefills = 0 /\ md.decodes = 0 /\ md.specs = m /\ md.size = Len(rows)
      /\ md.specTokens = NumTokens(SpecRows(rows)) /\ md.specState = states
      /\ md.specMask = MaskOf(rows) /\ md.accepted = AcceptedOf(rows)
      /\ md.specTok = Tokens(rows) /\ md.specStart = FrontStarts(rows, m)
      /\ md.tok = <<>>
  <2> HIDE DEF md, states
  <2>1. md = SpecMd(rows, m, states) BY DEF md
  <2> QED BY <2>1, SpecMdFields
<1>3. m # 0 BY BatchRows
<1> HIDE DEF states, md
<1>4. UsesSpecBuffers(md) <=> SpecFits(rows, m) BY <1>2 DEF UsesSpecBuffers, SpecFits
<1>5. ~UsesDecodeBuffers(md) BY <1>2, <1>3 DEF UsesDecodeBuffers
<1>6. CASE SpecFits(rows, m)
  <2>1. Persist(buf, md) = SpecBuf(buf, rows, m, states)
    BY <1>2, <1>4, <1>6, Zenon DEF Persist, SpecBuf, NullRow, NotSpec
  <2>2. ASSUME NEW new PROVE Viewed(new, md) = SpecView(new, rows, m, states)
    <3>1. Len(md.tok) = 0 BY <1>2
    <3>2. md = SpecMd(rows, m, states) BY DEF md
    <3> QED BY <1>2, <1>4, <1>6, <3>1, <3>2, Zenon DEF Viewed, SpecView
  <2> QED BY <1>1, <1>6, <2>1, <2>2, Zenon DEF Built, states
<1>7. CASE ~SpecFits(rows, m)
  <2>1. Persist(buf, md) = buf /\ Viewed(buf, md) = md BY <1>4, <1>5, <1>7 DEF Persist, Viewed
  <2> QED BY <1>1, <1>7, <2>1 DEF Built, md, states
<1> QED BY <1>6, <1>7
-----------------------------------------------------------------------------
(* What build gives where all rows are plain decodes *)

DecodesOnly(rows) == ~Speculative(rows) /\ Counts(rows).prefills = 0

DecMd(rows, states) ==
  [NoMetadata EXCEPT !.decodes = Len(rows), !.size = Len(rows), !.state = states,
                     !.start = Starts(Lens(rows))]

DecFits(rows) == full /\ Len(rows) <= size.bs

DecBuf(buf, rows, states) ==
  LET n == Len(rows)
      starts == Starts(Lens(rows))
  IN [buf EXCEPT
        !.state = CopyAndFill(@, SubSeq(states, 1, n), n, NULL_BLOCK),
        !.start = CopyAndFill(@, SubSeq(starts, 1, n + 1), n + 1, Last(starts))]

DecView(new, rows, states) ==
  [DecMd(rows, states) EXCEPT !.usedDecode = TRUE, !.state = View(new.state, Len(rows)),
                              !.start = View(new.start, Len(rows) + 1)]

LEMMA DecMdFields ==
  ASSUME NEW rows, NEW states
  PROVE  LET md == DecMd(rows, states) IN
         /\ IsMd(md)
         /\ md.prefills = 0 /\ md.decodes = Len(rows) /\ md.specs = 0 /\ md.size = Len(rows)
         /\ md.specTokens = 0 /\ md.specState = <<>> /\ md.specMask = <<>> /\ md.accepted = <<>>
         /\ md.specTok = <<>> /\ md.specStart = <<>> /\ md.tok = <<>>
         /\ md.state = states /\ md.start = Starts(Lens(rows))
         /\ md.prefillStart = <<>> /\ md.prefillState = <<>> /\ md.prefillStarted = <<>>
<1> DEFINE md == DecMd(rows, states)
<1>1. IsMd(md) BY NoMd, ExceptMd DEF DecMd
<1> QED BY <1>1 DEF DecMd, NoMetadata

LEMMA DecMdFlags ==
  ASSUME NEW rows, NEW states
  PROVE  DecMd(rows, states).usedSpec = FALSE /\ DecMd(rows, states).usedDecode = FALSE
BY DEF DecMd, NoMetadata

LEMMA DecMdSteps ==
  ASSUME NEW n, NEW states, NEW starts
  PROVE  [[NoMetadata EXCEPT !.prefills = 0, !.decodes = n, !.specs = 0, !.size = n]
             EXCEPT !.state = states, !.start = starts]
           = [NoMetadata EXCEPT !.decodes = n, !.size = n, !.state = states, !.start = starts]
<1> DEFINE a == [[NoMetadata EXCEPT !.prefills = 0, !.decodes = n, !.specs = 0, !.size = n]
                    EXCEPT !.state = states, !.start = starts]
           b == [NoMetadata EXCEPT !.decodes = n, !.size = n, !.state = states, !.start = starts]
<1>1. IsMd(a) /\ IsMd(b) BY NoMd, ExceptMd
<1>2. /\ a.prefills = b.prefills /\ a.decodes = b.decodes /\ a.specs = b.specs
      /\ a.specTokens = b.specTokens /\ a.specState = b.specState /\ a.specMask = b.specMask
      /\ a.specTok = b.specTok /\ a.specStart = b.specStart /\ a.accepted = b.accepted
  BY DEF NoMetadata
<1>3. /\ a.state = b.state /\ a.tok = b.tok /\ a.start = b.start
      /\ a.prefillStart = b.prefillStart /\ a.prefillState = b.prefillState
      /\ a.prefillStarted = b.prefillStarted /\ a.size = b.size
      /\ a.usedSpec = b.usedSpec /\ a.usedDecode = b.usedDecode
  BY DEF NoMetadata
<1> HIDE DEF a, b
<1>4. a = b BY <1>1, <1>2, <1>3, SameMd
<1> QED BY <1>4 DEF a, b

(* The rows before the first that is no decode. *)
LEMMA FrontIs ==
  ASSUME NEW rows, NEW m, BatchOf(rows, m)
  PROVE  /\ FrontDecodes(rows) \in 0 .. Len(rows)
         /\ \A i \in 1 .. FrontDecodes(rows) : rows[i].q <= 1
<1>1. Len(rows) \in Nat /\ DOMAIN rows = 1 .. Len(rows) /\ \A i \in 1 .. Len(rows) : rows[i].q \in Nat
  BY BatchRows
<1>2. CASE \A i \in DOMAIN rows : rows[i].q <= 1 BY <1>1, <1>2 DEF FrontDecodes
<1>3. CASE ~ \A i \in DOMAIN rows : rows[i].q <= 1
  <2> DEFINE T == {i \in 1 .. Len(rows) : rows[i].q > 1}
  <2>1. T \in SUBSET Nat /\ T # {} BY <1>1, <1>3
  <2>2. PICK k \in T : \A x \in T : k <= x
    <3> HIDE DEF T
    <3> QED BY <2>1, NatMin
  <2>3. k \in DOMAIN rows /\ rows[k].q > 1 /\ \A j \in 1 .. k - 1 : rows[j].q <= 1
    BY <1>1, <2>2
  <2> DEFINE P(i) == rows[i].q > 1 /\ \A j \in 1 .. i - 1 : rows[j].q <= 1
             c == CHOOSE i \in DOMAIN rows : P(i)
  <2>4. \E i \in DOMAIN rows : P(i) BY <2>3
  <2>5. c \in DOMAIN rows /\ P(c)
    <3> HIDE DEF P
    <3> QED BY <2>4
  <2>6. FrontDecodes(rows) = c - 1 BY <1>3 DEF FrontDecodes
  <2> HIDE DEF c
  <2> QED BY <1>1, <2>5, <2>6
<1> QED BY <1>2, <1>3

LEMMA PartsDec ==
  ASSUME NEW rows, NEW m, BatchOf(rows, m), DecodesOnly(rows), NEW g
  PROVE  WithPrefills(rows, Parts(g, rows)) = DecMd(rows, FirstColumn(BlockTable(g, rows)))
<1>1. Counts(rows).prefills = 0 /\ Counts(rows).decodes = Len(rows) /\ Counts(rows).specs = 0
  <2>1. Len(rows) \in Nat /\ FrontDecodes(rows) \in 0 .. Len(rows) BY BatchRows, FrontIs
  <2>2. Len(rows) - FrontDecodes(rows) = 0 BY DEF DecodesOnly, Counts
  <2> QED BY <2>1, <2>2 DEF DecodesOnly, Counts
<1>2. Parts(g, rows)
        = [[NoMetadata EXCEPT !.prefills = 0, !.decodes = Len(rows), !.specs = 0, !.size = Len(rows)]
             EXCEPT !.state = FirstColumn(BlockTable(g, rows)), !.start = Starts(Lens(rows))]
  BY <1>1, Zenon DEF DecodesOnly, Parts
<1> DEFINE md == Parts(g, rows)
<1>3. md = DecMd(rows, FirstColumn(BlockTable(g, rows)))
  BY <1>2, DecMdSteps, Zenon DEF DecMd
<1> HIDE DEF md
<1>4. md.prefills = 0 BY <1>3, DecMdFields
<1>5. WithPrefills(rows, md) = md BY <1>4 DEF WithPrefills
<1> QED BY <1>3, <1>5, Zenon DEF md

LEMMA BuiltDec ==
  ASSUME NEW rows, NEW m, BatchOf(rows, m), DecodesOnly(rows), NEW g, NEW buf
  PROVE  LET states == FirstColumn(BlockTable(g, rows))
         IN Built(g, rows, buf) =
              IF DecFits(rows)
              THEN [buf |-> DecBuf(buf, rows, states),
                    md |-> DecView(DecBuf(buf, rows, states), rows, states)]
              ELSE [buf |-> buf, md |-> DecMd(rows, states)]
<1> DEFINE states == FirstColumn(BlockTable(g, rows))
           md == DecMd(rows, states)
<1>1. WithPrefills(rows, Parts(g, rows)) = md BY PartsDec
<1>2. /\ md.prefills = 0 /\ md.decodes = Len(rows) /\ md.specs = 0 /\ md.size = Len(rows)
      /\ md.state = states /\ md.start = Starts(Lens(rows))
  <2> HIDE DEF md, states
  <2>1. md = DecMd(rows, states) BY DEF md
  <2> QED BY <2>1, DecMdFields
<1>3. Len(rows) # 0 BY BatchRows
<1> HIDE DEF states, md
<1>4. ~UsesSpecBuffers(md) BY <1>2, <1>3 DEF UsesSpecBuffers
<1>5. UsesDecodeBuffers(md) <=> DecFits(rows) BY <1>2 DEF UsesDecodeBuffers, DecFits
<1>6. CASE DecFits(rows)
  <2>1. Persist(buf, md) = DecBuf(buf, rows, states)
    BY <1>2, <1>4, <1>5, <1>6, Zenon DEF Persist, DecBuf
  <2>2. ASSUME NEW new PROVE Viewed(new, md) = DecView(new, rows, states)
    <3>2. md = DecMd(rows, states) BY DEF md
    <3> QED BY <1>2, <1>4, <1>5, <1>6, <3>2, Zenon DEF Viewed, DecView
  <2> QED BY <1>1, <1>6, <2>1, <2>2, Zenon DEF Built, states
<1>7. CASE ~DecFits(rows)
  <2>1. Persist(buf, md) = buf /\ Viewed(buf, md) = md BY <1>4, <1>5, <1>7 DEF Persist, Viewed
  <2> QED BY <1>1, <1>7, <2>1 DEF Built, md, states
<1> QED BY <1>6, <1>7

(* Whatever has prefills goes through no buffer. *)
LEMMA BuiltMixed ==
  ASSUME NEW rows, Counts(rows).prefills # 0, NEW g, NEW buf
  PROVE  /\ Built(g, rows, buf) = [buf |-> buf, md |-> WithPrefills(rows, Parts(g, rows))]
         /\ WithPrefills(rows, Parts(g, rows)).prefills = Counts(rows).prefills
<1> DEFINE part == Parts(g, rows)
           md == WithPrefills(rows, part)
<1>1. part.prefills = Counts(rows).prefills BY DEF Parts, NoMetadata
<1>2. md.prefills = part.prefills
  <2> HIDE DEF part
  <2> QED BY DEF WithPrefills
<1> HIDE DEF md
<1>3. ~UsesSpecBuffers(md) /\ ~UsesDecodeBuffers(md)
  BY <1>1, <1>2 DEF UsesSpecBuffers, UsesDecodeBuffers
<1>4. Persist(buf, md) = buf /\ Viewed(buf, md) = md BY <1>3 DEF Persist, Viewed
<1> QED BY <1>1, <1>2, <1>4 DEF Built, md
-----------------------------------------------------------------------------
(* The buffers after a build, field by field *)

LEMMA SpecBufFields ==
  ASSUME NEW rows, NEW m, NEW states, NEW buf, IsBuf(buf)
  PROVE  LET new == SpecBuf(buf, rows, m, states)
             n == Len(rows)
             starts == FrontStarts(rows, m)
         IN /\ IsBuf(new)
            /\ new.specState = CopyAndFill(buf.specState, states, n, NullRow)
            /\ new.specMask = CopyAndFill(buf.specMask, SubSeq(MaskOf(rows), 1, m), n, NotSpec)
            /\ new.tok = CopyInto(buf.tok, <<>>) /\ new.specTok = CopyInto(buf.specTok, Tokens(rows))
            /\ new.specStart = CopyAndFill(buf.specStart, starts, n + 1, Last(starts))
            /\ new.accepted = CopyAndFill(buf.accepted, AcceptedOf(rows), n, 1)
            /\ new.state = buf.state /\ new.start = buf.start
<1>1. IsBuf(SpecBuf(buf, rows, m, states)) BY ExceptBuf DEF SpecBuf
<1>2. DOMAIN buf = BufFields BY DEF IsBuf
<1> QED BY <1>1, <1>2 DEF SpecBuf, BufFields

LEMMA DecBufFields ==
  ASSUME NEW rows, NEW states, NEW buf, IsBuf(buf)
  PROVE  LET new == DecBuf(buf, rows, states)
             n == Len(rows)
             starts == Starts(Lens(rows))
         IN /\ IsBuf(new)
            /\ new.state = CopyAndFill(buf.state, SubSeq(states, 1, n), n, NULL_BLOCK)
            /\ new.start = CopyAndFill(buf.start, SubSeq(starts, 1, n + 1), n + 1, Last(starts))
            /\ new.specState = buf.specState /\ new.specMask = buf.specMask
            /\ new.specTok = buf.specTok /\ new.tok = buf.tok
            /\ new.specStart = buf.specStart /\ new.accepted = buf.accepted
<1>1. IsBuf(DecBuf(buf, rows, states)) BY ExceptBuf DEF DecBuf
<1>2. DOMAIN buf = BufFields BY DEF IsBuf
<1> QED BY <1>1, <1>2 DEF DecBuf, BufFields

LEMMA SpecViewFields ==
  ASSUME NEW new, NEW rows, NEW m, NEW states
  PROVE  LET md == SpecView(new, rows, m, states)
             n == Len(rows)
         IN /\ IsMd(md)
            /\ md.prefills = 0 /\ md.decodes = 0 /\ md.specs = m /\ md.size = n
            /\ md.specTokens = NumTokens(SpecRows(rows)) /\ md.specState = View(new.specState, n)
            /\ md.specMask = View(new.specMask, n) /\ md.accepted = View(new.accepted, n)
            /\ md.specTok = View(new.specTok, Len(Tokens(rows)))
            /\ md.specStart = View(new.specStart, n + 1) /\ md.tok = View(new.tok, 0)
            /\ md.state = <<>> /\ md.start = <<>>
            /\ md.prefillStart = <<>> /\ md.prefillState = <<>> /\ md.prefillStarted = <<>>
<1> DEFINE old == SpecMd(rows, m, states)
<1>1. /\ IsMd(old)
      /\ old.prefills = 0 /\ old.decodes = 0 /\ old.specs = m /\ old.size = Len(rows)
      /\ old.specTokens = NumTokens(SpecRows(rows)) /\ old.state = <<>> /\ old.start = <<>>
      /\ old.prefillStart = <<>> /\ old.prefillState = <<>> /\ old.prefillStarted = <<>>
  BY SpecMdFields
<1>2. IsMd(SpecView(new, rows, m, states)) BY <1>1, ExceptMd DEF SpecView
<1>3. DOMAIN old = MdFields BY <1>1 DEF IsMd
<1> HIDE DEF old
<1>4. SpecView(new, rows, m, states)
        = [old EXCEPT
             !.usedSpec = TRUE,
             !.specState = View(new.specState, Len(rows)), !.specMask = View(new.specMask, Len(rows)),
             !.tok = View(new.tok, 0), !.specTok = View(new.specTok, Len(Tokens(rows))),
             !.specStart = View(new.specStart, Len(rows) + 1), !.accepted = View(new.accepted, Len(rows))]
  BY Zenon DEF SpecView, old
<1> QED BY <1>1, <1>2, <1>3, <1>4 DEF MdFields

LEMMA SpecViewFlags ==
  ASSUME NEW new, NEW rows, NEW m, NEW states
  PROVE  SpecView(new, rows, m, states).usedSpec = TRUE
         /\ SpecView(new, rows, m, states).usedDecode = FALSE
<1>1. IsMd(SpecMd(rows, m, states)) BY SpecMdFields
<1>2. DOMAIN SpecMd(rows, m, states) = MdFields BY <1>1 DEF IsMd
<1> QED BY <1>2, SpecMdFlags DEF SpecView, MdFields

LEMMA DecViewFields ==
  ASSUME NEW new, NEW rows, NEW states
  PROVE  LET md == DecView(new, rows, states)
             n == Len(rows)
         IN /\ IsMd(md)
            /\ md.prefills = 0 /\ md.decodes = n /\ md.specs = 0 /\ md.size = n
            /\ md.specTokens = 0 /\ md.specState = <<>> /\ md.specMask = <<>> /\ md.accepted = <<>>
            /\ md.specTok = <<>> /\ md.specStart = <<>> /\ md.tok = <<>>
            /\ md.state = View(new.state, n) /\ md.start = View(new.start, n + 1)
            /\ md.prefillStart = <<>> /\ md.prefillState = <<>> /\ md.prefillStarted = <<>>
<1> DEFINE old == DecMd(rows, states)
<1>1. /\ IsMd(old)
      /\ old.prefills = 0 /\ old.decodes = Len(rows) /\ old.specs = 0 /\ old.size = Len(rows)
      /\ old.specTokens = 0 /\ old.specState = <<>> /\ old.specMask = <<>> /\ old.accepted = <<>>
      /\ old.specTok = <<>> /\ old.specStart = <<>> /\ old.tok = <<>>
      /\ old.prefillStart = <<>> /\ old.prefillState = <<>> /\ old.prefillStarted = <<>>
  BY DecMdFields
<1>2. IsMd(DecView(new, rows, states)) BY <1>1, ExceptMd DEF DecView
<1>3. DOMAIN old = MdFields BY <1>1 DEF IsMd
<1> HIDE DEF old
<1>4. DecView(new, rows, states)
        = [old EXCEPT !.usedDecode = TRUE, !.state = View(new.state, Len(rows)),
                      !.start = View(new.start, Len(rows) + 1)]
  BY Zenon DEF DecView, old
<1> QED BY <1>1, <1>2, <1>3, <1>4 DEF MdFields

LEMMA DecViewFlags ==
  ASSUME NEW new, NEW rows, NEW states
  PROVE  DecView(new, rows, states).usedSpec = FALSE
         /\ DecView(new, rows, states).usedDecode = TRUE
<1>1. IsMd(DecMd(rows, states)) BY DecMdFields
<1>2. DOMAIN DecMd(rows, states) = MdFields BY <1>1 DEF IsMd
<1> QED BY <1>2, DecMdFlags DEF DecView, MdFields

(* Buffers keep their shapes. *)
LEMMA SpecBufTyped ==
  ASSUME ConfInv, NEW rows, NEW m, NEW states, NEW buf, Buffers(buf)
  PROVE  Buffers(SpecBuf(buf, rows, m, states))
<1>1. size.bs \in Nat /\ size.bs + 1 \in Nat /\ size.bs * (num_spec + 1) \in Nat BY Conf
<1>2. IsBuf(buf) BY DEF Buffers
<1> DEFINE new == SpecBuf(buf, rows, m, states)
<1>3. IsBuf(new) /\ new.state = buf.state /\ new.start = buf.start BY <1>2, SpecBufFields
<1>4. IsTensor(new.specState, size.bs) /\ IsTensor(new.specMask, size.bs)
  BY <1>1, <1>2, SpecBufFields, CopyTyped DEF Buffers
<1>5. IsTensor(new.specTok, size.bs * (num_spec + 1)) /\ IsTensor(new.tok, size.bs * (num_spec + 1))
  <2> DEFINE L == size.bs * (num_spec + 1)
  <2>1. L \in Nat /\ IsTensor(buf.specTok, L) /\ IsTensor(buf.tok, L) BY <1>1 DEF Buffers
  <2>2. new.specTok = CopyInto(buf.specTok, Tokens(rows)) /\ new.tok = CopyInto(buf.tok, <<>>)
    BY <1>2, SpecBufFields
  <2> HIDE DEF L, new
  <2>3. \A vals : IsTensor(CopyInto(buf.specTok, vals), L) /\ IsTensor(CopyInto(buf.tok, vals), L)
    BY <2>1, CopyTyped
  <2>4. IsTensor(new.specTok, L) /\ IsTensor(new.tok, L) BY <2>2, <2>3
  <2> QED BY <2>4 DEF L
<1>6. IsTensor(new.specStart, size.bs + 1) /\ IsTensor(new.accepted, size.bs)
  BY <1>1, <1>2, SpecBufFields, CopyTyped DEF Buffers
<1> HIDE DEF new
<1>7. Buffers(new) BY <1>3, <1>4, <1>5, <1>6 DEF Buffers
<1> QED BY <1>7 DEF new

LEMMA DecBufTyped ==
  ASSUME ConfInv, NEW rows, NEW states, NEW buf, Buffers(buf)
  PROVE  Buffers(DecBuf(buf, rows, states))
<1>1. size.bs \in Nat /\ size.bs + 1 \in Nat BY Conf
<1>2. IsBuf(buf) BY DEF Buffers
<1> DEFINE new == DecBuf(buf, rows, states)
<1>3. /\ IsBuf(new) /\ new.specState = buf.specState /\ new.specMask = buf.specMask
      /\ new.specTok = buf.specTok /\ new.tok = buf.tok
      /\ new.specStart = buf.specStart /\ new.accepted = buf.accepted
  BY <1>2, DecBufFields
<1>4. IsTensor(new.state, size.bs) /\ IsTensor(new.start, size.bs + 1)
  BY <1>1, <1>2, DecBufFields, CopyTyped DEF Buffers
<1> HIDE DEF new
<1>5. Buffers(new) BY <1>3, <1>4 DEF Buffers
<1> QED BY <1>5 DEF new

LEMMA BuiltTyped ==
  ASSUME ConfInv, NEW rows, NEW m, BatchOf(rows, m), NEW g, NEW buf, Buffers(buf)
  PROVE  Buffers(Built(g, rows, buf).buf)
<1>1. CASE DraftsOnly(rows) BY <1>1, BuiltSpec, SpecBufTyped
<1>2. CASE DecodesOnly(rows) BY <1>2, BuiltDec, DecBufTyped
<1>3. CASE Counts(rows).prefills # 0 BY <1>3, BuiltMixed
<1> QED BY <1>1, <1>2, <1>3 DEF DraftsOnly, DecodesOnly
-----------------------------------------------------------------------------
(* Taking over another group's metadata is building it again *)

LEMMA SpecTensors ==
  ASSUME NEW rows, NEW m, BatchOf(rows, m), DraftsOnly(rows)
  PROVE  /\ Len(SubSeq(MaskOf(rows), 1, m)) = m /\ Len(AcceptedOf(rows)) = m
         /\ Len(Tokens(rows)) = NumTokens(rows) /\ NumTokens(rows) \in Nat
         /\ FrontStarts(rows, m) = [i \in 1 .. m + 1 |-> Sums(Lens(rows))[i - 1]]
         /\ Len(FrontStarts(rows, m)) = m + 1
<1>1. m \in Nat \ {0} /\ Len(rows) \in Nat /\ m <= Len(rows) /\ DOMAIN rows = 1 .. Len(rows)
  BY BatchRows
<1>2. Len(SubSeq(MaskOf(rows), 1, m)) = m
  <2> DEFINE v(i) == IsSpec(rows[i])
             n == Len(rows)
  <2>1. MaskOf(rows) = [i \in 1 .. n |-> v(i)] BY <1>1 DEF MaskOf
  <2> HIDE DEF v, n
  <2>2. n \in Nat /\ m <= n BY <1>1 DEF n
  <2>3. SubSeq([i \in 1 .. n |-> v(i)], 1, m) = [i \in 1 .. m |-> [j \in 1 .. n |-> v(j)][1 + i - 1]]
    BY <1>1, <2>2
  <2> QED BY <1>1, <2>1, <2>3
<1>3. DOMAIN SpecRows(rows) = 1 .. m BY <1>1, DraftsFirst
<1>4. Len(AcceptedOf(rows)) = m BY <1>1, <1>3 DEF AcceptedOf
<1>5. NumTokens(rows) \in Nat BY RowSums DEF BatchOf
<1>6. Len(Tokens(rows)) = NumTokens(rows)
  <2> DEFINE k == NumTokens(rows)
  <2> HIDE DEF k
  <2>1. k \in Nat BY <1>5 DEF k
  <2>2. Len([t \in 1 .. k |-> t - 1]) = k BY <2>1
  <2> QED BY <2>2 DEF k, Tokens
<1>7. FrontStarts(rows, m) = [i \in 1 .. m + 1 |-> Sums(Lens(rows))[i - 1]]
  <2> DEFINE f == Sums(Lens(rows))
             n == Len(rows)
  <2>1. Len(Lens(rows)) = n BY LensAre DEF BatchOf
  <2> HIDE DEF f, n
  <2>2. n \in Nat /\ m <= n BY <1>1 DEF n
  <2>3. Starts(Lens(rows)) = [i \in 1 .. n + 1 |-> f[i - 1]] BY <2>1 DEF Starts, f
  <2>4. SubSeq([i \in 1 .. n + 1 |-> f[i - 1]], 1, m + 1) = [i \in 1 .. m + 1 |-> f[i - 1]]
    BY <1>1, <2>2
  <2> QED BY <2>3, <2>4 DEF FrontStarts, f
<1>8. Len(FrontStarts(rows, m)) = m + 1
  <2> DEFINE f(i) == Sums(Lens(rows))[i - 1]
  <2> HIDE DEF f
  <2>1. Len([i \in 1 .. m + 1 |-> f(i)]) = m + 1 BY <1>1
  <2> QED BY <1>7, <2>1 DEF f
<1> QED BY <1>2, <1>4, <1>5, <1>6, <1>7, <1>8

LEMMA TableFront ==
  ASSUME NEW rows, NEW m, BatchOf(rows, m), DraftsOnly(rows), NEW g
  PROVE  /\ SubSeq(BlockTable(g, rows), 1, m) = BlockTable(g, SpecRows(rows))
         /\ Len(BlockTable(g, SpecRows(rows))) = m
<1> DEFINE n == Len(rows)
           v(i) == BlockRow(g, rows[i])
           t == BlockTable(g, SpecRows(rows))
<1>1. m \in Nat \ {0} /\ n \in Nat /\ m <= n /\ DOMAIN rows = 1 .. n BY BatchRows
<1>2. SpecRows(rows) = [k \in 1 .. m |-> rows[k]] BY DraftsFirst
<1>3. BlockTable(g, rows) = [i \in 1 .. n |-> v(i)] BY <1>1 DEF BlockTable
<1>4. t = [i \in 1 .. m |-> v(i)] BY <1>2 DEF BlockTable
<1> HIDE DEF n, v, t
<1>5. SubSeq([i \in 1 .. n |-> v(i)], 1, m) = [i \in 1 .. m |-> v(i)] BY <1>1
<1>6. Len([i \in 1 .. m |-> v(i)]) = m BY <1>1
<1>7. SubSeq(BlockTable(g, rows), 1, m) = t /\ Len(t) = m BY <1>3, <1>4, <1>5, <1>6
<1> QED BY <1>7 DEF t

LEMMA MirroredFields ==
  ASSUME NEW g, NEW rows, NEW md, NEW buf, IsBuf(buf)
  PROVE  LET new == MirroredSpec(g, rows, md, buf)
         IN /\ IsBuf(new)
            /\ new.specState = CopyAndFill(buf.specState, SubSeq(BlockTable(g, rows), 1, md.specs),
                                           md.size, NullRow)
            /\ new.specMask = CopyInto(buf.specMask, md.specMask)
            /\ new.tok = CopyInto(buf.tok, md.tok) /\ new.specTok = CopyInto(buf.specTok, md.specTok)
            /\ new.specStart = CopyInto(buf.specStart, md.specStart)
            /\ new.accepted = CopyInto(buf.accepted, md.accepted)
            /\ new.state = buf.state /\ new.start = buf.start
<1>1. IsBuf(MirroredSpec(g, rows, md, buf)) BY ExceptBuf DEF MirroredSpec
<1>2. DOMAIN buf = BufFields BY DEF IsBuf
<1> QED BY <1>1, <1>2 DEF MirroredSpec, BufFields, NullRow

LEMMA MirroredIsBuilt ==
  ASSUME ConfInv, NEW rows, NEW m, BatchOf(rows, m), DraftsOnly(rows), NEW g, NEW st,
         NEW a, Buffers(a), NEW b, Buffers(b)
  PROVE  MirroredSpec(g, rows, SpecView(SpecBuf(a, rows, m, st), rows, m, st), b)
           = SpecBuf(b, rows, m, BlockTable(g, SpecRows(rows)))
<1> DEFINE n == Len(rows)
           old == SpecBuf(a, rows, m, st)
           md == SpecView(old, rows, m, st)
           x == MirroredSpec(g, rows, md, b)
           y == SpecBuf(b, rows, m, BlockTable(g, SpecRows(rows)))
           mask == SubSeq(MaskOf(rows), 1, m)
           starts == FrontStarts(rows, m)
           L == size.bs * (num_spec + 1)
           S == size.bs
           acc == AcceptedOf(rows)
           tok == Tokens(rows)
<1>1. IsBuf(a) /\ IsBuf(b) BY DEF Buffers
<1>2. S \in Nat /\ L \in Nat BY Conf
<1>3. n \in Nat /\ m \in Nat /\ m <= n BY BatchRows
<1>4. Len(mask) = m /\ Len(acc) = m /\ Len(tok) \in Nat /\ Len(starts) = m + 1 BY SpecTensors
<1>5. /\ IsTensor(a.specMask, S) /\ IsTensor(b.specMask, S) /\ IsTensor(a.accepted, S)
      /\ IsTensor(b.accepted, S) /\ IsTensor(a.specStart, S + 1) /\ IsTensor(b.specStart, S + 1)
      /\ IsTensor(a.specTok, L) /\ IsTensor(b.specTok, L) /\ IsTensor(a.tok, L) /\ IsTensor(b.tok, L)
  BY DEF Buffers
<1>6. SubSeq(BlockTable(g, rows), 1, m) = BlockTable(g, SpecRows(rows)) BY TableFront
<1>7. /\ md.specs = m /\ md.size = n /\ md.specMask = View(old.specMask, n)
      /\ md.accepted = View(old.accepted, n) /\ md.specTok = View(old.specTok, Len(tok))
      /\ md.specStart = View(old.specStart, n + 1) /\ md.tok = View(old.tok, 0)
  <2> HIDE DEF old
  <2> QED BY SpecViewFields
<1>8. /\ old.specMask = CopyAndFill(a.specMask, mask, n, NotSpec)
      /\ old.tok = CopyInto(a.tok, <<>>) /\ old.specTok = CopyInto(a.specTok, tok)
      /\ old.specStart = CopyAndFill(a.specStart, starts, n + 1, Last(starts))
      /\ old.accepted = CopyAndFill(a.accepted, acc, n, 1)
  BY <1>1, SpecBufFields
<1>9. /\ IsBuf(y)
      /\ y.specState = CopyAndFill(b.specState, BlockTable(g, SpecRows(rows)), n, NullRow)
      /\ y.specMask = CopyAndFill(b.specMask, mask, n, NotSpec)
      /\ y.tok = CopyInto(b.tok, <<>>) /\ y.specTok = CopyInto(b.specTok, tok)
      /\ y.specStart = CopyAndFill(b.specStart, starts, n + 1, Last(starts))
      /\ y.accepted = CopyAndFill(b.accepted, acc, n, 1)
      /\ y.state = b.state /\ y.start = b.start
  BY <1>1, SpecBufFields
<1> HIDE DEF md
<1>10. /\ IsBuf(x)
       /\ x.specState = CopyAndFill(b.specState, SubSeq(BlockTable(g, rows), 1, md.specs), md.size, NullRow)
       /\ x.specMask = CopyInto(b.specMask, md.specMask)
       /\ x.tok = CopyInto(b.tok, md.tok) /\ x.specTok = CopyInto(b.specTok, md.specTok)
       /\ x.specStart = CopyInto(b.specStart, md.specStart)
       /\ x.accepted = CopyInto(b.accepted, md.accepted)
       /\ x.state = b.state /\ x.start = b.start
  BY <1>1, MirroredFields
<1> HIDE DEF x, y, old, n, mask, starts, acc, tok, L, S
<1>11. x.specState = y.specState BY <1>6, <1>7, <1>9, <1>10
<1>12. x.specMask = y.specMask
  <2> DEFINE v == NotSpec
             p == a.specMask
             r == b.specMask
  <2>1. IsTensor(p, S) /\ IsTensor(r, S) /\ Len(mask) \in Nat /\ Len(mask) <= n BY <1>3, <1>4, <1>5
  <2>2. x.specMask = CopyInto(r, View(CopyAndFill(p, mask, n, v), n)) BY <1>7, <1>8, <1>10, Zenon
  <2>3. y.specMask = CopyAndFill(r, mask, n, v) BY <1>9, Zenon
  <2> HIDE DEF v, p, r
  <2>4. CopyInto(r, View(CopyAndFill(p, mask, n, v), n)) = CopyAndFill(r, mask, n, v)
    BY ONLY <1>2, <1>3, <2>1, CopyOfFill
  <2> QED BY ONLY <2>2, <2>3, <2>4, Zenon
<1>13. x.accepted = y.accepted
  <2>0. /\ IsTensor(a.accepted, S) /\ IsTensor(b.accepted, S) /\ S \in Nat /\ n \in Nat
        /\ Len(acc) \in Nat /\ Len(acc) <= n
    BY <1>2, <1>3, <1>4, <1>5
  <2>1. CopyInto(b.accepted, View(CopyAndFill(a.accepted, acc, n, 1), n))
          = CopyAndFill(b.accepted, acc, n, 1)
    BY ONLY <2>0, CopyOfFill
  <2> QED BY <1>7, <1>8, <1>9, <1>10, <2>1, Zenon
<1>14. x.specStart = y.specStart
  <2> DEFINE v == Last(starts)
             k == n + 1
  <2>1. k \in Nat /\ Len(starts) \in Nat /\ Len(starts) <= k /\ S + 1 \in Nat BY <1>2, <1>3, <1>4
  <2>2. x.specStart = CopyInto(b.specStart, View(CopyAndFill(a.specStart, starts, k, v), k))
    BY <1>7, <1>8, <1>10, Zenon
  <2>3. y.specStart = CopyAndFill(b.specStart, starts, k, v) BY <1>9, Zenon
  <2> HIDE DEF v, k
  <2>4. CopyInto(b.specStart, View(CopyAndFill(a.specStart, starts, k, v), k))
          = CopyAndFill(b.specStart, starts, k, v)
    BY <1>5, <2>1, CopyOfFill
  <2> QED BY <2>2, <2>3, <2>4
<1>15. x.specTok = y.specTok
  <2>1. CopyInto(b.specTok, View(CopyInto(a.specTok, tok), Len(tok))) = CopyInto(b.specTok, tok)
    BY <1>2, <1>4, <1>5, CopyOfCopy
  <2> QED BY <1>7, <1>8, <1>9, <1>10, <2>1, Zenon
<1>16. x.tok = y.tok
  <2> DEFINE e == <<>>
  <2>1. Len(e) = 0 OBVIOUS
  <2>2. x.tok = CopyInto(b.tok, View(CopyInto(a.tok, e), Len(e))) BY <1>7, <1>8, <1>10, <2>1
  <2>3. y.tok = CopyInto(b.tok, e) BY <1>9
  <2> HIDE DEF e
  <2>4. CopyInto(b.tok, View(CopyInto(a.tok, e), Len(e))) = CopyInto(b.tok, e)
    BY <1>2, <1>5, <2>1, CopyOfCopy
  <2> QED BY <2>2, <2>3, <2>4
<1>17. x.state = y.state /\ x.start = y.start BY <1>9, <1>10
<1>18. x = y BY <1>9, <1>10, <1>11, <1>12, <1>13, <1>14, <1>15, <1>16, <1>17, SameBuf
<1> QED BY <1>18 DEF x, y, md, old

LEMMA UpdatedIs ==
  ASSUME NEW g, NEW rows, NEW md, NEW buf
  PROVE  /\ NeedsBuild(md) => Updated(g, rows, md, buf) = Built(g, rows, buf)
         /\ ~NeedsBuild(md) /\ md.specs > 0 /\ ~md.usedSpec =>
              Updated(g, rows, md, buf)
                = [buf |-> buf,
                   md |-> [md EXCEPT !.specState = SubSeq(BlockTable(g, rows), 1, md.specs)]]
         /\ ~NeedsBuild(md) /\ md.specs = 0 /\ ~md.usedDecode =>
              Updated(g, rows, md, buf)
                = [buf |-> buf, md |-> [md EXCEPT !.state = FirstColumn(BlockTable(g, rows))]]
<1>1. NeedsBuild(md) => Updated(g, rows, md, buf) = Built(g, rows, buf) BY DEF Updated
<1>2. ~NeedsBuild(md) /\ md.specs > 0 /\ ~md.usedSpec =>
        Updated(g, rows, md, buf)
          = [buf |-> buf,
             md |-> [md EXCEPT !.specState = SubSeq(BlockTable(g, rows), 1, md.specs)]]
  BY DEF Updated
<1>3. ~NeedsBuild(md) /\ md.specs = 0 /\ ~md.usedDecode =>
        Updated(g, rows, md, buf)
          = [buf |-> buf, md |-> [md EXCEPT !.state = FirstColumn(BlockTable(g, rows))]]
  BY DEF Updated
<1> QED BY <1>1, <1>2, <1>3

LEMMA UpdatedSpec ==
  ASSUME ConfInv, NEW rows, NEW m, BatchOf(rows, m), DraftsOnly(rows), NEW h, NEW g,
         NEW a, Buffers(a), NEW b, Buffers(b)
  PROVE  Updated(g, rows, Built(h, rows, a).md, b) = Built(g, rows, b)
<1> DEFINE n == Len(rows)
           st == BlockTable(h, SpecRows(rows))
           sg == BlockTable(g, SpecRows(rows))
<1>1. n \in Nat /\ m \in Nat \ {0} /\ m <= n BY BatchRows
<1>2. SubSeq(BlockTable(g, rows), 1, m) = sg BY TableFront
<1>3. CASE SpecFits(rows, m)
  <2> DEFINE old == SpecBuf(a, rows, m, st)
             md == SpecView(old, rows, m, st)
             y == SpecBuf(b, rows, m, sg)
             v == SpecView(y, rows, m, sg)
             tok == Tokens(rows)
             L == size.bs * (num_spec + 1)
             S == size.bs
             u == [md EXCEPT !.specState = View(y.specState, md.size),
                             !.specMask = View(y.specMask, Len(md.specMask)),
                             !.specTok = View(y.specTok, Len(md.specTok)),
                             !.tok = View(y.tok, Len(md.tok)),
                             !.specStart = View(y.specStart, Len(md.specStart)),
                             !.accepted = View(y.accepted, Len(md.accepted))]
  <2>1. Built(h, rows, a) = [buf |-> old, md |-> md] BY <1>3, BuiltSpec, Zenon
  <2>2. Built(g, rows, b) = [buf |-> y, md |-> v] BY <1>3, BuiltSpec, Zenon
  <2>3. MirroredSpec(g, rows, md, b) = y BY MirroredIsBuilt
  <2>4. Buffers(old) /\ Buffers(y) BY SpecBufTyped
  <2> HIDE DEF old, y, st, sg
  <2>5. /\ IsMd(md)
        /\ md.prefills = 0 /\ md.decodes = 0 /\ md.specs = m /\ md.size = n
        /\ md.specTokens = NumTokens(SpecRows(rows))
        /\ md.specMask = View(old.specMask, n) /\ md.accepted = View(old.accepted, n)
        /\ md.specTok = View(old.specTok, Len(tok))
        /\ md.specStart = View(old.specStart, n + 1) /\ md.tok = View(old.tok, 0)
        /\ md.state = <<>> /\ md.start = <<>>
        /\ md.prefillStart = <<>> /\ md.prefillState = <<>> /\ md.prefillStarted = <<>>
    BY SpecViewFields
  <2>6. md.usedSpec = TRUE /\ md.usedDecode = FALSE BY SpecViewFlags, Zenon
  <2>7. /\ IsMd(v)
        /\ v.prefills = 0 /\ v.decodes = 0 /\ v.specs = m /\ v.size = n
        /\ v.specTokens = NumTokens(SpecRows(rows)) /\ v.specState = View(y.specState, n)
        /\ v.specMask = View(y.specMask, n) /\ v.accepted = View(y.accepted, n)
        /\ v.specTok = View(y.specTok, Len(tok))
        /\ v.specStart = View(y.specStart, n + 1) /\ v.tok = View(y.tok, 0)
        /\ v.state = <<>> /\ v.start = <<>>
        /\ v.prefillStart = <<>> /\ v.prefillState = <<>> /\ v.prefillStarted = <<>>
    BY SpecViewFields
  <2>8. v.usedSpec = TRUE /\ v.usedDecode = FALSE BY SpecViewFlags, Zenon
  <2>9. S \in Nat /\ L \in Nat /\ S + 1 \in Nat /\ n + 1 \in Nat /\ 0 \in Nat
    <3>1. S \in Nat /\ num_spec + 1 \in Nat BY Conf
    <3>2. L \in Nat BY ONLY <3>1
    <3> QED BY <1>1, <3>1, <3>2
  <2>10. /\ IsTensor(old.specMask, S) /\ IsTensor(y.specMask, S) /\ IsTensor(old.accepted, S)
         /\ IsTensor(y.accepted, S) /\ IsTensor(old.specStart, S + 1) /\ IsTensor(y.specStart, S + 1)
         /\ IsTensor(old.specTok, L) /\ IsTensor(y.specTok, L) /\ IsTensor(old.tok, L)
         /\ IsTensor(y.tok, L)
    BY <2>4 DEF Buffers
  <2>11. Len(tok) \in Nat BY SpecTensors
  <2> HIDE DEF md, v, L, S, tok, n
  <2>12. View(y.specMask, Len(md.specMask)) = v.specMask BY <1>1, <2>5, <2>7, <2>9, <2>10, ViewSame
  <2>13. View(y.accepted, Len(md.accepted)) = v.accepted BY <1>1, <2>5, <2>7, <2>9, <2>10, ViewSame
  <2>14. View(y.specTok, Len(md.specTok)) = v.specTok BY <2>5, <2>7, <2>9, <2>10, <2>11, ViewSame
  <2>15. View(y.tok, Len(md.tok)) = v.tok BY <2>5, <2>7, <2>9, <2>10, ViewSame
  <2>16. View(y.specStart, Len(md.specStart)) = v.specStart
    <3> DEFINE k == n + 1
               M == S + 1
    <3>1. k \in Nat /\ M \in Nat /\ IsTensor(old.specStart, M) /\ IsTensor(y.specStart, M)
      BY <2>9, <2>10
    <3>2. md.specStart = View(old.specStart, k) /\ v.specStart = View(y.specStart, k) BY <2>5, <2>7
    <3> HIDE DEF k, M
    <3> QED BY <3>1, <3>2, ViewSame
  <2>17. DOMAIN md = MdFields BY <2>5 DEF IsMd
  <2>18. IsMd(u) BY <2>5, ExceptMd
  <2>19. /\ u.specState = v.specState /\ u.specMask = v.specMask /\ u.specTok = v.specTok
         /\ u.tok = v.tok /\ u.specStart = v.specStart /\ u.accepted = v.accepted
    BY <2>5, <2>7, <2>12, <2>13, <2>14, <2>15, <2>16, <2>17 DEF MdFields
  <2>20. /\ u.prefills = v.prefills /\ u.decodes = v.decodes /\ u.specs = v.specs
         /\ u.specTokens = v.specTokens /\ u.state = v.state /\ u.start = v.start
         /\ u.prefillStart = v.prefillStart /\ u.prefillState = v.prefillState
         /\ u.prefillStarted = v.prefillStarted /\ u.size = v.size
    BY <2>5, <2>7
  <2>21. u.usedSpec = v.usedSpec /\ u.usedDecode = v.usedDecode
    <3>1. u.usedSpec = md.usedSpec /\ u.usedDecode = md.usedDecode OBVIOUS
    <3> HIDE DEF u
    <3> QED BY <2>6, <2>8, <3>1, Zenon
  <2>22. u = v
    <3> HIDE DEF u
    <3> QED BY <2>7, <2>18, <2>19, <2>20, <2>21, SameMd
  <2>23. ~NeedsBuild(md) /\ md.specs > 0 BY <1>1, <2>5 DEF NeedsBuild
  <2>24. md.usedSpec BY <2>6
  <2>25. Updated(g, rows, md, b) = [buf |-> y, md |-> u]
    BY <2>3, <2>23, <2>24 DEF Updated, u
  <2> QED BY <2>1, <2>2, <2>22, <2>25
<1>4. CASE ~SpecFits(rows, m)
  <2> DEFINE md == SpecMd(rows, m, st)
             v == SpecMd(rows, m, sg)
             u == [md EXCEPT !.specState = sg]
  <2>1. Built(h, rows, a) = [buf |-> a, md |-> md] BY <1>4, BuiltSpec, Zenon
  <2>2. Built(g, rows, b) = [buf |-> b, md |-> v] BY <1>4, BuiltSpec, Zenon
  <2> HIDE DEF st, sg
  <2>3. /\ IsMd(md)
        /\ md.prefills = 0 /\ md.decodes = 0 /\ md.specs = m /\ md.size = Len(rows)
        /\ md.specTokens = NumTokens(SpecRows(rows))
        /\ md.specMask = MaskOf(rows) /\ md.accepted = AcceptedOf(rows)
        /\ md.specTok = Tokens(rows) /\ md.specStart = FrontStarts(rows, m)
        /\ md.tok = <<>> /\ md.state = <<>> /\ md.start = <<>>
        /\ md.prefillStart = <<>> /\ md.prefillState = <<>> /\ md.prefillStarted = <<>>
    BY SpecMdFields
  <2>4. /\ IsMd(v)
        /\ v.prefills = 0 /\ v.decodes = 0 /\ v.specs = m /\ v.size = Len(rows)
        /\ v.specTokens = NumTokens(SpecRows(rows)) /\ v.specState = sg
        /\ v.specMask = MaskOf(rows) /\ v.accepted = AcceptedOf(rows)
        /\ v.specTok = Tokens(rows) /\ v.specStart = FrontStarts(rows, m)
        /\ v.tok = <<>> /\ v.state = <<>> /\ v.start = <<>>
        /\ v.prefillStart = <<>> /\ v.prefillState = <<>> /\ v.prefillStarted = <<>>
    BY SpecMdFields
  <2>5. /\ md.usedSpec = FALSE /\ md.usedDecode = FALSE
        /\ v.usedSpec = FALSE /\ v.usedDecode = FALSE
    BY SpecMdFlags, Zenon
  <2> HIDE DEF md, v
  <2>6. DOMAIN md = MdFields BY <2>3 DEF IsMd
  <2>7. IsMd(u) BY <2>3, ExceptMd
  <2>8. /\ u.specState = v.specState /\ u.specMask = v.specMask /\ u.specTok = v.specTok
        /\ u.tok = v.tok /\ u.specStart = v.specStart /\ u.accepted = v.accepted
    BY <2>3, <2>4, <2>6 DEF MdFields
  <2>9. /\ u.prefills = v.prefills /\ u.decodes = v.decodes /\ u.specs = v.specs
        /\ u.specTokens = v.specTokens /\ u.state = v.state /\ u.start = v.start
        /\ u.prefillStart = v.prefillStart /\ u.prefillState = v.prefillState
        /\ u.prefillStarted = v.prefillStarted /\ u.size = v.size
    BY <2>3, <2>4
  <2>10. u.usedSpec = v.usedSpec /\ u.usedDecode = v.usedDecode
    <3>1. u.usedSpec = md.usedSpec /\ u.usedDecode = md.usedDecode OBVIOUS
    <3> HIDE DEF u
    <3> QED BY <2>5, <3>1, Zenon
  <2>11. u = v
    <3> HIDE DEF u
    <3> QED BY <2>4, <2>7, <2>8, <2>9, <2>10, SameMd
  <2>12. ~NeedsBuild(md) /\ md.specs > 0 /\ md.specs = m BY <1>1, <2>3 DEF NeedsBuild
  <2>13. ~md.usedSpec BY <2>5
  <2>14. Updated(g, rows, md, b) = [buf |-> b, md |-> u]
    <3>1. Updated(g, rows, md, b)
            = [buf |-> b, md |-> [md EXCEPT !.specState = SubSeq(BlockTable(g, rows), 1, md.specs)]]
      BY <2>12, <2>13, UpdatedIs
    <3>2. SubSeq(BlockTable(g, rows), 1, md.specs) = sg BY <1>2, <2>12 DEF sg
    <3> QED BY <3>1, <3>2
  <2> QED BY <2>1, <2>2, <2>11, <2>14
<1> QED BY <1>3, <1>4

LEMMA DecTensors ==
  ASSUME NEW rows, NEW m, BatchOf(rows, m), NEW g
  PROVE  LET n == Len(rows)
             states == FirstColumn(BlockTable(g, rows))
             starts == Starts(Lens(rows))
         IN /\ SubSeq(states, 1, n) = states /\ Len(states) = n
            /\ states = [i \in 1 .. n |-> BlockRow(g, rows[i])[1]]
            /\ SubSeq(starts, 1, n + 1) = starts /\ Len(starts) = n + 1
            /\ starts = [i \in 1 .. n + 1 |-> Sums(Lens(rows))[i - 1]]
<1> DEFINE n == Len(rows)
           states == FirstColumn(BlockTable(g, rows))
           starts == Starts(Lens(rows))
           v(i) == BlockRow(g, rows[i])[1]
           f(i) == Sums(Lens(rows))[i - 1]
<1>1. n \in Nat /\ DOMAIN rows = 1 .. n BY BatchRows
<1>2. states = [i \in 1 .. n |-> v(i)] BY <1>1 DEF FirstColumn, BlockTable
<1>3. Len(Lens(rows)) = n BY LensAre DEF BatchOf
<1>4. starts = [i \in 1 .. n + 1 |-> f(i)] BY <1>3 DEF Starts
<1> HIDE DEF n, states, starts, v, f
<1>5. SubSeq([i \in 1 .. n |-> v(i)], 1, n) = [i \in 1 .. n |-> v(i)] BY <1>1
<1>6. Len([i \in 1 .. n |-> v(i)]) = n BY <1>1
<1>7. SubSeq([i \in 1 .. n + 1 |-> f(i)], 1, n + 1) = [i \in 1 .. n + 1 |-> f(i)] BY <1>1
<1>8. Len([i \in 1 .. n + 1 |-> f(i)]) = n + 1 BY <1>1
<1>9. SubSeq(states, 1, n) = states /\ Len(states) = n BY <1>2, <1>5, <1>6
<1>10. SubSeq(starts, 1, n + 1) = starts /\ Len(starts) = n + 1 BY <1>4, <1>7, <1>8
<1> QED BY <1>2, <1>4, <1>9, <1>10 DEF n, states, starts, v, f

LEMMA MirroredDecFields ==
  ASSUME NEW g, NEW rows, NEW md, NEW buf, IsBuf(buf)
  PROVE  LET new == MirroredDecode(g, rows, md, buf)
         IN /\ IsBuf(new)
            /\ new.state = CopyAndFill(buf.state, SubSeq(FirstColumn(BlockTable(g, rows)), 1, md.decodes),
                                       md.size, NULL_BLOCK)
            /\ new.start = CopyInto(buf.start, md.start)
            /\ new.specState = buf.specState /\ new.specMask = buf.specMask
            /\ new.specTok = buf.specTok /\ new.tok = buf.tok
            /\ new.specStart = buf.specStart /\ new.accepted = buf.accepted
<1>1. IsBuf(MirroredDecode(g, rows, md, buf)) BY ExceptBuf DEF MirroredDecode
<1>2. DOMAIN buf = BufFields BY DEF IsBuf
<1> QED BY <1>1, <1>2 DEF MirroredDecode, BufFields

LEMMA MirroredDecIsBuilt ==
  ASSUME ConfInv, NEW rows, NEW m, BatchOf(rows, m), DecodesOnly(rows), NEW g, NEW h,
         NEW a, Buffers(a), NEW b, Buffers(b)
  PROVE  LET st == FirstColumn(BlockTable(h, rows))
         IN MirroredDecode(g, rows, DecView(DecBuf(a, rows, st), rows, st), b)
              = DecBuf(b, rows, FirstColumn(BlockTable(g, rows)))
<1> DEFINE n == Len(rows)
           st == FirstColumn(BlockTable(h, rows))
           sg == FirstColumn(BlockTable(g, rows))
           old == DecBuf(a, rows, st)
           md == DecView(old, rows, st)
           x == MirroredDecode(g, rows, md, b)
           y == DecBuf(b, rows, sg)
           starts == Starts(Lens(rows))
           S == size.bs
           k == n + 1
           v == Last(starts)
<1>1. IsBuf(a) /\ IsBuf(b) BY DEF Buffers
<1>2. S + 1 \in Nat /\ n \in Nat /\ k \in Nat BY Conf, BatchRows
<1>3. /\ SubSeq(starts, 1, k) = starts /\ Len(starts) = k BY DecTensors
<1>4. IsTensor(a.start, S + 1) /\ IsTensor(b.start, S + 1) BY DEF Buffers
<1>5. md.decodes = n /\ md.size = n /\ md.start = View(old.start, k)
  <2> HIDE DEF old
  <2> QED BY DecViewFields
<1>6. old.start = CopyAndFill(a.start, SubSeq(starts, 1, k), k, v) BY <1>1, DecBufFields
<1>7. /\ IsBuf(y)
      /\ y.state = CopyAndFill(b.state, SubSeq(sg, 1, n), n, NULL_BLOCK)
      /\ y.start = CopyAndFill(b.start, SubSeq(starts, 1, k), k, v)
      /\ y.specState = b.specState /\ y.specMask = b.specMask
      /\ y.specTok = b.specTok /\ y.tok = b.tok
      /\ y.specStart = b.specStart /\ y.accepted = b.accepted
  BY <1>1, DecBufFields
<1> HIDE DEF md
<1>8. /\ IsBuf(x)
      /\ x.state = CopyAndFill(b.state, SubSeq(sg, 1, md.decodes), md.size, NULL_BLOCK)
      /\ x.start = CopyInto(b.start, md.start)
      /\ x.specState = b.specState /\ x.specMask = b.specMask
      /\ x.specTok = b.specTok /\ x.tok = b.tok
      /\ x.specStart = b.specStart /\ x.accepted = b.accepted
  BY <1>1, MirroredDecFields
<1> HIDE DEF x, y, old, n, k, v, st, sg, starts, S
<1>9. x.state = y.state BY <1>5, <1>7, <1>8
<1>10. x.start = y.start
  <2> DEFINE M == S + 1
  <2>1. M \in Nat /\ IsTensor(a.start, M) /\ IsTensor(b.start, M) BY <1>2, <1>4
  <2> HIDE DEF M
  <2>2. CopyInto(b.start, View(CopyAndFill(a.start, starts, k, v), k)) = CopyAndFill(b.start, starts, k, v)
    BY <1>2, <1>3, <2>1, CopyOfFill
  <2> QED BY <1>3, <1>5, <1>6, <1>7, <1>8, <2>2
<1>11. x = y BY <1>7, <1>8, <1>9, <1>10, SameBuf
<1> QED BY <1>11 DEF x, y, md, old, st, sg

LEMMA UpdatedDec ==
  ASSUME ConfInv, NEW rows, NEW m, BatchOf(rows, m), DecodesOnly(rows), NEW h, NEW g,
         NEW a, Buffers(a), NEW b, Buffers(b)
  PROVE  Updated(g, rows, Built(h, rows, a).md, b) = Built(g, rows, b)
<1> DEFINE n == Len(rows)
           st == FirstColumn(BlockTable(h, rows))
           sg == FirstColumn(BlockTable(g, rows))
<1>1. n \in Nat \ {0} BY BatchRows
<1>2. CASE DecFits(rows)
  <2> DEFINE old == DecBuf(a, rows, st)
             md == DecView(old, rows, st)
             y == DecBuf(b, rows, sg)
             v == DecView(y, rows, sg)
             S == size.bs
             u == [md EXCEPT !.state = View(y.state, md.size), !.start = View(y.start, Len(md.start))]
  <2>1. Built(h, rows, a) = [buf |-> old, md |-> md] BY <1>2, BuiltDec, Zenon
  <2>2. Built(g, rows, b) = [buf |-> y, md |-> v] BY <1>2, BuiltDec, Zenon
  <2>3. MirroredDecode(g, rows, md, b) = y BY MirroredDecIsBuilt
  <2>4. Buffers(old) /\ Buffers(y) BY DecBufTyped
  <2> HIDE DEF old, y, st, sg
  <2>5. /\ IsMd(md)
        /\ md.prefills = 0 /\ md.decodes = n /\ md.specs = 0 /\ md.size = n
        /\ md.specTokens = 0 /\ md.specState = <<>> /\ md.specMask = <<>> /\ md.accepted = <<>>
        /\ md.specTok = <<>> /\ md.specStart = <<>> /\ md.tok = <<>>
        /\ md.start = View(old.start, n + 1)
        /\ md.prefillStart = <<>> /\ md.prefillState = <<>> /\ md.prefillStarted = <<>>
    BY DecViewFields
  <2>6. md.usedSpec = FALSE /\ md.usedDecode = TRUE BY DecViewFlags, Zenon
  <2>7. /\ IsMd(v)
        /\ v.prefills = 0 /\ v.decodes = n /\ v.specs = 0 /\ v.size = n
        /\ v.specTokens = 0 /\ v.specState = <<>> /\ v.specMask = <<>> /\ v.accepted = <<>>
        /\ v.specTok = <<>> /\ v.specStart = <<>> /\ v.tok = <<>>
        /\ v.state = View(y.state, n) /\ v.start = View(y.start, n + 1)
        /\ v.prefillStart = <<>> /\ v.prefillState = <<>> /\ v.prefillStarted = <<>>
    BY DecViewFields
  <2>8. v.usedSpec = FALSE /\ v.usedDecode = TRUE BY DecViewFlags, Zenon
  <2> HIDE DEF md, v, n
  <2>9. View(y.start, Len(md.start)) = v.start
    <3> DEFINE k == n + 1
               M == S + 1
    <3>1. k \in Nat /\ M \in Nat /\ IsTensor(old.start, M) /\ IsTensor(y.start, M)
      BY <1>1, <2>4, Conf DEF Buffers
    <3>2. md.start = View(old.start, k) /\ v.start = View(y.start, k) BY <2>5, <2>7
    <3> HIDE DEF k, M
    <3> QED BY <3>1, <3>2, ViewSame
  <2>10. DOMAIN md = MdFields BY <2>5 DEF IsMd
  <2>11. IsMd(u) BY <2>5, ExceptMd
  <2>12. u.state = v.state /\ u.start = v.start BY <2>5, <2>7, <2>9, <2>10 DEF MdFields
  <2>13. /\ u.specState = v.specState /\ u.specMask = v.specMask /\ u.specTok = v.specTok
         /\ u.tok = v.tok /\ u.specStart = v.specStart /\ u.accepted = v.accepted
         /\ u.prefills = v.prefills /\ u.decodes = v.decodes /\ u.specs = v.specs
         /\ u.specTokens = v.specTokens
         /\ u.prefillStart = v.prefillStart /\ u.prefillState = v.prefillState
         /\ u.prefillStarted = v.prefillStarted /\ u.size = v.size
    BY <2>5, <2>7
  <2>14. u.usedSpec = v.usedSpec /\ u.usedDecode = v.usedDecode
    <3>1. u.usedSpec = md.usedSpec /\ u.usedDecode = md.usedDecode OBVIOUS
    <3> HIDE DEF u
    <3> QED BY <2>6, <2>8, <3>1, Zenon
  <2>15. u = v
    <3> HIDE DEF u
    <3> QED BY <2>7, <2>11, <2>12, <2>13, <2>14, SameMd
  <2>16. ~NeedsBuild(md) /\ md.specs = 0 BY <1>1, <2>5 DEF NeedsBuild
  <2>17. md.usedDecode BY <2>6
  <2>18. Updated(g, rows, md, b) = [buf |-> y, md |-> u]
    BY <2>3, <2>16, <2>17 DEF Updated, u
  <2> QED BY <2>1, <2>2, <2>15, <2>18
<1>3. CASE ~DecFits(rows)
  <2> DEFINE md == DecMd(rows, st)
             v == DecMd(rows, sg)
             u == [md EXCEPT !.state = sg]
  <2>1. Built(h, rows, a) = [buf |-> a, md |-> md] BY <1>3, BuiltDec, Zenon
  <2>2. Built(g, rows, b) = [buf |-> b, md |-> v] BY <1>3, BuiltDec, Zenon
  <2> HIDE DEF st, sg
  <2>3. /\ IsMd(md)
        /\ md.prefills = 0 /\ md.decodes = Len(rows) /\ md.specs = 0 /\ md.size = Len(rows)
        /\ md.specTokens = 0 /\ md.specState = <<>> /\ md.specMask = <<>> /\ md.accepted = <<>>
        /\ md.specTok = <<>> /\ md.specStart = <<>> /\ md.tok = <<>>
        /\ md.start = Starts(Lens(rows))
        /\ md.prefillStart = <<>> /\ md.prefillState = <<>> /\ md.prefillStarted = <<>>
    BY DecMdFields
  <2>4. /\ IsMd(v)
        /\ v.prefills = 0 /\ v.decodes = Len(rows) /\ v.specs = 0 /\ v.size = Len(rows)
        /\ v.specTokens = 0 /\ v.specState = <<>> /\ v.specMask = <<>> /\ v.accepted = <<>>
        /\ v.specTok = <<>> /\ v.specStart = <<>> /\ v.tok = <<>>
        /\ v.state = sg /\ v.start = Starts(Lens(rows))
        /\ v.prefillStart = <<>> /\ v.prefillState = <<>> /\ v.prefillStarted = <<>>
    BY DecMdFields
  <2>5. /\ md.usedSpec = FALSE /\ md.usedDecode = FALSE
        /\ v.usedSpec = FALSE /\ v.usedDecode = FALSE
    BY DecMdFlags, Zenon
  <2> HIDE DEF md, v
  <2>6. DOMAIN md = MdFields BY <2>3 DEF IsMd
  <2>7. IsMd(u) BY <2>3, ExceptMd
  <2>8. u.state = v.state /\ u.start = v.start BY <2>3, <2>4, <2>6 DEF MdFields
  <2>9. /\ u.specState = v.specState /\ u.specMask = v.specMask /\ u.specTok = v.specTok
        /\ u.tok = v.tok /\ u.specStart = v.specStart /\ u.accepted = v.accepted
        /\ u.prefills = v.prefills /\ u.decodes = v.decodes /\ u.specs = v.specs
        /\ u.specTokens = v.specTokens
        /\ u.prefillStart = v.prefillStart /\ u.prefillState = v.prefillState
        /\ u.prefillStarted = v.prefillStarted /\ u.size = v.size
    BY <2>3, <2>4
  <2>10. u.usedSpec = v.usedSpec /\ u.usedDecode = v.usedDecode
    <3>1. u.usedSpec = md.usedSpec /\ u.usedDecode = md.usedDecode OBVIOUS
    <3> HIDE DEF u
    <3> QED BY <2>5, <3>1, Zenon
  <2>11. u = v
    <3> HIDE DEF u
    <3> QED BY <2>4, <2>7, <2>8, <2>9, <2>10, SameMd
  <2>12. ~NeedsBuild(md) /\ md.specs = 0 BY <1>1, <2>3 DEF NeedsBuild
  <2>13. ~md.usedDecode BY <2>5
  <2>14. Updated(g, rows, md, b) = [buf |-> b, md |-> u]
    BY <2>12, <2>13, UpdatedIs DEF sg
  <2> QED BY <2>1, <2>2, <2>11, <2>14
<1> QED BY <1>2, <1>3

LEMMA UpdatedMixed ==
  ASSUME NEW rows, Counts(rows).prefills # 0, Counts(rows).prefills \in Nat, NEW h, NEW g, NEW a, NEW b
  PROVE  Updated(g, rows, Built(h, rows, a).md, b) = Built(g, rows, b)
<1> DEFINE md == Built(h, rows, a).md
<1>1. md.prefills = Counts(rows).prefills BY BuiltMixed
<1> HIDE DEF md
<1>2. NeedsBuild(md) BY <1>1 DEF NeedsBuild
<1>3. Updated(g, rows, md, b) = Built(g, rows, b) BY <1>2, UpdatedIs
<1> QED BY <1>3 DEF md

LEMMA CountsTyped ==
  ASSUME NEW rows, NEW m, BatchOf(rows, m)
  PROVE  Counts(rows).prefills \in Nat
<1>1. Len(rows) \in Nat /\ OtherMask(rows) \in SUBSET (1 .. Len(rows)) BY BatchRows
<1> DEFINE T == {i \in OtherMask(rows) : rows[i].q > 0}
<1>2. T \in SUBSET (1 .. Len(rows)) BY <1>1
<1> HIDE DEF T
<1>3. Cardinality(T) \in Nat BY <1>1, <1>2, CountIs
<1>4. Len(rows) - FrontDecodes(rows) \in Nat BY <1>1, FrontIs
<1> QED BY <1>3, <1>4 DEF Counts, T

LEMMA UpdatedIsBuilt ==
  ASSUME ConfInv, NEW rows, NEW m, BatchOf(rows, m), NEW h, NEW g,
         NEW a, Buffers(a), NEW b, Buffers(b)
  PROVE  Updated(g, rows, Built(h, rows, a).md, b) = Built(g, rows, b)
<1>1. CASE DraftsOnly(rows) BY <1>1, UpdatedSpec
<1>2. CASE DecodesOnly(rows) BY <1>2, UpdatedDec
<1>3. CASE Counts(rows).prefills # 0 BY <1>3, UpdatedMixed, CountsTyped
<1> QED BY <1>1, <1>2, <1>3 DEF DraftsOnly, DecodesOnly
-----------------------------------------------------------------------------
(* The inductive invariant *)

LEMMA PersistTyped ==
  ASSUME ConfInv, NEW md, NEW buf, Buffers(buf)
  PROVE  Buffers(Persist(buf, md))
<1> DEFINE S == size.bs
           M == size.bs + 1
           L == size.bs * (num_spec + 1)
           new == Persist(buf, md)
           dom == BufFields
<1>1. S \in Nat /\ M \in Nat /\ L \in Nat BY Conf
<1>2. /\ IsBuf(buf) /\ DOMAIN buf = dom
      /\ IsTensor(buf.specState, S) /\ IsTensor(buf.specMask, S) /\ IsTensor(buf.specTok, L)
      /\ IsTensor(buf.tok, L) /\ IsTensor(buf.specStart, M) /\ IsTensor(buf.accepted, S)
      /\ IsTensor(buf.state, S) /\ IsTensor(buf.start, M)
  BY DEF Buffers, IsBuf
<1> HIDE DEF S, M, L
<1>3. IsBuf(new) BY <1>2, ExceptBuf DEF Persist
<1>4. /\ new.specState = buf.specState \/ \E x, n, v : new.specState = CopyAndFill(buf.specState, x, n, v)
      /\ new.specMask = buf.specMask \/ \E x, n, v : new.specMask = CopyAndFill(buf.specMask, x, n, v)
      /\ new.specStart = buf.specStart \/ \E x, n, v : new.specStart = CopyAndFill(buf.specStart, x, n, v)
      /\ new.accepted = buf.accepted \/ \E x, n, v : new.accepted = CopyAndFill(buf.accepted, x, n, v)
  BY <1>2 DEF Persist, BufFields
<1>5. /\ new.tok = buf.tok \/ \E x : new.tok = CopyInto(buf.tok, x)
      /\ new.specTok = buf.specTok \/ \E x : new.specTok = CopyInto(buf.specTok, x)
  BY <1>2 DEF Persist, BufFields
<1>6. /\ new.state = buf.state \/ \E x, n, v : new.state = CopyAndFill(buf.state, x, n, v)
      /\ new.start = buf.start \/ \E x, n, v : new.start = CopyAndFill(buf.start, x, n, v)
  BY <1>2 DEF Persist, BufFields
<1> HIDE DEF new
<1>7. IsTensor(new.specState, S) /\ IsTensor(new.specMask, S) /\ IsTensor(new.accepted, S)
  BY <1>1, <1>2, <1>4, CopyTyped
<1>8. IsTensor(new.specStart, M) /\ IsTensor(new.tok, L) /\ IsTensor(new.specTok, L)
  <2>1. IsTensor(new.specStart, M) BY <1>1, <1>2, <1>4, CopyTyped
  <2>2. \A vals : IsTensor(CopyInto(buf.tok, vals), L) /\ IsTensor(CopyInto(buf.specTok, vals), L)
    BY <1>1, <1>2, CopyTyped
  <2> QED BY <1>2, <1>5, <2>1, <2>2
<1>9. IsTensor(new.state, S) /\ IsTensor(new.start, M)
  BY <1>1, <1>2, <1>6, CopyTyped
<1>10. Buffers(new) BY <1>3, <1>7, <1>8, <1>9 DEF Buffers, S, M, L
<1> QED BY <1>10 DEF new

LEMMA BuiltBuffers ==
  ASSUME ConfInv, NEW g, NEW rows, NEW buf, Buffers(buf)
  PROVE  Buffers(Built(g, rows, buf).buf)
BY PersistTyped DEF Built

(* What the metadata of a group that is ready comes from: a build of the batch. *)
MdInv ==
  \A g \in 1 .. done : \E buf :
    Buffers(buf) /\ [buf |-> bufs[g], md |-> mds[g]] = Built(g, batch, buf)

IInv ==
  /\ ConfInv /\ known \subseteq Requests /\ done \in 0 .. NumGroups
  /\ bufs = [g \in Groups |-> bufs[g]] /\ \A g \in Groups : Buffers(bufs[g])
  /\ mds = [g \in Groups |-> mds[g]]
  /\ done > 0 => \E m : BatchOf(batch, m)
  /\ MdInv

LEMMA BuiltIs ==
  ASSUME NEW g, NEW rows, NEW buf
  PROVE  Built(g, rows, buf) = [buf |-> Built(g, rows, buf).buf, md |-> Built(g, rows, buf).md]
BY DEF Built

LEMMA InitInv == Init => IInv
<1> SUFFICES ASSUME Init PROVE IInv OBVIOUS
<1>1. ConfInv /\ done = 0 BY DEF Init, ConfInv
<1>2. known \subseteq Requests BY DEF Init, kSubset
<1>3. size.bs \in Nat /\ size.bs + 1 \in Nat /\ size.bs * (num_spec + 1) \in Nat BY <1>1, Conf
<1>4. Buffers(NewBuffers)
  <2>1. \A n : IsTensor(Filled(n), n) BY DEF IsTensor, Filled
  <2>2. IsBuf(NewBuffers) BY DEF IsBuf, BufFields, NewBuffers
  <2> QED BY <2>1, <2>2 DEF NewBuffers, Buffers
<1>5. bufs = [g \in Groups |-> bufs[g]] /\ \A g \in Groups : Buffers(bufs[g]) BY <1>4 DEF Init
<1>6. mds = [g \in Groups |-> mds[g]] BY DEF Init
<1>7. MdInv BY <1>1 DEF MdInv
<1> QED BY <1>1, <1>2, <1>5, <1>6, <1>7, GdnAssumption DEF IInv

LEMMA RowsConcat ==
  ASSUME NEW a \in Seq(RowSet), NEW b \in Seq(RowSet)
  PROVE  a \o b \in Seq(RowSet) /\ Len(a \o b) = Len(a) + Len(b)
OBVIOUS

(* The runner's batches. *)
LEMMA BatchesAre ==
  ASSUME ConfInv, known \subseteq Requests, NEW o \in Orders, NEW shapes \in [DOMAIN o -> Shapes],
         NEW rows, rows = [i \in DOMAIN o |-> Row(o[i], shapes[i])],
         NEW n \in Paddings(rows)
  PROVE  BatchOf(Padded(rows, n), Len(rows))
<1> DEFINE k == Len(rows)
           all == Padded(rows, n)
<1>1. PICK d \in 1 .. size.rows : o \in [1 .. d -> known] BY DEF Orders
<1>2. num_spec \in Nat /\ MaxChunk \in Nat /\ d \in Nat BY <1>1, Conf, GdnAssumption
<1>3. d \in 1 .. d /\ DOMAIN o = 1 .. d /\ k = d /\ rows = [i \in 1 .. d |-> rows[i]]
  BY <1>1, <1>2
<1>4. ASSUME NEW s \in Shapes
      PROVE  s.q \in Nat /\ s.q > 0 /\ s.draft \in Int /\ s.acc \in Nat /\ s.started \in BOOLEAN
  <2>1. CASE s \in [q : 1 .. MaxChunk, draft : {-1}, acc : {1}, started : BOOLEAN] BY <1>2, <2>1
  <2>2. CASE s \in {[q |-> c + 1, draft |-> c, acc |-> a, started |-> TRUE] :
                      c \in 0 .. num_spec, a \in 1 .. num_spec + 1}
    <3>1. PICK c \in 0 .. num_spec, a \in 1 .. num_spec + 1 :
            s = [q |-> c + 1, draft |-> c, acc |-> a, started |-> TRUE]
      BY <2>2
    <3>2. s.q = c + 1 /\ s.draft = c /\ s.acc = a BY <3>1
    <3>3. s.started \in BOOLEAN BY <3>1
    <3> QED BY <1>2, <3>2, <3>3
  <2> QED BY <2>1, <2>2 DEF Shapes
<1>5. ASSUME NEW i \in 1 .. d PROVE rows[i] \in RowSet /\ rows[i].req # Pad /\ rows[i].q > 0
  <2>1. o[i] \in Requests /\ o[i] # Pad BY <1>1, GdnAssumption
  <2>2. shapes[i] \in Shapes BY <1>3
  <2>3. rows[i] = Row(o[i], shapes[i]) BY <1>3
  <2> QED BY <1>4, <2>1, <2>2, <2>3 DEF Row, RowSet
<1>6. rows \in Seq(RowSet) BY <1>2, <1>3, <1>5
<1>7. PadRow \in RowSet BY DEF PadRow, RowSet
<1> HIDE DEF all, k
<1>8. CASE n = 0
  <2>1. all = rows BY <1>8 DEF all, Padded
  <2>2. k = d /\ d \in Nat /\ d \in 1 .. d BY <1>2, <1>3
  <2>3. BatchOf(rows, d)
    <3>1. Len(rows) = d BY <2>2 DEF k
    <3>2. \A i \in 1 .. d : rows[i].req # Pad /\ rows[i].q > 0 BY <1>5
    <3>3. ~(d < d) /\ d + 1 .. d = {} BY <2>2
    <3> QED BY ONLY <1>6, <2>2, <3>1, <3>2, <3>3 DEF BatchOf
  <2> QED BY <2>1, <2>2, <2>3 DEF all, k
<1>9. CASE n # 0
  <2>1. /\ n \in 1 .. size.rows /\ full /\ Uniform(rows)
        /\ (d + n) * (num_spec + 1) <= size.bs
    BY <1>3, <1>9 DEF Paddings, k
  <2>2. n \in Nat /\ n > 0 BY <2>1, Conf
  <2> DEFINE pads == [i \in 1 .. n |-> PadRow]
  <2>3. pads \in Seq(RowSet) /\ Len(pads) = n /\ \A i \in 1 .. n : pads[i] = PadRow
    BY <1>7, <2>2
  <2>4. all = rows \o pads BY <2>2 DEF all, Padded
  <2> HIDE DEF pads
  <2>5. all \in Seq(RowSet) /\ Len(all) = d + n
    <3>1. Len(rows \o pads) = Len(rows) + Len(pads) BY ONLY <1>6, <2>3, RowsConcat
    <3>2. rows \o pads \in Seq(RowSet) BY ONLY <1>6, <2>3, RowsConcat
    <3> QED BY <1>3, <2>3, <2>4, <3>1, <3>2 DEF k
  <2>6. \A i \in 1 .. d : all[i] = rows[i] BY <1>3, <1>6, <2>3, <2>4 DEF k
  <2>7. \A i \in d + 1 .. d + n : all[i] = PadRow
    <3>1. \A i \in d + 1 .. d + n : all[i] = pads[i - d] /\ i - d \in 1 .. n
      BY <1>2, <1>3, <1>6, <2>2, <2>3, <2>4 DEF k
    <3> QED BY <2>3, <3>1
  <2>8. \A i \in 1 .. d : all[i].draft = num_spec BY <1>3, <2>1, <2>6 DEF Uniform
  <2>9. d \in 1 .. Len(all) BY <1>2, <2>2, <2>5
  <2> QED BY <1>3, <1>5, <2>1, <2>5, <2>6, <2>7, <2>8, <2>9 DEF BatchOf, all, k
<1> QED BY <1>8, <1>9

(* What is built depends on no variable but the configuration. *)
LEMMA ConfStable ==
  ASSUME UNCHANGED <<size, num_spec, full>>
  PROVE  /\ ConfInv' <=> ConfInv
         /\ \A buf : Buffers(buf)' <=> Buffers(buf)
         /\ \A rows, m : BatchOf(rows, m)' <=> BatchOf(rows, m)
BY DEF ConfInv, Buffers, BatchOf

LEMMA BuiltStable ==
  ASSUME UNCHANGED <<size, num_spec, full>>
  PROVE  \A g, rows, buf : Built(g, rows, buf)' = Built(g, rows, buf)
<1>1. \A g, r : BlockRow(g, r)' = BlockRow(g, r) BY DEF BlockRow
<1>2. \A g, rows : BlockTable(g, rows)' = BlockTable(g, rows) BY <1>1 DEF BlockTable
<1>3. \A rows : Speculative(rows)' <=> Speculative(rows) BY DEF Speculative
<1>4. \A rows : Counts(rows)' = Counts(rows) BY <1>3 DEF Counts
<1>5. ASSUME NEW g, NEW rows PROVE Parts(g, rows)' = Parts(g, rows)
  <2>1. BlockTable(g, rows)' = BlockTable(g, rows) BY <1>2
  <2>2. BlockTable(g, SpecRows(rows))' = BlockTable(g, SpecRows(rows)) BY <1>2
  <2>3. BlockTable(g, OtherRows(rows))' = BlockTable(g, OtherRows(rows)) BY <1>2
  <2>4. (Speculative(rows)' <=> Speculative(rows)) /\ Counts(rows)' = Counts(rows) BY <1>3, <1>4
  <2> QED BY <2>1, <2>2, <2>3, <2>4, Zenon DEF Parts
<1>6. \A md : (UsesSpecBuffers(md)' <=> UsesSpecBuffers(md)) /\ (UsesDecodeBuffers(md)' <=> UsesDecodeBuffers(md))
  BY DEF UsesSpecBuffers, UsesDecodeBuffers
<1>7. ASSUME NEW buf, NEW md PROVE Persist(buf, md)' = Persist(buf, md)
  <2>1. BlockRow(1, [req |-> Pad])' = BlockRow(1, [req |-> Pad]) BY <1>1
  <2>2. (UsesSpecBuffers(md)' <=> UsesSpecBuffers(md)) /\ (UsesDecodeBuffers(md)' <=> UsesDecodeBuffers(md))
    BY <1>6
  <2> QED BY ONLY <2>1, <2>2, Zenon DEF Persist
<1>8. \A buf, md : Viewed(buf, md)' = Viewed(buf, md) BY <1>6 DEF Viewed
<1> QED BY <1>5, <1>7, <1>8 DEF Built

LEMMA BuildFirstInv ==
  ASSUME IInv, NEW rows, NEW m, BatchOf(rows, m), BuildFirst(rows)
  PROVE  IInv'
<1> DEFINE new == Built(1, rows, bufs[1])
<1>1. 1 \in Groups /\ 1 \in 1 .. NumGroups BY GdnAssumption DEF Groups
<1>2. /\ batch' = rows /\ done' = 1 /\ mds' = [mds EXCEPT ![1] = new.md]
      /\ bufs' = [bufs EXCEPT ![1] = new.buf]
      /\ UNCHANGED <<size, known, num_spec, full>>
  BY DEF BuildFirst
<1>3. Buffers(bufs[1]) /\ Buffers(new.buf) BY <1>1, BuiltBuffers DEF IInv
<1>4. new = [buf |-> new.buf, md |-> new.md] BY BuiltIs
<1>5. Built(1, rows, bufs[1]) = new OBVIOUS
<1> HIDE DEF new
<1>6. DOMAIN bufs = Groups /\ DOMAIN mds = Groups BY DEF IInv
<1>7. bufs'[1] = new.buf /\ mds'[1] = new.md BY <1>1, <1>2, <1>6
<1>8. MdInv'
  <2> SUFFICES ASSUME NEW g \in 1 .. done'
               PROVE  \E buf : Buffers(buf)'
                                 /\ [buf |-> bufs'[g], md |-> mds'[g]] = Built(g, batch, buf)'
    BY DEF MdInv
  <2>1. g = 1 BY <1>2
  <2>2. \A buf : Built(1, batch, buf)' = Built(1, rows, buf) BY <1>2, BuiltStable
  <2>3. \E buf : buf = bufs[1] /\ Buffers(buf)' BY <1>2, <1>3, ConfStable
  <2> QED BY <1>4, <1>5, <1>7, <2>1, <2>2, <2>3
<1>9. ConfInv' /\ known' \subseteq Requests /\ done' \in 0 .. NumGroups
  BY <1>1, <1>2, ConfStable DEF IInv
<1>10. bufs' = [g \in Groups |-> bufs'[g]] /\ mds' = [g \in Groups |-> mds'[g]]
  BY <1>2 DEF IInv
<1>11. \A g \in Groups : Buffers(bufs[g])'
  <2> SUFFICES ASSUME NEW g \in Groups PROVE Buffers(bufs[g])' OBVIOUS
  <2>1. Buffers(bufs'[g]) BY <1>2, <1>3, <1>6, <1>7 DEF IInv
  <2> QED BY <1>2, <2>1, ConfStable
<1>12. \E k : BatchOf(batch, k)' BY <1>2, ConfStable
<1> QED BY <1>8, <1>9, <1>10, <1>11, <1>12 DEF IInv

(* A group that takes over leaves what its own build would have left. *)
LEMMA SharedIs ==
  ASSUME IInv, UpdateBlockTable
  PROVE  /\ done' = done + 1 /\ done + 1 \in Groups
         /\ [buf |-> bufs'[done + 1], md |-> mds'[done + 1]] = Built(done + 1, batch, bufs[done + 1])
<1> DEFINE g == done + 1
           new == Updated(g, batch, mds[1], bufs[g])
<1>1. done \in 1 .. NumGroups - 1 /\ done' = done + 1 BY DEF UpdateBlockTable
<1>2. g \in Groups /\ 1 \in 1 .. done BY <1>1, GdnAssumption DEF Groups
<1>3. mds' = [mds EXCEPT ![g] = new.md] /\ bufs' = [bufs EXCEPT ![g] = new.buf]
  BY DEF UpdateBlockTable
<1>4. PICK a : Buffers(a) /\ [buf |-> bufs[1], md |-> mds[1]] = Built(1, batch, a)
  BY <1>2 DEF IInv, MdInv
<1>5. PICK m : BatchOf(batch, m) BY <1>1 DEF IInv
<1>6. mds[1] = Built(1, batch, a).md
  <2> DEFINE b == Built(1, batch, a)
  <2> HIDE DEF b
  <2>1. b = [buf |-> bufs[1], md |-> mds[1]] BY <1>4 DEF b
  <2>2. b.md = mds[1] BY <2>1
  <2> QED BY <2>2 DEF b
<1>7. new = Built(g, batch, bufs[g])
  <2>1. Buffers(bufs[g]) /\ ConfInv BY <1>2 DEF IInv
  <2> HIDE DEF g
  <2>2. Updated(g, batch, Built(1, batch, a).md, bufs[g]) = Built(g, batch, bufs[g])
    BY <1>4, <1>5, <2>1, UpdatedIsBuilt
  <2> QED BY <1>6, <2>2
<1> HIDE DEF new
<1>8. bufs'[g] = new.buf /\ mds'[g] = new.md BY <1>2, <1>3 DEF IInv
<1>9. new = [buf |-> new.buf, md |-> new.md] BY <1>7, BuiltIs
<1> QED BY <1>1, <1>2, <1>7, <1>8, <1>9

LEMMA UpdateInv == ASSUME IInv, UpdateBlockTable PROVE IInv'
<1> DEFINE g == done + 1
<1>1. /\ done' = g /\ g \in Groups /\ done \in Nat
      /\ [buf |-> bufs'[g], md |-> mds'[g]] = Built(g, batch, bufs[g])
  <2>1. done \in Nat BY GdnAssumption DEF IInv
  <2> QED BY <2>1, SharedIs
<1>2. /\ UNCHANGED <<size, known, num_spec, full, batch>>
      /\ \E b : bufs' = [bufs EXCEPT ![g] = b]
      /\ \E md : mds' = [mds EXCEPT ![g] = md]
      /\ done \in 1 .. NumGroups - 1
  BY DEF UpdateBlockTable
<1>3. Buffers(bufs[g]) BY <1>1 DEF IInv
<1>4. g \notin 1 .. done /\ 1 .. done \subseteq Groups /\ 1 .. g = 1 .. done \union {g}
  BY <1>1, <1>2, GdnAssumption DEF Groups
<1> HIDE DEF g
<1>5. \A f \in 1 .. done : bufs'[f] = bufs[f] /\ mds'[f] = mds[f]
  BY <1>2, <1>4 DEF IInv
<1>6. \A f, buf : Built(f, batch, buf)' = Built(f, batch, buf) BY <1>2, BuiltStable
<1>7. \A buf : Buffers(buf)' <=> Buffers(buf) BY <1>2, ConfStable
<1>8. MdInv'
  <2> SUFFICES ASSUME NEW f \in 1 .. done'
               PROVE  \E buf : Buffers(buf)'
                                 /\ [buf |-> bufs'[f], md |-> mds'[f]] = Built(f, batch, buf)'
    BY DEF MdInv
  <2>1. CASE f = g BY <1>1, <1>3, <1>6, <1>7, <2>1
  <2>2. CASE f \in 1 .. done
    <3>1. PICK buf : Buffers(buf) /\ [buf |-> bufs[f], md |-> mds[f]] = Built(f, batch, buf)
      BY <2>2 DEF IInv, MdInv
    <3> QED BY <1>5, <1>6, <1>7, <2>2, <3>1
  <2> QED BY <1>1, <1>4, <2>1, <2>2
<1>9. ConfInv' /\ known' \subseteq Requests /\ done' \in 0 .. NumGroups
  BY <1>1, <1>2, ConfStable DEF IInv, Groups
<1>10. bufs' = [f \in Groups |-> bufs'[f]] /\ mds' = [f \in Groups |-> mds'[f]]
  BY <1>2 DEF IInv
<1>11. \A f \in Groups : Buffers(bufs[f])'
  <2> SUFFICES ASSUME NEW f \in Groups PROVE Buffers(bufs[f])' OBVIOUS
  <2>1. Buffers(bufs'[g])
    <3> DEFINE new == Built(g, batch, bufs[g])
    <3>1. Buffers(new.buf) BY <1>3, BuiltBuffers DEF IInv
    <3>2. new.buf = bufs'[g]
      <4>1. new = [buf |-> bufs'[g], md |-> mds'[g]] BY <1>1
      <4> HIDE DEF new
      <4> QED BY <4>1
    <3> QED BY <3>1, <3>2
  <2>2. f # g => bufs'[f] = bufs[f] BY <1>2 DEF IInv
  <2>3. Buffers(bufs'[f]) BY <2>1, <2>2 DEF IInv
  <2> QED BY <1>2, <2>3, ConfStable
<1>12. \E k : BatchOf(batch, k)'
  <2>1. PICK k : BatchOf(batch, k) BY <1>2 DEF IInv
  <2> QED BY <1>2, <2>1, ConfStable
<1> QED BY <1>8, <1>9, <1>10, <1>11, <1>12 DEF IInv

LEMMA ForwardInv == ASSUME IInv, Forward PROVE IInv'
<1>1. /\ done' = 0 /\ mds' = [g \in Groups |-> NoMetadata]
      /\ UNCHANGED <<size, known, num_spec, full, bufs>>
  BY DEF Forward
<1>2. ConfInv' /\ known' \subseteq Requests /\ done' \in 0 .. NumGroups
  BY <1>1, ConfStable, GdnAssumption DEF IInv
<1>3. \A f \in Groups : Buffers(bufs[f])'
  <2>1. \A f \in Groups : Buffers(bufs[f]) /\ bufs'[f] = bufs[f] BY <1>1 DEF IInv
  <2> QED BY <1>1, <2>1, ConfStable
<1>4. bufs' = [f \in Groups |-> bufs'[f]] /\ mds' = [f \in Groups |-> mds'[f]]
  BY <1>1 DEF IInv
<1>5. MdInv' BY <1>1 DEF MdInv
<1> QED BY <1>1, <1>2, <1>3, <1>4, <1>5 DEF IInv

LEMMA CaptureInv == ASSUME IInv, NEW n, Capture(n) PROVE IInv'
<1> DEFINE rows == [i \in 1 .. n |-> [PadRow EXCEPT !.q = num_spec + 1, !.draft = num_spec,
                                                    !.acc = num_spec + 1]]
<1>1. /\ done = 0 /\ bufs' = [g \in Groups |-> Built(g, rows, bufs[g]).buf]
      /\ UNCHANGED <<size, known, num_spec, full, batch, done, mds>>
  BY DEF Capture
<1> HIDE DEF rows
<1>2. ConfInv' /\ known' \subseteq Requests /\ done' \in 0 .. NumGroups
  BY <1>1, ConfStable DEF IInv
<1>3. \A f \in Groups : Buffers(bufs[f])'
  <2> SUFFICES ASSUME NEW f \in Groups PROVE Buffers(bufs[f])' OBVIOUS
  <2>1. Buffers(bufs[f]) BY DEF IInv
  <2>2. Buffers(Built(f, rows, bufs[f]).buf) BY <2>1, BuiltBuffers DEF IInv
  <2>3. Buffers(bufs'[f]) BY <1>1, <2>2
  <2> QED BY <1>1, <2>3, ConfStable
<1>4. bufs' = [f \in Groups |-> bufs'[f]] /\ mds' = [f \in Groups |-> mds'[f]]
  BY <1>1 DEF IInv
<1>5. MdInv' BY <1>1 DEF MdInv
<1> QED BY <1>1, <1>2, <1>3, <1>4, <1>5 DEF IInv

LEMMA StepInv == IInv /\ [Next]_vars => IInv'
<1> SUFFICES ASSUME IInv, [Next]_vars PROVE IInv' OBVIOUS
<1>1. ASSUME NEW o \in Orders, NEW shapes \in [DOMAIN o -> Shapes], NEW rows,
             rows = [i \in DOMAIN o |-> Row(o[i], shapes[i])],
             NEW n \in Paddings(rows), BuildFirst(Padded(rows, n))
      PROVE  IInv'
  BY <1>1, BatchesAre, BuildFirstInv DEF IInv
<1>2. CASE UpdateBlockTable BY <1>2, UpdateInv
<1>3. CASE Forward BY <1>3, ForwardInv
<1>4. ASSUME NEW n, Capture(n) PROVE IInv' BY <1>4, CaptureInv
<1>5. CASE UNCHANGED vars
  <2>1. UNCHANGED <<size, known, num_spec, full, batch, done, mds, bufs>> BY <1>5 DEF vars
  <2>2. ConfInv' /\ known' \subseteq Requests /\ done' \in 0 .. NumGroups
    BY <2>1, ConfStable DEF IInv
  <2>3. \A f \in Groups : Buffers(bufs[f])'
    <3>1. \A f \in Groups : Buffers(bufs[f]) /\ bufs'[f] = bufs[f] BY <2>1 DEF IInv
    <3> QED BY <2>1, <3>1, ConfStable
  <2>4. bufs' = [f \in Groups |-> bufs'[f]] /\ mds' = [f \in Groups |-> mds'[f]]
    BY <2>1 DEF IInv
  <2>5. done' > 0 => \E k : BatchOf(batch, k)'
    <3>1. done > 0 => \E k : BatchOf(batch, k) BY DEF IInv
    <3> QED BY <2>1, <3>1, ConfStable
  <2>6. MdInv'
    <3> SUFFICES ASSUME NEW f \in 1 .. done'
                 PROVE  \E buf : Buffers(buf)'
                                   /\ [buf |-> bufs'[f], md |-> mds'[f]] = Built(f, batch, buf)'
      BY DEF MdInv
    <3>1. PICK buf : Buffers(buf) /\ [buf |-> bufs[f], md |-> mds[f]] = Built(f, batch, buf)
      BY <2>1 DEF IInv, MdInv
    <3>2. Buffers(buf)' BY <2>1, <3>1, ConfStable
    <3>3. Built(f, batch, buf)' = Built(f, batch, buf) BY <2>1, BuiltStable
    <3> QED BY <2>1, <3>1, <3>2, <3>3
  <2> QED BY <2>2, <2>3, <2>4, <2>5, <2>6 DEF IInv
<1> QED BY <1>1, <1>2, <1>3, <1>4, <1>5 DEF Next

LEMMA Inductive == Spec => []IInv
BY InitInv, StepInv, PTL DEF Spec

(* update_block_table, "only the state indices differ": whatever the batch, and
   whatever earlier steps and captures left in the buffers, a group that takes
   over the first group's metadata has what its own build would have given it. *)
THEOREM SharingIsSound == Spec => SharingIsRebuilding
<1>1. ASSUME IInv, [Next]_vars
      PROVE  [\A g \in 2 .. NumGroups : done = g - 1 /\ done' = g =>
                [buf |-> bufs'[g], md |-> mds'[g]] = Built(g, batch, bufs[g])]_vars
  <2> SUFFICES ASSUME NEW g \in 2 .. NumGroups, done = g - 1, done' = g, Next
               PROVE  [buf |-> bufs'[g], md |-> mds'[g]] = Built(g, batch, bufs[g])
    BY <1>1
  <2>1. NumGroups \in Nat BY GdnAssumption
  <2>2. done # 0 /\ done' # 0 /\ done' # 1 BY <2>1
  <2>3. UpdateBlockTable BY <2>2 DEF Next, BuildFirst, Forward, Capture
  <2>4. g = done + 1 BY <2>1
  <2> QED BY <1>1, <2>3, <2>4, SharedIs
<1> QED BY <1>1, Inductive, PTL DEF Spec, SharingIsRebuilding

(* Metadata that is ready is a build of the batch, and reading it through the
   buffers again changes nothing. *)
LEMMA ReadyIs ==
  ASSUME IInv, NEW g \in 1 .. done
  PROVE  \E m, buf : /\ BatchOf(batch, m) /\ Buffers(buf)
                     /\ mds[g] = Built(g, batch, buf).md /\ bufs[g] = Built(g, batch, buf).buf
<1>1. PICK buf : Buffers(buf) /\ [buf |-> bufs[g], md |-> mds[g]] = Built(g, batch, buf)
  BY DEF IInv, MdInv
<1>2. done > 0 BY GdnAssumption DEF IInv
<1>3. PICK m : BatchOf(batch, m) BY <1>2 DEF IInv
<1> DEFINE b == Built(g, batch, buf)
<1> HIDE DEF b
<1>4. b = [buf |-> bufs[g], md |-> mds[g]] BY <1>1 DEF b
<1>5. mds[g] = b.md /\ bufs[g] = b.buf BY <1>4
<1> QED BY <1>1, <1>3, <1>5 DEF b

(* Rows of padding have no tokens. *)
LEMMA PadSums ==
  ASSUME NEW rows, NEW m, BatchOf(rows, m)
  PROVE  \A i \in m .. Len(rows) : Sums(Lens(rows))[i] = Sums(Lens(rows))[m]
<1> DEFINE n == Len(rows)
           S == Sums(Lens(rows))
           T == {i \in m .. n : S[i] # S[m]}
<1>1. rows \in Seq(RowSet) /\ m \in Nat \ {0} /\ n \in Nat /\ m <= n BY BatchRows DEF BatchOf
<1>2. \A i \in 1 .. n : S[i] = S[i - 1] + rows[i].q /\ S[i] \in Nat /\ S[i - 1] \in Nat
  <2>1. \A i \in 0 .. n : S[i] \in 0 .. NumTokens(rows) BY <1>1, RowSums
  <2>2. NumTokens(rows) \in Nat /\ \A i \in 1 .. n : S[i] = S[i - 1] + rows[i].q BY <1>1, RowSums
  <2> HIDE DEF S, n
  <2> QED BY <1>1, <2>1, <2>2
<1>3. \A i \in m + 1 .. n : rows[i].q = 0 BY DEF BatchOf, PadRow
<1>4. SUFFICES T = {} OBVIOUS
<1> HIDE DEF S, n
<1>5. SUFFICES ASSUME T # {} PROVE FALSE OBVIOUS
<1>6. T \in SUBSET Nat BY <1>1
<1>7. PICK i \in T : \A x \in T : i <= x
  <2> HIDE DEF T
  <2> QED BY <1>5, <1>6, NatMin
<1>8. i \in m + 1 .. n /\ i \in 1 .. n /\ i - 1 \in m .. n /\ i - 1 \notin T BY <1>1, <1>7
<1>9. S[i - 1] = S[m] BY <1>8
<1> QED BY <1>2, <1>3, <1>7, <1>8, <1>9

LEMMA SpecTokens ==
  ASSUME NEW rows, NEW m, BatchOf(rows, m), DraftsOnly(rows)
  PROVE  NumTokens(SpecRows(rows)) = NumTokens(rows)
<1> DEFINE n == Len(rows)
           spec == SpecRows(rows)
           s == Lens(rows)
           t == Lens(spec)
<1>1. rows \in Seq(RowSet) /\ m \in Nat \ {0} /\ n \in Nat /\ m <= n BY BatchRows DEF BatchOf
<1>2. spec \in Seq(RowSet) /\ Len(spec) = m /\ \A k \in 1 .. m : spec[k] = rows[k] BY DraftsFirst
<1>3. s \in [1 .. n -> Nat] /\ \A i \in 1 .. n : s[i] = rows[i].q BY <1>1, LensAre
<1>4. t \in [1 .. m -> Nat] /\ \A i \in 1 .. m : t[i] = spec[i].q BY <1>2, LensAre
<1>5. m \in 0 .. n /\ \A i \in 1 .. m : t[i] = s[i] BY <1>1, <1>2, <1>3, <1>4
<1>6. Sums(t)[m] = Sums(s)[m]
  <2> HIDE DEF s, t, n
  <2>1. \A i \in 0 .. m : Sums(t)[i] = Sums(s)[i] BY <1>1, <1>3, <1>4, <1>5, SumsAgree
  <2> QED BY <1>1, <2>1
<1>7. Sums(s)[n] = Sums(s)[m] BY <1>1, PadSums
<1> QED BY <1>2, <1>6, <1>7 DEF NumTokens

(* A captured graph is at least as large as the batch it is padded for. *)
LEMMA SpecFitsBuffers ==
  ASSUME ConfInv, NEW rows, NEW m, BatchOf(rows, m), SpecFits(rows, m)
  PROVE  Len(rows) <= size.bs
<1>1. /\ m \in Nat /\ Len(rows) \in Nat /\ m <= Len(rows) /\ size.bs \in Nat /\ num_spec \in Nat
  BY BatchRows, Conf
<1>2. CASE m = Len(rows) BY <1>2 DEF SpecFits
<1>3. CASE m < Len(rows)
  <2>1. Len(rows) * (num_spec + 1) <= size.bs BY <1>3 DEF BatchOf
  <2>2. Len(rows) * (num_spec + 1) = Len(rows) * num_spec + Len(rows) BY <1>1
  <2>3. Len(rows) * num_spec >= 0 BY <1>1
  <2> QED BY <1>1, <2>1, <2>2, <2>3
<1> QED BY <1>1, <1>2, <1>3

LEMMA MixedUsesNone ==
  ASSUME NEW g, NEW rows
  PROVE  LET md == WithPrefills(rows, Parts(g, rows))
         IN md.usedSpec = FALSE /\ md.usedDecode = FALSE
<1> DEFINE p == Parts(g, rows)
<1>1. p.usedSpec = FALSE /\ p.usedDecode = FALSE BY DEF Parts, NoMetadata
<1> HIDE DEF p
<1>2. WithPrefills(rows, p).usedSpec = p.usedSpec /\ WithPrefills(rows, p).usedDecode = p.usedDecode
  BY DEF WithPrefills
<1> QED BY <1>1, <1>2, Zenon DEF p

(* A graph of the batch's size finds that many rows in each view. *)
LEMMA ViewsFit ==
  ASSUME ConfInv, NEW rows, NEW m, BatchOf(rows, m), NEW g, NEW buf, Buffers(buf)
  PROVE  LET md == Built(g, rows, buf).md
         IN /\ md.usedSpec => Len(md.specState) = Len(rows) /\ Len(md.specStart) = Len(rows) + 1
            /\ md.usedDecode => Len(md.state) = Len(rows) /\ Len(md.start) = Len(rows) + 1
<1> DEFINE n == Len(rows)
           S == size.bs
           md == Built(g, rows, buf).md
<1>1. n \in Nat /\ n + 1 \in Nat /\ S \in Nat /\ S + 1 \in Nat BY BatchRows, Conf
<1>2. CASE DraftsOnly(rows)
  <2> DEFINE st == BlockTable(g, SpecRows(rows))
             new == SpecBuf(buf, rows, m, st)
  <2>1. CASE SpecFits(rows, m)
    <3>1. md = SpecView(new, rows, m, st) BY <1>2, <2>1, BuiltSpec
    <3>2. Buffers(new) BY SpecBufTyped
    <3>3. n <= S BY <2>1, SpecFitsBuffers
    <3> HIDE DEF new, st, md
    <3>4. md.specState = View(new.specState, n) /\ md.specStart = View(new.specStart, n + 1)
      BY <3>1, SpecViewFields
    <3>5. md.usedDecode = FALSE BY <3>1, SpecViewFlags
    <3>6. IsTensor(new.specState, S) /\ IsTensor(new.specStart, S + 1) BY <3>2 DEF Buffers
    <3> HIDE DEF n, S
    <3>7. Len(View(new.specState, n)) = n BY <1>1, <3>3, <3>6, ViewIs
    <3>8. Len(View(new.specStart, n + 1)) = n + 1
      <4> DEFINE j == n + 1
                 M == S + 1
      <4>1. j \in Nat /\ M \in Nat /\ j <= M BY <1>1, <3>3
      <4> HIDE DEF j, M
      <4>2. Len(View(new.specStart, j)) = j BY <3>6, <4>1, ViewIs DEF M
      <4> QED BY <4>2 DEF j
    <3> QED BY <3>4, <3>5, <3>7, <3>8 DEF md, n
  <2>2. CASE ~SpecFits(rows, m)
    <3>1. md = SpecMd(rows, m, st) BY <1>2, <2>2, BuiltSpec
    <3> HIDE DEF st, md
    <3>2. md.usedSpec = FALSE /\ md.usedDecode = FALSE BY <3>1, SpecMdFlags
    <3> QED BY <3>2 DEF md
  <2> QED BY <2>1, <2>2
<1>3. CASE DecodesOnly(rows)
  <2> DEFINE st == FirstColumn(BlockTable(g, rows))
             new == DecBuf(buf, rows, st)
  <2>1. CASE DecFits(rows)
    <3>1. md = DecView(new, rows, st) BY <1>3, <2>1, BuiltDec
    <3>2. Buffers(new) BY DecBufTyped
    <3>3. n <= S BY <2>1 DEF DecFits
    <3> HIDE DEF new, st, md
    <3>4. md.state = View(new.state, n) /\ md.start = View(new.start, n + 1)
      BY <3>1, DecViewFields
    <3>5. md.usedSpec = FALSE BY <3>1, DecViewFlags
    <3>6. IsTensor(new.state, S) /\ IsTensor(new.start, S + 1) BY <3>2 DEF Buffers
    <3> HIDE DEF n, S
    <3>7. Len(View(new.state, n)) = n BY <1>1, <3>3, <3>6, ViewIs
    <3>8. Len(View(new.start, n + 1)) = n + 1
      <4> DEFINE j == n + 1
                 M == S + 1
      <4>1. j \in Nat /\ M \in Nat /\ j <= M BY <1>1, <3>3
      <4> HIDE DEF j, M
      <4>2. Len(View(new.start, j)) = j BY <3>6, <4>1, ViewIs DEF M
      <4> QED BY <4>2 DEF j
    <3> QED BY <3>4, <3>5, <3>7, <3>8 DEF md, n
  <2>2. CASE ~DecFits(rows)
    <3>1. md = DecMd(rows, st) BY <1>3, <2>2, BuiltDec
    <3> HIDE DEF st, md
    <3>2. md.usedSpec = FALSE /\ md.usedDecode = FALSE BY <3>1, DecMdFlags
    <3> QED BY <3>2 DEF md
  <2> QED BY <2>1, <2>2
<1>4. CASE Counts(rows).prefills # 0
  <2>1. md = WithPrefills(rows, Parts(g, rows)) BY <1>4, BuiltMixed
  <2> HIDE DEF md
  <2>2. md.usedSpec = FALSE /\ md.usedDecode = FALSE BY <2>1, MixedUsesNone
  <2> QED BY <2>2 DEF md
<1> QED BY <1>2, <1>3, <1>4 DEF DraftsOnly, DecodesOnly

(* The shapes of what each group's layers are given, in every step. *)
THEOREM ShapesFit == Spec => []TypeOK
<1>1. IInv => TypeOK
  <2> SUFFICES ASSUME IInv PROVE TypeOK OBVIOUS
  <2>1. ConfInv /\ done \in 0 .. NumGroups BY DEF IInv
  <2>2. ASSUME NEW g \in 1 .. done
        PROVE  /\ mds[g].usedSpec => Len(mds[g].specState) = Len(batch) /\ Len(mds[g].specStart) = Len(batch) + 1
               /\ mds[g].usedDecode => Len(mds[g].state) = Len(batch) /\ Len(mds[g].start) = Len(batch) + 1
    <3>1. PICK m, buf : /\ BatchOf(batch, m) /\ Buffers(buf)
                        /\ mds[g] = Built(g, batch, buf).md /\ bufs[g] = Built(g, batch, buf).buf
      BY ReadyIs
    <3> QED BY <2>1, <3>1, ViewsFit
  <2> QED BY <2>1, <2>2 DEF TypeOK, ConfInv
<1> QED BY <1>1, Inductive, PTL
-----------------------------------------------------------------------------
(* Every token advances its own request's state *)

WorkOk(g, rows, md) ==
  LET drafted(i) == Speculative(rows) /\ (IsSpec(rows[i]) \/ (rows[i].req = Pad /\ md.usedSpec))
  IN /\ SpecWork(md) = {[state |-> BlockRow(g, rows[i]), acc |-> rows[i].acc,
                         tokens |-> TokensOf(rows, i)] : i \in {i \in DOMAIN rows : drafted(i)}}
     /\ DecodeWork(md) \union {[state |-> w.state, tokens |-> w.tokens] : w \in PrefillWork(md)}
          = {[state |-> BlockRow(g, rows[i])[1], tokens |-> TokensOf(rows, i)] :
               i \in {i \in DOMAIN rows : ~Speculative(rows) \/ (~IsSpec(rows[i]) /\ rows[i].req # Pad)}}
     /\ \A w \in PrefillWork(md) : \E i \in DOMAIN rows :
          w.tokens = TokensOf(rows, i) /\ w.started = rows[i].started
     /\ \A w \in DecodeWork(md) : Cardinality(w.tokens) <= 1

(* Drafts only: row k of the metadata is row k of the batch. *)
LEMMA DraftWork ==
  ASSUME NEW rows, NEW m, BatchOf(rows, m), DraftsOnly(rows), NEW g, NEW md, NEW K,
         K \in m .. Len(rows), md.decodes = 0, md.prefillState = <<>>,
         (IF md.usedSpec THEN md.size ELSE md.specs) = K,
         \A k \in 1 .. K : md.specState[k] = BlockRow(g, rows[k]) /\ md.accepted[k] = rows[k].acc,
         \A k \in 1 .. K + 1 : md.specStart[k] = Sums(Lens(rows))[k - 1],
         \A t \in 0 .. NumTokens(rows) - 1 : md.specTok[t + 1] = t,
         \A k \in m + 1 .. Len(rows) : md.usedSpec <=> k <= K
  PROVE  WorkOk(g, rows, md)
<1> DEFINE n == Len(rows)
           S == Sums(Lens(rows))
           work(k) == [state |-> BlockRow(g, rows[k]), acc |-> rows[k].acc,
                       tokens |-> TokensOf(rows, k)]
           drafted(i) == Speculative(rows) /\ (IsSpec(rows[i]) \/ (rows[i].req = Pad /\ md.usedSpec))
<1>1. rows \in Seq(RowSet) /\ m \in Nat \ {0} /\ n \in Nat /\ m <= n /\ DOMAIN rows = 1 .. n
      /\ K \in Nat /\ K \in m .. n
  BY BatchRows DEF BatchOf
<1>2. Speculative(rows) /\ \A k \in 1 .. m : IsSpec(rows[k]) /\ rows[k].req # Pad
  BY DraftsFirst DEF DraftsOnly, BatchOf
<1>3. \A k \in m + 1 .. n : rows[k].req = Pad /\ ~IsSpec(rows[k])
  BY DEF BatchOf, PadRow, IsSpec
<1>4. \A i \in 1 .. n : drafted(i) <=> i <= K
  <2> SUFFICES ASSUME NEW i \in 1 .. n PROVE drafted(i) <=> i <= K OBVIOUS
  <2>1. CASE i \in 1 .. m BY <1>1, <1>2, <2>1
  <2>2. CASE i \in m + 1 .. n BY <1>2, <1>3, <2>2
  <2> QED BY <1>1, <2>1, <2>2
<1>5. {i \in DOMAIN rows : drafted(i)} = 1 .. K BY <1>1, <1>4
<1>6. ASSUME NEW k \in 1 .. K
      PROVE  [state |-> md.specState[k], acc |-> md.accepted[k],
              tokens |-> {md.specTok[i + 1] : i \in Between(md.specStart, k)}] = work(k)
  <2>1. k \in 1 .. n /\ k \in 1 .. K + 1 /\ k + 1 \in 1 .. K + 1 /\ (k + 1) - 1 = k BY <1>1
  <2>2. md.specStart[k] = S[k - 1] /\ md.specStart[k + 1] = S[k] BY <2>1
  <2>3. Between(md.specStart, k) = TokensOf(rows, k) BY <2>2 DEF Between, TokensOf
  <2>4. \A t \in TokensOf(rows, k) : t \in 0 .. NumTokens(rows) - 1 BY <1>1, <2>1, RowOfIs
  <2>5. {md.specTok[i + 1] : i \in TokensOf(rows, k)} = TokensOf(rows, k)
    <3> DEFINE T == TokensOf(rows, k)
    <3>1. \A i \in T : md.specTok[i + 1] = i BY <2>4
    <3> HIDE DEF T
    <3>2. {md.specTok[i + 1] : i \in T} = T BY <3>1
    <3> QED BY <3>2 DEF T
  <2> QED BY <2>3, <2>5
<1>7. SpecWork(md) = {work(k) : k \in 1 .. K}
  <2> DEFINE e(k) == [state |-> md.specState[k], acc |-> md.accepted[k],
                      tokens |-> {md.specTok[i + 1] : i \in Between(md.specStart, k)}]
  <2>1. SpecWork(md) = {e(k) : k \in 1 .. K} BY Zenon DEF SpecWork
  <2>2. \A k \in 1 .. K : e(k) = work(k) BY <1>6
  <2> HIDE DEF e, work
  <2> QED BY ONLY <2>1, <2>2
<1>8. SpecWork(md) = {work(i) : i \in {i \in DOMAIN rows : drafted(i)}} BY <1>5, <1>7
<1>9. DecodeWork(md) = {} BY DEF DecodeWork
<1>10. PrefillWork(md) = {} BY DEF PrefillWork
<1>11. {i \in DOMAIN rows : ~Speculative(rows) \/ (~IsSpec(rows[i]) /\ rows[i].req # Pad)} = {}
  BY <1>1, <1>2, <1>3
<1> QED BY <1>8, <1>9, <1>10, <1>11 DEF WorkOk

(* No drafts: the first F rows are decodes, the others prefills. *)
LEMMA PlainWork ==
  ASSUME NEW rows, NEW m, BatchOf(rows, m), ~Speculative(rows), NEW g, NEW md, NEW F,
         F = FrontDecodes(rows), md.decodes = F, md.specs = 0, ~md.usedSpec,
         Len(md.prefillState) = Len(rows) - F,
         \A k \in 1 .. Len(rows) : md.state[k] = BlockRow(g, rows[k])[1],
         \A k \in 1 .. Len(rows) + 1 : md.start[k] = Sums(Lens(rows))[k - 1],
         \A k \in 1 .. Len(rows) - F :
           /\ md.prefillState[k] = md.state[F + k] /\ md.prefillStarted[k] = rows[F + k].started
           /\ md.prefillStart[k] = md.start[F + k] - md.start[F + 1]
           /\ md.prefillStart[k + 1] = md.start[F + (k + 1)] - md.start[F + 1]
  PROVE  WorkOk(g, rows, md)
<1> DEFINE n == Len(rows)
           S == Sums(Lens(rows))
           work(i) == [state |-> BlockRow(g, rows[i])[1], tokens |-> TokensOf(rows, i)]
           pre(k) == [state |-> BlockRow(g, rows[F + k])[1], started |-> rows[F + k].started,
                      tokens |-> TokensOf(rows, F + k)]
<1>1. rows \in Seq(RowSet) /\ n \in Nat /\ DOMAIN rows = 1 .. n /\ F \in Nat /\ F <= n
      /\ \A i \in 1 .. F : rows[i].q <= 1
  <2>1. F \in 0 .. n /\ \A i \in 1 .. F : rows[i].q <= 1 BY FrontIs
  <2>2. rows \in Seq(RowSet) /\ n \in Nat /\ DOMAIN rows = 1 .. n BY BatchRows DEF BatchOf
  <2> QED BY <2>1, <2>2
<1>2. \A i \in 1 .. n : S[i] = S[i - 1] + rows[i].q /\ rows[i].q \in Nat
  BY <1>1, RowSums, LensAre
<1>3. \A i \in 0 .. n : S[i] \in Nat
  <2>1. NumTokens(rows) \in Nat /\ \A i \in 0 .. n : S[i] \in 0 .. NumTokens(rows) BY <1>1, RowSums
  <2> HIDE DEF S, n
  <2> QED BY <2>1
<1>4. SpecWork(md) = {} BY DEF SpecWork
<1>5. DecodeWork(md) = {work(i) : i \in 1 .. F}
  <2>1. ASSUME NEW k \in 1 .. F
        PROVE  [state |-> md.state[k], tokens |-> Between(md.start, k)] = work(k)
    <3>1. k \in 1 .. n /\ k \in 1 .. n + 1 /\ k + 1 \in 1 .. n + 1 /\ (k + 1) - 1 = k BY <1>1
    <3>2. md.start[k] = S[k - 1] /\ md.start[k + 1] = S[k] /\ md.state[k] = BlockRow(g, rows[k])[1]
      BY <3>1
    <3> QED BY <3>2 DEF Between, TokensOf
  <2>2. DecodeWork(md) = {[state |-> md.state[k], tokens |-> Between(md.start, k)] : k \in 1 .. F}
    BY Zenon DEF DecodeWork
  <2> HIDE DEF work
  <2> QED BY <2>1, <2>2
<1>6. PrefillWork(md) = {pre(k) : k \in 1 .. n - F}
  <2>1. ASSUME NEW k \in 1 .. n - F
        PROVE  [state |-> md.prefillState[k], started |-> md.prefillStarted[k],
                tokens |-> {md.start[F + 1] + i : i \in Between(md.prefillStart, k)}] = pre(k)
    <3> DEFINE r == F + k
               a == S[F]
               b == S[r - 1]
               c == S[r]
    <3>1. /\ r \in 1 .. n /\ r \in 1 .. n + 1 /\ F + (k + 1) \in 1 .. n + 1 /\ F + 1 \in 1 .. n + 1
          /\ (F + (k + 1)) - 1 = r /\ (F + 1) - 1 = F /\ F \in 0 .. n /\ r - 1 \in 0 .. n /\ r \in 0 .. n
      <4>1. n \in Nat /\ F \in 0 .. n /\ k \in 1 .. n - F BY <1>1
      <4> HIDE DEF n
      <4> QED BY ONLY <4>1
    <3>0. \A j \in 1 .. n + 1 : md.start[j] = S[j - 1] OBVIOUS
    <3>2. md.start[F + 1] = a /\ md.start[r] = b /\ md.start[F + (k + 1)] = c
      <4> HIDE DEF S, n
      <4> QED BY ONLY <3>0, <3>1
    <3>3. md.prefillStart[k] = b - a /\ md.prefillStart[k + 1] = c - a BY <3>2
    <3>4. a \in Nat /\ b \in Nat /\ c \in Nat BY <1>3, <3>1
    <3>5. md.prefillState[k] = BlockRow(g, rows[r])[1] /\ md.prefillStarted[k] = rows[r].started
      BY <3>1
    <3> HIDE DEF a, b, c, r
    <3>6. {a + i : i \in (b - a) .. (c - a) - 1} = b .. c - 1
      <4>1. ASSUME NEW t \in b .. c - 1 PROVE \E i \in (b - a) .. (c - a) - 1 : t = a + i
        <5>1. t - a \in (b - a) .. (c - a) - 1 /\ t = a + (t - a) BY <3>4
        <5> QED BY <5>1
      <4>2. ASSUME NEW i \in (b - a) .. (c - a) - 1 PROVE a + i \in b .. c - 1 BY <3>4
      <4> QED BY <4>1, <4>2
    <3>7. TokensOf(rows, r) = b .. c - 1 BY DEF TokensOf, b, c
    <3>8. {md.start[F + 1] + i : i \in Between(md.prefillStart, k)} = TokensOf(rows, r)
      BY <3>2, <3>3, <3>6, <3>7 DEF Between
    <3> QED BY <3>5, <3>8 DEF r
  <2> DEFINE e(k) == [state |-> md.prefillState[k], started |-> md.prefillStarted[k],
                      tokens |-> {md.start[F + 1] + i : i \in Between(md.prefillStart, k)}]
  <2>2. PrefillWork(md) = {e(k) : k \in 1 .. n - F} BY DEF PrefillWork
  <2>3. \A k \in 1 .. n - F : e(k) = pre(k) BY <2>1
  <2> HIDE DEF e, pre, n
  <2> QED BY ONLY <2>2, <2>3
<1>7. {[state |-> w.state, tokens |-> w.tokens] : w \in PrefillWork(md)} = {work(F + k) : k \in 1 .. n - F}
  <2> DEFINE cut(w) == [state |-> w.state, tokens |-> w.tokens]
  <2>1. \A k \in 1 .. n - F : cut(pre(k)) = work(F + k) OBVIOUS
  <2> HIDE DEF cut, pre, work, n
  <2>2. {cut(w) : w \in PrefillWork(md)} = {work(F + k) : k \in 1 .. n - F} BY <1>6, <2>1
  <2> QED BY <2>2 DEF cut
<1>8. {work(i) : i \in 1 .. F} \union {work(F + k) : k \in 1 .. n - F} = {work(i) : i \in 1 .. n}
  <2> HIDE DEF work, n
  <2>1. ASSUME NEW i \in 1 .. n
        PROVE  i \in 1 .. F \/ \E k \in 1 .. n - F : i = F + k
    <3>1. CASE i <= F BY <1>1, <3>1
    <3>2. CASE i > F
      <4>1. i - F \in 1 .. n - F /\ i = F + (i - F) BY <1>1, <3>2
      <4> QED BY <4>1
    <3> QED BY <1>1, <3>1, <3>2
  <2>2. 1 .. F \subseteq 1 .. n /\ \A k \in 1 .. n - F : F + k \in 1 .. n BY <1>1
  <2> QED BY ONLY <2>1, <2>2
<1>9. {i \in DOMAIN rows : ~Speculative(rows) \/ (~IsSpec(rows[i]) /\ rows[i].req # Pad)} = 1 .. n
  BY <1>1
<1>10. \A w \in PrefillWork(md) : \E i \in DOMAIN rows :
         w.tokens = TokensOf(rows, i) /\ w.started = rows[i].started
  <2>1. \A k \in 1 .. n - F : F + k \in DOMAIN rows BY <1>1
  <2>2. \A k \in 1 .. n - F : pre(k).tokens = TokensOf(rows, F + k) /\ pre(k).started = rows[F + k].started
    OBVIOUS
  <2> HIDE DEF pre, n
  <2>3. \A w \in PrefillWork(md) : \E k \in 1 .. n - F : w = pre(k) BY ONLY <1>6
  <2> QED BY ONLY <2>1, <2>2, <2>3
<1>11. \A w \in DecodeWork(md) : Cardinality(w.tokens) <= 1
  <2> SUFFICES ASSUME NEW i \in 1 .. F PROVE Cardinality(TokensOf(rows, i)) <= 1 BY <1>5
  <2> DEFINE a == S[i - 1]
             q == rows[i].q
  <2>1. i \in 1 .. n /\ i - 1 \in 0 .. n BY <1>1
  <2>2. a \in Nat /\ S[i] = a + q /\ q \in Nat /\ q <= 1 BY <1>1, <1>2, <1>3, <2>1
  <2>3. TokensOf(rows, i) = a .. (a + q) - 1 BY <2>2 DEF TokensOf
  <2> HIDE DEF a, q
  <2>4. Cardinality(a .. (a + q) - 1) <= 1
    <3>1. CASE q = 0
      <4>1. a .. (a + q) - 1 = {} BY <2>2, <3>1
      <4>2. Cardinality({}) = 0 BY FS_EmptySet
      <4>3. Cardinality(a .. (a + q) - 1) = 0 BY <4>1, <4>2, Zenon
      <4> QED BY <4>3
    <3>2. CASE q = 1
      <4>1. a .. (a + q) - 1 = {a} BY <2>2, <3>2
      <4>2. Cardinality({a}) = 1 BY FS_Singleton
      <4>3. Cardinality(a .. (a + q) - 1) = 1 BY <4>1, <4>2, Zenon
      <4> QED BY <4>3
    <3> QED BY <2>2, <3>1, <3>2
  <2> QED BY <2>3, <2>4
<1>12. {i \in DOMAIN rows :
          Speculative(rows) /\ (IsSpec(rows[i]) \/ (rows[i].req = Pad /\ md.usedSpec))} = {}
  OBVIOUS
<1> QED BY <1>4, <1>5, <1>7, <1>8, <1>9, <1>10, <1>11, <1>12 DEF WorkOk

(* Drafts beside other rows *)

LEMMA MaskIs ==
  ASSUME NEW n \in Nat, NEW mask \in SUBSET (1 .. n)
  PROVE  {Nth(mask, k) : k \in 1 .. Cardinality(mask)} = mask
<1>1. \A k \in 1 .. Cardinality(mask) : Nth(mask, k) \in mask BY NthTyped
<1>2. ASSUME NEW i \in mask PROVE \E k \in 1 .. Cardinality(mask) : i = Nth(mask, k)
  BY NthIs
<1> QED BY <1>1, <1>2

LEMMA MaskedSize ==
  ASSUME NEW rows \in Seq(RowSet), NEW mask \in SUBSET (1 .. Len(rows))
  PROVE  /\ NumTokens(Masked(rows, mask)) = Cardinality(TokenMask(rows, mask))
         /\ Cardinality(TokenMask(rows, mask)) \in Nat
         /\ IsFiniteSet(TokenMask(rows, mask))
         /\ TokenMask(rows, mask) \in SUBSET (1 .. NumTokens(rows))
<1> DEFINE n == Len(rows)
           N == NumTokens(rows)
           T == TokenMask(rows, mask)
           sub == Masked(rows, mask)
<1>1. n \in Nat /\ N \in Nat /\ T \in SUBSET (1 .. N) /\ N = Sums(Lens(rows))[n]
  BY LensAre, RowSums DEF TokenMask, NumTokens
<1>2. Count(T, Sums(Lens(rows))[n]) = Sums(Lens(sub))[Count(mask, n)] BY <1>1, MaskedSums
<1>3. Count(mask, n) = Cardinality(mask) /\ Len(sub) = Cardinality(mask)
  BY <1>1, CountIs, MaskedRows
<1>4. Count(T, N) = Cardinality(T) /\ Cardinality(T) \in Nat
  <2> HIDE DEF T, N
  <2> QED BY <1>1, CountIs
<1>5. IsFiniteSet(T)
  <2> HIDE DEF T, N
  <2>1. IsFiniteSet(1 .. N) BY <1>1, FS_Interval, SMTT(20)
  <2> QED BY <1>1, <2>1, FS_Subset
<1> QED BY <1>1, <1>2, <1>3, <1>4, <1>5 DEF NumTokens

(* The tokens a kernel takes for the k-th row of its starts. *)
PartOf(tok, st, k) == {tok[i + 1] : i \in Between(st, k)}

LEMMA PartTokens ==
  ASSUME NEW rows \in Seq(RowSet), NEW mask \in SUBSET (1 .. Len(rows)), NEW tok, NEW st,
         \A j \in 1 .. Cardinality(TokenMask(rows, mask)) :
           tok[j] = Masked(Tokens(rows), TokenMask(rows, mask))[j],
         \A k \in 1 .. Cardinality(mask) + 1 : st[k] = Sums(Lens(Masked(rows, mask)))[k - 1],
         NEW k \in 1 .. Cardinality(mask)
  PROVE  PartOf(tok, st, k) = TokensOf(rows, Nth(mask, k))
<1> DEFINE S2 == Sums(Lens(Masked(rows, mask)))
           part == Masked(Tokens(rows), TokenMask(rows, mask))
           c == Cardinality(TokenMask(rows, mask))
           a == S2[k - 1]
           b == S2[k]
           goal == TokensOf(rows, Nth(mask, k))
           M == Cardinality(mask)
<1>1. /\ b = a + rows[Nth(mask, k)].q /\ a \in Nat /\ b <= c /\ Nth(mask, k) \in mask
      /\ {part[i + 1] : i \in a .. b - 1} = goal
  BY MaskedTokens
<1>2. rows[Nth(mask, k)].q \in Nat BY <1>1, LensAre
<1>3. M \in Nat BY LensAre, CountIs
<1>4. k \in 1 .. M + 1 /\ k + 1 \in 1 .. M + 1 /\ (k + 1) - 1 = k BY <1>3
<1>5. st[k] = a /\ st[k + 1] = b BY <1>4
<1>6. c \in Nat BY MaskedSize
<1>7. \A j \in 1 .. c : tok[j] = part[j] OBVIOUS
<1> DEFINE q == rows[Nth(mask, k)].q
<1>8. b = a + q /\ q \in Nat BY <1>1, <1>2
<1> DEFINE u(i) == tok[i + 1]
           v(i) == part[i + 1]
<1>12. {v(i) : i \in a .. b - 1} = goal BY <1>1
<1> HIDE DEF S2, part, c, a, b, goal, q
<1>9. \A i \in a .. b - 1 : i + 1 \in 1 .. c BY <1>1, <1>6, <1>8
<1>10. \A i \in a .. b - 1 : tok[i + 1] = part[i + 1] BY <1>7, <1>9
<1>11. {tok[i + 1] : i \in a .. b - 1} = goal
  <2>1. \A i \in a .. b - 1 : u(i) = v(i) BY <1>10
  <2> HIDE DEF u, v
  <2>2. {u(i) : i \in a .. b - 1} = goal BY ONLY <1>12, <2>1
  <2> QED BY <2>2 DEF u
<1> QED BY <1>5, <1>11 DEF Between, goal, PartOf

LEMMA HalvesOfConcat ==
  ASSUME NEW A \in Seq(Nat), NEW B \in Seq(Nat), NEW N, N = Len(A) + Len(B)
  PROVE  /\ \A j \in 1 .. Len(A) : SubSeq(A \o B, 1, Len(A))[j] = A[j]
         /\ \A j \in 1 .. Len(B) : SubSeq(A \o B, Len(A) + 1, N)[j] = B[j]
<1> DEFINE a == Len(A)
           b == Len(B)
           AB == A \o B
<1>1. a \in Nat /\ b \in Nat /\ N = a + b OBVIOUS
<1>2. /\ AB \in Seq(Nat) /\ Len(AB) = N
      /\ \A i \in 1 .. a : AB[i] = A[i]
      /\ \A i \in 1 .. N : i > a => AB[i] = B[i - a]
  <2>1. AB \in Seq(Nat) /\ Len(AB) = a + b OBVIOUS
  <2>2. \A i \in 1 .. a + b : AB[i] = IF i <= a THEN A[i] ELSE B[i - a] OBVIOUS
  <2> HIDE DEF AB, a, b
  <2> QED BY ONLY <1>1, <2>1, <2>2
<1> HIDE DEF AB
<1>3. SubSeq(AB, 1, a) = [j \in 1 .. a |-> AB[j]] BY <1>1, <1>2
<1>4. SubSeq(AB, a + 1, N) = [j \in 1 .. b |-> AB[a + j]]
  <2>1. SubSeq(AB, a + 1, N) = [j \in 1 .. N - (a + 1) + 1 |-> AB[(a + 1) + j - 1]]
    <3> DEFINE lo == a + 1
    <3>1. lo \in Int /\ N \in Int BY <1>1
    <3> HIDE DEF lo, a, b
    <3>2. SubSeq(AB, lo, N) = [j \in 1 .. N - lo + 1 |-> AB[lo + j - 1]] BY ONLY <3>1
    <3> QED BY <3>2 DEF lo
  <2>2. N - (a + 1) + 1 = b /\ \A j \in 1 .. b : (a + 1) + j - 1 = a + j BY <1>1
  <2> HIDE DEF a, b
  <2> QED BY ONLY <2>1, <2>2
<1>5. ASSUME NEW j \in 1 .. b PROVE SubSeq(AB, a + 1, N)[j] = B[j]
  <2>1. a + j \in 1 .. N /\ a + j > a /\ (a + j) - a = j BY <1>1
  <2>2. AB[a + j] = B[j] BY <1>2, <2>1
  <2> QED BY <1>4, <2>2
<1> QED BY <1>2, <1>3, <1>5 DEF AB, a, b

(* The tokens of other rows come first, those of drafts after them. *)
LEMMA OrderIs ==
  ASSUME NEW rows, NEW m, BatchOf(rows, m)
  PROVE  LET ts == TokenMask(rows, SpecMask(rows))
             to == TokenMask(rows, OtherMask(rows))
             numOther == NumTokens(OtherRows(rows))
             first == SubSeq(TokenOrder(rows), 1, numOther)
             second == SubSeq(TokenOrder(rows), numOther + 1, NumTokens(rows))
         IN /\ \A j \in 1 .. Cardinality(to) : first[j] = Masked(Tokens(rows), to)[j]
            /\ \A j \in 1 .. Cardinality(ts) : second[j] = Masked(Tokens(rows), ts)[j]
<1> DEFINE ts == TokenMask(rows, SpecMask(rows))
           to == TokenMask(rows, OtherMask(rows))
           N == NumTokens(rows)
           A == Masked(Tokens(rows), to)
           B == Masked(Tokens(rows), ts)
           a == Cardinality(to)
           b == Cardinality(ts)
<1>1. rows \in Seq(RowSet) /\ DOMAIN rows = 1 .. Len(rows) BY BatchRows DEF BatchOf
<1>2. SpecMask(rows) \in SUBSET (1 .. Len(rows)) /\ OtherMask(rows) \in SUBSET (1 .. Len(rows))
  BY BatchRows
<1>3. N \in Nat BY <1>1, RowSums
<1>4. /\ a \in Nat /\ b \in Nat /\ IsFiniteSet(to) /\ IsFiniteSet(ts)
      /\ NumTokens(OtherRows(rows)) = a /\ to \in SUBSET (1 .. N) /\ ts \in SUBSET (1 .. N)
  BY <1>1, <1>2, MaskedSize DEF OtherRows
<1>5. \A t \in 1 .. N : RowOf(rows, t - 1) \in 1 .. Len(rows)
  <2> SUFFICES ASSUME NEW t \in 1 .. N PROVE RowOf(rows, t - 1) \in 1 .. Len(rows) OBVIOUS
  <2>1. t - 1 \in 0 .. N - 1 BY <1>3
  <2> QED BY <1>1, <2>1, RowOfTyped
<1>6. to = (1 .. N) \ ts BY <1>1, <1>5 DEF TokenMask, OtherMask
<1>7. a + b = N
  <2> HIDE DEF to, ts, N
  <2>1. to \cap ts = {} /\ to \union ts = 1 .. N BY <1>4, <1>6
  <2>2. Cardinality(to \union ts) = Cardinality(to) + Cardinality(ts) - Cardinality(to \cap ts)
    BY <1>4, FS_Union
  <2>3. Cardinality(1 .. N) = N BY <1>3, NthFirst
  <2>4. Cardinality({}) = 0 BY FS_EmptySet
  <2>5. Cardinality(to \cap ts) = 0 BY <2>1, <2>4, Zenon
  <2>6. Cardinality(to \union ts) = N BY <2>1, <2>3, Zenon
  <2> QED BY <1>4, <2>2, <2>5, <2>6
<1>8. TokenOrder(rows) = A \o B
  <2> DEFINE all == Tokens(rows)
  <2>1. DOMAIN all = 1 .. N BY DEF Tokens
  <2>2. {t \in DOMAIN all : RowOf(rows, all[t]) \in SpecMask(rows)} = ts BY <2>1 DEF Tokens, TokenMask
  <2>3. DOMAIN all \ ts = to BY <1>6, <2>1
  <2> QED BY <2>2, <2>3, Zenon DEF TokenOrder, Tokens
<1>9. A \in Seq(Nat) /\ Len(A) = a /\ B \in Seq(Nat) /\ Len(B) = b
  <2>1. ASSUME NEW T \in SUBSET (1 .. N), Cardinality(T) \in Nat
        PROVE  Masked(Tokens(rows), T) \in Seq(Nat) /\ Len(Masked(Tokens(rows), T)) = Cardinality(T)
    <3> DEFINE d == Cardinality(T)
               v(k) == Tokens(rows)[Nth(T, k)]
    <3>1. \A k \in 1 .. d : Nth(T, k) \in 1 .. N
      <4> HIDE DEF N
      <4> QED BY <1>3, NthTyped
    <3>2. \A k \in 1 .. d : v(k) \in Nat BY <1>3, <3>1 DEF Tokens
    <3> HIDE DEF v, d
    <3>3. d \in Nat BY <2>1 DEF d
    <3>4. [k \in 1 .. d |-> v(k)] \in Seq(Nat) /\ Len([k \in 1 .. d |-> v(k)]) = d BY <3>2, <3>3
    <3> QED BY <3>4 DEF Masked, v, d
  <2> QED BY <1>4, <2>1
<1> HIDE DEF A, B, a, b, N
<1>10. (\A j \in 1 .. a : SubSeq(A \o B, 1, a)[j] = A[j]) /\ \A j \in 1 .. b : SubSeq(A \o B, a + 1, N)[j] = B[j]
  <2>1. N = Len(A) + Len(B) /\ A \in Seq(Nat) /\ B \in Seq(Nat) BY <1>7, <1>9
  <2>2. /\ \A j \in 1 .. Len(A) : SubSeq(A \o B, 1, Len(A))[j] = A[j]
        /\ \A j \in 1 .. Len(B) : SubSeq(A \o B, Len(A) + 1, N)[j] = B[j]
    BY ONLY <2>1, HalvesOfConcat
  <2> QED BY <1>9, <2>2
<1> QED BY <1>4, <1>8, <1>10 DEF A, B, a, b, N

(* Rows of drafts and others: the k-th row of each part is the k-th of its rows. *)
LEMMA MixWork ==
  ASSUME NEW rows, BatchOf(rows, Len(rows)), Speculative(rows), NEW g, NEW md,
         md.specs = Cardinality(SpecMask(rows)), md.specs > 0, ~md.usedSpec, md.decodes = 0,
         Len(md.prefillState) = Cardinality(OtherMask(rows)),
         \A k \in 1 .. Cardinality(SpecMask(rows)) :
           LET row == rows[Nth(SpecMask(rows), k)]
           IN md.specState[k] = BlockRow(g, row) /\ md.accepted[k] = row.acc,
         \A k \in 1 .. Cardinality(SpecMask(rows)) + 1 :
           md.specStart[k] = Sums(Lens(SpecRows(rows)))[k - 1],
         \A j \in 1 .. Cardinality(TokenMask(rows, SpecMask(rows))) :
           md.specTok[j] = Masked(Tokens(rows), TokenMask(rows, SpecMask(rows)))[j],
         \A k \in 1 .. Cardinality(OtherMask(rows)) :
           LET row == rows[Nth(OtherMask(rows), k)]
           IN md.prefillState[k] = BlockRow(g, row)[1] /\ md.prefillStarted[k] = row.started,
         \A k \in 1 .. Cardinality(OtherMask(rows)) + 1 :
           md.prefillStart[k] = Sums(Lens(OtherRows(rows)))[k - 1],
         \A j \in 1 .. Cardinality(TokenMask(rows, OtherMask(rows))) :
           md.tok[j] = Masked(Tokens(rows), TokenMask(rows, OtherMask(rows)))[j]
  PROVE  WorkOk(g, rows, md)
<1> DEFINE n == Len(rows)
           sm == SpecMask(rows)
           om == OtherMask(rows)
           swork(i) == [state |-> BlockRow(g, rows[i]), acc |-> rows[i].acc,
                        tokens |-> TokensOf(rows, i)]
           work(i) == [state |-> BlockRow(g, rows[i])[1], tokens |-> TokensOf(rows, i)]
           pre(i) == [state |-> BlockRow(g, rows[i])[1], started |-> rows[i].started,
                      tokens |-> TokensOf(rows, i)]
<1>1. /\ rows \in Seq(RowSet) /\ n \in Nat /\ DOMAIN rows = 1 .. n
      /\ sm \in SUBSET (1 .. n) /\ om \in SUBSET (1 .. n)
      /\ \A i \in 1 .. n : rows[i].req # Pad
  BY BatchRows DEF BatchOf
<1>2. SpecWork(md) = {swork(i) : i \in sm}
  <2>1. ASSUME NEW k \in 1 .. Cardinality(sm)
        PROVE  [state |-> md.specState[k], acc |-> md.accepted[k],
                tokens |-> {md.specTok[i + 1] : i \in Between(md.specStart, k)}] = swork(Nth(sm, k))
    <3> DEFINE tok == md.specTok
               st == md.specStart
    <3>1. /\ \A j \in 1 .. Cardinality(TokenMask(rows, sm)) :
               tok[j] = Masked(Tokens(rows), TokenMask(rows, sm))[j]
          /\ \A j \in 1 .. Cardinality(sm) + 1 : st[j] = Sums(Lens(Masked(rows, sm)))[j - 1]
      BY DEF SpecRows
    <3> HIDE DEF tok, st, sm
    <3>2. PartOf(tok, st, k) = TokensOf(rows, Nth(sm, k))
      <4>1. rows \in Seq(RowSet) BY <1>1
      <4>2. sm \in SUBSET (1 .. Len(rows)) BY <1>1
      <4>3. \A j \in 1 .. Cardinality(TokenMask(rows, sm)) :
              tok[j] = Masked(Tokens(rows), TokenMask(rows, sm))[j]
        BY <3>1
      <4>4. \A j \in 1 .. Cardinality(sm) + 1 : st[j] = Sums(Lens(Masked(rows, sm)))[j - 1]
        BY <3>1
      <4> QED BY ONLY <4>1, <4>2, <4>3, <4>4, k \in 1 .. Cardinality(sm), PartTokens
    <3>3. {md.specTok[i + 1] : i \in Between(md.specStart, k)} = TokensOf(rows, Nth(sm, k))
      BY <3>2, Zenon DEF tok, st, PartOf
    <3> QED BY <3>3 DEF sm
  <2> DEFINE e(k) == [state |-> md.specState[k], acc |-> md.accepted[k],
              tokens |-> {md.specTok[i + 1] : i \in Between(md.specStart, k)}]
  <2>2. SpecWork(md) = {e(k) : k \in 1 .. Cardinality(sm)} BY Zenon DEF SpecWork
  <2>a. \A k \in 1 .. Cardinality(sm) : e(k) = swork(Nth(sm, k)) BY <2>1
  <2> HIDE DEF e, swork, sm, n
  <2>3. SpecWork(md) = {swork(Nth(sm, k)) : k \in 1 .. Cardinality(sm)} BY ONLY <2>2, <2>a
  <2>4. {Nth(sm, k) : k \in 1 .. Cardinality(sm)} = sm BY <1>1, MaskIs
  <2>5. {swork(Nth(sm, k)) : k \in 1 .. Cardinality(sm)}
          = {swork(i) : i \in {Nth(sm, k) : k \in 1 .. Cardinality(sm)}}
    OBVIOUS
  <2> QED BY <2>3, <2>4, <2>5, Zenon
<1>3. PrefillWork(md) = {pre(i) : i \in om}
  <2>1. ASSUME NEW k \in 1 .. Cardinality(om)
        PROVE  [state |-> md.prefillState[k], started |-> md.prefillStarted[k],
                tokens |-> {md.tok[i + 1] : i \in Between(md.prefillStart, k)}] = pre(Nth(om, k))
    <3> DEFINE tok == md.tok
               st == md.prefillStart
    <3>1. /\ \A j \in 1 .. Cardinality(TokenMask(rows, om)) :
               tok[j] = Masked(Tokens(rows), TokenMask(rows, om))[j]
          /\ \A j \in 1 .. Cardinality(om) + 1 : st[j] = Sums(Lens(Masked(rows, om)))[j - 1]
      BY DEF OtherRows
    <3> HIDE DEF tok, st, om
    <3>2. PartOf(tok, st, k) = TokensOf(rows, Nth(om, k))
      <4>1. rows \in Seq(RowSet) BY <1>1
      <4>2. om \in SUBSET (1 .. Len(rows)) BY <1>1
      <4>3. \A j \in 1 .. Cardinality(TokenMask(rows, om)) :
              tok[j] = Masked(Tokens(rows), TokenMask(rows, om))[j]
        BY <3>1
      <4>4. \A j \in 1 .. Cardinality(om) + 1 : st[j] = Sums(Lens(Masked(rows, om)))[j - 1]
        BY <3>1
      <4> QED BY ONLY <4>1, <4>2, <4>3, <4>4, k \in 1 .. Cardinality(om), PartTokens
    <3>3. {md.tok[i + 1] : i \in Between(md.prefillStart, k)} = TokensOf(rows, Nth(om, k))
      BY <3>2, Zenon DEF tok, st, PartOf
    <3> QED BY <3>3 DEF om
  <2> DEFINE e(k) == [state |-> md.prefillState[k], started |-> md.prefillStarted[k],
              tokens |-> {md.tok[i + 1] : i \in Between(md.prefillStart, k)}]
  <2>2. PrefillWork(md) = {e(k) : k \in 1 .. Cardinality(om)} BY Zenon DEF PrefillWork
  <2>a. \A k \in 1 .. Cardinality(om) : e(k) = pre(Nth(om, k)) BY <2>1
  <2> HIDE DEF e, pre, om, n
  <2>3. PrefillWork(md) = {pre(Nth(om, k)) : k \in 1 .. Cardinality(om)} BY ONLY <2>2, <2>a
  <2>4. {Nth(om, k) : k \in 1 .. Cardinality(om)} = om BY <1>1, MaskIs
  <2>5. {pre(Nth(om, k)) : k \in 1 .. Cardinality(om)}
          = {pre(i) : i \in {Nth(om, k) : k \in 1 .. Cardinality(om)}}
    OBVIOUS
  <2> QED BY <2>3, <2>4, <2>5, Zenon
<1>4. {[state |-> w.state, tokens |-> w.tokens] : w \in PrefillWork(md)} = {work(i) : i \in om}
  <2> DEFINE cut(w) == [state |-> w.state, tokens |-> w.tokens]
  <2>1. \A i \in om : cut(pre(i)) = work(i) OBVIOUS
  <2> HIDE DEF cut, pre, work, om
  <2>2. {cut(w) : w \in PrefillWork(md)} = {work(i) : i \in om} BY <1>3, <2>1
  <2> QED BY <2>2 DEF cut
<1>5. DecodeWork(md) = {} BY DEF DecodeWork
<1>6. {i \in DOMAIN rows :
         Speculative(rows) /\ (IsSpec(rows[i]) \/ (rows[i].req = Pad /\ md.usedSpec))} = sm
  BY DEF SpecMask
<1>7. {i \in DOMAIN rows : ~Speculative(rows) \/ (~IsSpec(rows[i]) /\ rows[i].req # Pad)} = om
  BY <1>1 DEF OtherMask, SpecMask
<1>8. \A w \in PrefillWork(md) : \E i \in DOMAIN rows :
        w.tokens = TokensOf(rows, i) /\ w.started = rows[i].started
  BY <1>1, <1>3
<1> QED BY <1>2, <1>4, <1>5, <1>6, <1>7, <1>8 DEF WorkOk

Begun(rows) == [i \in DOMAIN rows |-> rows[i].started]
Rebased(starts, F) == [i \in 1 .. Len(starts) - F |-> starts[F + i] - starts[F + 1]]

(* What a build with prompts keeps of its parts p, and the prompts' share of them. *)
PrefillsAre(md, p, kept, F) ==
  /\ md.decodes = p.decodes /\ md.specs = p.specs
  /\ md.specState = p.specState /\ md.accepted = p.accepted
  /\ md.specStart = p.specStart /\ md.specTok = p.specTok /\ md.tok = p.tok
  /\ md.state = p.state /\ md.start = p.start
  /\ md.prefillStart = Rebased(p.start, F)
  /\ md.prefillState = SubSeq(p.state, F + 1, Len(p.state))
  /\ md.prefillStarted = SubSeq(Begun(kept), F + 1, Len(Begun(kept)))

LEMMA PrefillFields ==
  ASSUME NEW rows, NEW p, IsMd(p), p.prefills # 0,
         NEW kept, kept = (IF p.specs > 0 THEN OtherRows(rows) ELSE rows),
         NEW F, F = (IF p.specs = 0 THEN p.decodes ELSE 0)
  PROVE  PrefillsAre(WithPrefills(rows, p), p, kept, F)
<1> DEFINE a == Rebased(p.start, F)
           b == SubSeq(p.state, F + 1, Len(p.state))
           c == SubSeq(Begun(kept), F + 1, Len(Begun(kept)))
<1>1. WithPrefills(rows, p) = [p EXCEPT !.prefillStart = a, !.prefillState = b, !.prefillStarted = c]
  BY Zenon DEF WithPrefills, Begun, Rebased
<1>2. DOMAIN p = MdFields BY DEF IsMd
<1> HIDE DEF a, b, c
<1>3. LET md == WithPrefills(rows, p)
      IN /\ md.decodes = p.decodes /\ md.specs = p.specs
         /\ md.specState = p.specState /\ md.accepted = p.accepted
         /\ md.specStart = p.specStart /\ md.specTok = p.specTok /\ md.tok = p.tok
         /\ md.state = p.state /\ md.start = p.start
         /\ md.prefillStart = a /\ md.prefillState = b /\ md.prefillStarted = c
  BY <1>1, <1>2 DEF MdFields
<1> QED BY <1>3, Zenon DEF a, b, c, PrefillsAre

LEMMA RowTensors ==
  ASSUME NEW rows \in Seq(RowSet), NEW g
  PROVE  LET n == Len(rows)
         IN /\ BlockTable(g, rows) = [i \in 1 .. n |-> BlockRow(g, rows[i])]
            /\ IsTensor(FirstColumn(BlockTable(g, rows)), n)
            /\ \A i \in 1 .. n : FirstColumn(BlockTable(g, rows))[i] = BlockRow(g, rows[i])[1]
            /\ IsTensor(Begun(rows), n) /\ \A i \in 1 .. n : Begun(rows)[i] = rows[i].started
            /\ IsTensor(Starts(Lens(rows)), n + 1)
            /\ \A i \in 1 .. n + 1 : Starts(Lens(rows))[i] = Sums(Lens(rows))[i - 1]
<1> DEFINE n == Len(rows)
<1>1. n \in Nat /\ DOMAIN rows = 1 .. n /\ Len(Lens(rows)) = n BY LensAre
<1>2. BlockTable(g, rows) = [i \in 1 .. n |-> BlockRow(g, rows[i])] BY <1>1 DEF BlockTable
<1>3. FirstColumn(BlockTable(g, rows)) = [i \in 1 .. n |-> BlockRow(g, rows[i])[1]]
  BY <1>2 DEF FirstColumn
<1>4. Begun(rows) = [i \in 1 .. n |-> rows[i].started] BY <1>1 DEF Begun
<1>5. Starts(Lens(rows)) = [i \in 1 .. n + 1 |-> Sums(Lens(rows))[i - 1]] BY <1>1 DEF Starts
<1> QED BY <1>2, <1>3, <1>4, <1>5 DEF IsTensor

LEMMA TailIs ==
  ASSUME NEW n \in Nat, NEW F \in 0 .. n, NEW s, IsTensor(s, n)
  PROVE  /\ Len(SubSeq(s, F + 1, Len(s))) = n - F
         /\ \A k \in 1 .. n - F : SubSeq(s, F + 1, Len(s))[k] = s[F + k]
<1> DEFINE v(i) == s[i]
<1>1. Len(s) = n BY TensorLen
<1>2. s = [i \in 1 .. n |-> v(i)] BY DEF IsTensor
<1> HIDE DEF v
<1>3. SubSeq([i \in 1 .. n |-> v(i)], F + 1, n) = [k \in 1 .. n - F |-> v(F + k)] OBVIOUS
<1>4. SubSeq(s, F + 1, Len(s)) = [k \in 1 .. n - F |-> v(F + k)] BY <1>1, <1>2, <1>3, Zenon
<1>5. n - F \in Nat OBVIOUS
<1> QED BY <1>4, <1>5 DEF v

LEMMA RebasedIs ==
  ASSUME NEW n \in Nat, NEW F \in 0 .. n, NEW s, IsTensor(s, n + 1)
  PROVE  \A k \in 1 .. (n - F) + 1 : Rebased(s, F)[k] = s[F + k] - s[F + 1]
<1>1. Len(s) = n + 1
  <2> DEFINE L == n + 1
  <2>1. L \in Nat /\ IsTensor(s, L) OBVIOUS
  <2> HIDE DEF L
  <2>2. Len(s) = L BY <2>1, TensorLen
  <2> QED BY <2>2 DEF L
<1>2. Len(s) - F = (n - F) + 1 BY <1>1
<1> QED BY <1>2 DEF Rebased

LEMMA PlainMd ==
  ASSUME NEW x, NEW y, NEW n, NEW state, NEW start
  PROVE  LET p == [[NoMetadata EXCEPT !.prefills = x, !.decodes = y, !.specs = 0, !.size = n]
                     EXCEPT !.state = state, !.start = start]
         IN IsMd(p) /\ p.prefills = x /\ p.decodes = y /\ p.specs = 0 /\ p.state = state /\ p.start = start
<1> DEFINE p == [[NoMetadata EXCEPT !.prefills = x, !.decodes = y, !.specs = 0, !.size = n]
                   EXCEPT !.state = state, !.start = start]
<1>1. IsMd(p) BY NoMd, ExceptMd
<1> QED BY <1>1 DEF NoMetadata

(* A padded batch of drafts has nothing else. *)
LEMMA MixedUnpadded ==
  ASSUME ConfInv, NEW rows, NEW m, BatchOf(rows, m), Speculative(rows), Counts(rows).prefills # 0
  PROVE  m = Len(rows) /\ Cardinality(SpecMask(rows)) > 0 /\ Cardinality(SpecMask(rows)) \in Nat
<1>1. /\ m \in Nat \ {0} /\ Len(rows) \in Nat /\ m <= Len(rows) /\ num_spec \in Nat
      /\ DOMAIN rows = 1 .. Len(rows)
  BY BatchRows, Conf
<1>2. CASE m < Len(rows)
  <2>1. \A i \in 1 .. m : IsSpec(rows[i]) BY <1>1, <1>2 DEF BatchOf, IsSpec
  <2>2. \A i \in m + 1 .. Len(rows) : rows[i].q = 0 BY DEF BatchOf, PadRow
  <2>3. {i \in OtherMask(rows) : rows[i].q > 0} = {}
    <3> SUFFICES ASSUME NEW i \in OtherMask(rows) PROVE ~(rows[i].q > 0) OBVIOUS
    <3>1. i \in 1 .. Len(rows) /\ ~IsSpec(rows[i]) BY <1>1 DEF OtherMask, SpecMask
    <3>2. i \in m + 1 .. Len(rows) BY <1>1, <2>1, <3>1
    <3> QED BY <2>2, <3>2
  <2>4. Cardinality({}) = 0 BY FS_EmptySet
  <2>5. Cardinality({i \in OtherMask(rows) : rows[i].q > 0}) = 0 BY <2>3, <2>4, Zenon
  <2> QED BY <2>5 DEF Counts
<1>3. SpecMask(rows) \in SUBSET (1 .. Len(rows)) BY BatchRows
<1>4. SpecMask(rows) # {}
  <2>1. PICK i \in DOMAIN rows : rows[i].draft > 0 BY DEF Speculative
  <2>2. rows[i] \in RowSet BY <1>1, <2>1 DEF BatchOf
  <2>3. rows[i].draft >= 0 BY <2>1, <2>2 DEF RowSet
  <2> QED BY <2>1, <2>3 DEF SpecMask, IsSpec
<1>5. IsFiniteSet(SpecMask(rows))
  <2>1. IsFiniteSet(1 .. Len(rows)) BY <1>1, FS_Interval
  <2> QED BY <1>3, <2>1, FS_Subset
<1>6. Cardinality(SpecMask(rows)) \in Nat /\ Cardinality(SpecMask(rows)) # 0
  BY <1>4, <1>5, FS_CardinalityType, FS_EmptySet
<1>7. CASE m = Len(rows)
  <2> DEFINE c == Cardinality(SpecMask(rows))
  <2>1. c \in Nat /\ c # 0 BY <1>6
  <2> HIDE DEF c
  <2>2. c > 0 BY <2>1
  <2> QED BY <1>7, <2>1, <2>2 DEF c
<1>8. m < Len(rows) \/ m = Len(rows)
  <2> DEFINE n == Len(rows)
  <2>1. m \in Nat /\ n \in Nat /\ m <= n BY <1>1
  <2> HIDE DEF n
  <2>2. m < n \/ m = n BY ONLY <2>1
  <2> QED BY <2>2 DEF n
<1> QED BY <1>2, <1>7, <1>8

(* A mixed step: build gives each part its rows, its tokens and its starts. *)
LEMMA MixedBuild ==
  ASSUME ConfInv, NEW rows, NEW m, BatchOf(rows, m), Speculative(rows), Counts(rows).prefills # 0,
         NEW g
  PROVE  WorkOk(g, rows, WithPrefills(rows, Parts(g, rows)))
<1> DEFINE spec == SpecRows(rows)
           others == OtherRows(rows)
           sm == SpecMask(rows)
           om == OtherMask(rows)
           numOther == NumTokens(others)
           first == SubSeq(TokenOrder(rows), 1, numOther)
           second == SubSeq(TokenOrder(rows), numOther + 1, NumTokens(rows))
           p == Parts(g, rows)
           md == WithPrefills(rows, p)
           so == Starts(Lens(others))
           bo == FirstColumn(BlockTable(g, others))
           bs == BlockTable(g, spec)
           ss == Starts(Lens(spec))
           c == Cardinality(sm)
           d == Cardinality(om)
           begun == Begun(others)
<1>1. m = Len(rows) /\ c > 0 /\ c \in Nat BY MixedUnpadded
<1>2. p = [[[NoMetadata EXCEPT !.prefills = Counts(rows).prefills, !.decodes = 0, !.specs = c,
                               !.size = Len(rows)]
              EXCEPT !.specState = bs, !.specMask = MaskOf(rows), !.specTokens = NumTokens(spec),
                     !.accepted = AcceptedOf(rows)]
              EXCEPT !.tok = first, !.specTok = second, !.specStart = ss, !.state = bo, !.start = so]
  <2>1. Counts(rows).decodes = 0 /\ Counts(rows).specs = c BY DEF Counts
  <2> QED BY <2>1, Zenon DEF Parts, MaskOf, AcceptedOf
<1>3. /\ IsMd(p) /\ p.prefills = Counts(rows).prefills /\ p.decodes = 0 /\ p.specs = c
      /\ p.specState = bs /\ p.accepted = AcceptedOf(rows) /\ p.tok = first /\ p.specTok = second
      /\ p.specStart = ss /\ p.state = bo /\ p.start = so
  <2> HIDE DEF p, first, second, bs, bo, ss, so, c, spec
  <2>1. IsMd(p)
    <3> DEFINE q == [NoMetadata EXCEPT !.prefills = Counts(rows).prefills, !.decodes = 0, !.specs = c,
                                       !.size = Len(rows)]
               r == [q EXCEPT !.specState = bs, !.specMask = MaskOf(rows),
                              !.specTokens = NumTokens(spec), !.accepted = AcceptedOf(rows)]
    <3>1. IsMd(q) BY NoMd, ExceptMd
    <3>2. p = [r EXCEPT !.tok = first, !.specTok = second, !.specStart = ss, !.state = bo, !.start = so]
      BY <1>2, Zenon
    <3> HIDE DEF q
    <3>3. IsMd(r) BY <3>1, ExceptMd
    <3> HIDE DEF r
    <3> QED BY <3>2, <3>3, ExceptMd
  <2>2. p.prefills = Counts(rows).prefills /\ p.decodes = 0 /\ p.specs = c /\ p.specState = bs
    BY <1>2 DEF NoMetadata
  <2>3. p.accepted = AcceptedOf(rows) /\ p.tok = first /\ p.specTok = second
    BY <1>2 DEF NoMetadata
  <2>4. p.specStart = ss /\ p.state = bo /\ p.start = so
    BY <1>2 DEF NoMetadata
  <2> QED BY <2>1, <2>2, <2>3, <2>4
<1>4. ~md.usedSpec BY MixedUsesNone
<1>5. /\ sm \in SUBSET (1 .. Len(rows)) /\ om \in SUBSET (1 .. Len(rows)) /\ rows \in Seq(RowSet)
  BY BatchRows DEF BatchOf
<1>6. d \in Nat BY <1>5, LensAre, CountIs
<1>7. /\ spec \in Seq(RowSet) /\ Len(spec) = c /\ \A k \in 1 .. c : spec[k] = rows[Nth(sm, k)]
  BY <1>5, MaskedRows DEF SpecRows
<1>8. /\ others \in Seq(RowSet) /\ Len(others) = d /\ \A k \in 1 .. d : others[k] = rows[Nth(om, k)]
  BY <1>5, MaskedRows DEF OtherRows
<1>9. /\ \A j \in 1 .. Cardinality(TokenMask(rows, om)) :
           first[j] = Masked(Tokens(rows), TokenMask(rows, om))[j]
      /\ \A j \in 1 .. Cardinality(TokenMask(rows, sm)) :
           second[j] = Masked(Tokens(rows), TokenMask(rows, sm))[j]
  BY OrderIs
<1>10. /\ md.decodes = 0 /\ md.specs = c
       /\ md.specState = bs /\ md.accepted = AcceptedOf(rows) /\ md.specStart = ss
       /\ md.specTok = second /\ md.tok = first /\ md.state = bo /\ md.start = so
       /\ md.prefillStart = Rebased(so, 0)
       /\ md.prefillState = SubSeq(bo, 0 + 1, Len(bo))
       /\ md.prefillStarted = SubSeq(begun, 0 + 1, Len(begun))
  <2> DEFINE F == 0
  <2>1. others = (IF p.specs > 0 THEN OtherRows(rows) ELSE rows)
        /\ F = (IF p.specs = 0 THEN p.decodes ELSE 0)
    BY <1>1, <1>3
  <2>2. p.prefills # 0 BY <1>3
  <2> HIDE DEF F, p, others
  <2>3. PrefillsAre(WithPrefills(rows, p), p, others, F)
    <3>1. IsMd(p) BY <1>3
    <3> QED BY ONLY <2>1, <2>2, <3>1, PrefillFields
  <2> QED BY <1>3, <2>3, Zenon DEF F, PrefillsAre
<1>11. \A k \in 1 .. c : bs[k] = BlockRow(g, rows[Nth(sm, k)]) /\ AcceptedOf(rows)[k] = rows[Nth(sm, k)].acc
  <2>1. bs = [k \in 1 .. c |-> BlockRow(g, spec[k])] BY <1>7, RowTensors
  <2>2. AcceptedOf(rows) = [k \in 1 .. c |-> spec[k].acc] BY <1>7 DEF AcceptedOf
  <2> QED BY <1>7, <2>1, <2>2
<1>12. \A k \in 1 .. c + 1 : ss[k] = Sums(Lens(spec))[k - 1] BY <1>7, RowTensors
<1>13. /\ IsTensor(bo, d) /\ IsTensor(begun, d) /\ IsTensor(so, d + 1)
       /\ \A k \in 1 .. d : bo[k] = BlockRow(g, rows[Nth(om, k)])[1] /\ begun[k] = rows[Nth(om, k)].started
       /\ \A k \in 1 .. d + 1 : so[k] = Sums(Lens(others))[k - 1]
  <2>1. others \in Seq(RowSet) /\ Len(others) = d BY <1>8
  <2> HIDE DEF others, d
  <2>2. /\ IsTensor(bo, d) /\ \A k \in 1 .. d : bo[k] = BlockRow(g, others[k])[1]
    BY <2>1, RowTensors
  <2>3. /\ IsTensor(begun, d) /\ \A k \in 1 .. d : begun[k] = others[k].started
    BY <2>1, RowTensors
  <2>4. /\ IsTensor(so, d + 1) /\ \A k \in 1 .. d + 1 : so[k] = Sums(Lens(others))[k - 1]
    BY <2>1, RowTensors
  <2> HIDE DEF bo, begun, so
  <2> QED BY <1>8, <2>2, <2>3, <2>4
<1>14. /\ Len(md.prefillState) = d
       /\ \A k \in 1 .. d : md.prefillState[k] = bo[k] /\ md.prefillStarted[k] = begun[k]
  <2> DEFINE F == 0
  <2>1. F \in 0 .. d BY <1>6
  <2> HIDE DEF F, d, bo, begun, md
  <2>2. Len(SubSeq(bo, F + 1, Len(bo))) = d - F /\ \A k \in 1 .. d - F : SubSeq(bo, F + 1, Len(bo))[k] = bo[F + k]
    <3>1. IsTensor(bo, d) BY <1>13, Zenon
    <3> QED BY ONLY <1>6, <2>1, <3>1, TailIs, Zenon
  <2>3. \A k \in 1 .. d - F : SubSeq(begun, F + 1, Len(begun))[k] = begun[F + k]
    <3>1. IsTensor(begun, d) BY <1>13, Zenon
    <3> QED BY ONLY <1>6, <2>1, <3>1, TailIs, Zenon
  <2>4. md.prefillState = SubSeq(bo, F + 1, Len(bo)) /\ md.prefillStarted = SubSeq(begun, F + 1, Len(begun))
    BY <1>10, Zenon DEF F
  <2>5. d - F = d /\ \A k \in 1 .. d : F + k = k BY <1>6 DEF F
  <2> QED BY <2>2, <2>3, <2>4, <2>5
<1>15. \A k \in 1 .. d + 1 : md.prefillStart[k] = Sums(Lens(others))[k - 1]
  <2> DEFINE F == 0
             S == Sums(Lens(others))
  <2>1. F \in 0 .. d BY <1>6
  <2>2. NumTokens(others) \in Nat /\ S[0] = 0 /\ \A i \in 0 .. d : S[i] \in 0 .. NumTokens(others)
    BY <1>8, RowSums
  <2> HIDE DEF S
  <2>3. \A i \in 0 .. d : S[i] \in Int BY <2>2
  <2>4. \A k \in 1 .. d + 1 : so[k] = S[k - 1] BY <1>13 DEF S
  <2> HIDE DEF F, d, so, md
  <2>5. \A k \in 1 .. (d - F) + 1 : Rebased(so, F)[k] = so[F + k] - so[F + 1]
    BY <1>6, <1>13, <2>1, RebasedIs
  <2>6. md.prefillStart = Rebased(so, F) BY <1>10, Zenon DEF F
  <2>7. F + 1 = 1 /\ (d - F) + 1 = d + 1 /\ \A k \in 1 .. d + 1 : F + k = k BY <1>6 DEF F
  <2>8. so[1] = 0 BY <1>6, <2>2, <2>4
  <2>9. \A k \in 1 .. d + 1 : md.prefillStart[k] = so[k] - 0 BY <2>5, <2>6, <2>7, <2>8
  <2>10. \A k \in 1 .. d + 1 : S[k - 1] \in Int BY <1>6, <2>3
  <2>11. \A k \in 1 .. d + 1 : md.prefillStart[k] = S[k - 1] BY <2>4, <2>9, <2>10
  <2> QED BY <2>11 DEF S
<1>16. BatchOf(rows, Len(rows)) BY <1>1
<1> HIDE DEF md, p, c, d, spec, others, first, second, bs, bo, ss, so, begun
<1>17. WorkOk(g, rows, md)
  <2>1. md.specs = Cardinality(SpecMask(rows)) /\ md.specs > 0 /\ ~md.usedSpec /\ md.decodes = 0
        /\ Len(md.prefillState) = Cardinality(OtherMask(rows))
    BY <1>1, <1>4, <1>10, <1>14 DEF c, d
  <2>2. \A k \in 1 .. Cardinality(SpecMask(rows)) :
          LET row == rows[Nth(SpecMask(rows), k)]
          IN md.specState[k] = BlockRow(g, row) /\ md.accepted[k] = row.acc
    BY <1>10, <1>11 DEF c
  <2>3. \A k \in 1 .. Cardinality(SpecMask(rows)) + 1 :
          md.specStart[k] = Sums(Lens(SpecRows(rows)))[k - 1]
    BY <1>10, <1>12 DEF c, spec
  <2>4. \A j \in 1 .. Cardinality(TokenMask(rows, SpecMask(rows))) :
          md.specTok[j] = Masked(Tokens(rows), TokenMask(rows, SpecMask(rows)))[j]
    BY <1>9, <1>10
  <2>5. \A k \in 1 .. Cardinality(OtherMask(rows)) :
          LET row == rows[Nth(OtherMask(rows), k)]
          IN md.prefillState[k] = BlockRow(g, row)[1] /\ md.prefillStarted[k] = row.started
    BY <1>13, <1>14 DEF d
  <2>6. \A k \in 1 .. Cardinality(OtherMask(rows)) + 1 :
          md.prefillStart[k] = Sums(Lens(OtherRows(rows)))[k - 1]
    BY <1>15 DEF d, others
  <2>7. \A j \in 1 .. Cardinality(TokenMask(rows, OtherMask(rows))) :
          md.tok[j] = Masked(Tokens(rows), TokenMask(rows, OtherMask(rows)))[j]
    BY <1>9, <1>10
  <2> QED BY <1>16, <2>1, <2>2, <2>3, <2>4, <2>5, <2>6, <2>7, MixWork
<1> QED BY <1>17 DEF md, p

(* A step without drafts and with prefills. *)
LEMMA PlainBuild ==
  ASSUME NEW rows, NEW m, BatchOf(rows, m), ~Speculative(rows), Counts(rows).prefills # 0, NEW g
  PROVE  WorkOk(g, rows, WithPrefills(rows, Parts(g, rows)))
<1> DEFINE n == Len(rows)
           F == FrontDecodes(rows)
           fc == FirstColumn(BlockTable(g, rows))
           st == Starts(Lens(rows))
           begun == Begun(rows)
           p == Parts(g, rows)
           md == WithPrefills(rows, p)
<1>1. n \in Nat /\ F \in 0 .. n /\ rows \in Seq(RowSet) BY BatchRows, FrontIs DEF BatchOf
<1>2. p = [[NoMetadata EXCEPT !.prefills = n - F, !.decodes = F, !.specs = 0, !.size = n]
             EXCEPT !.state = fc, !.start = st]
  <2>1. Counts(rows).prefills = n - F /\ Counts(rows).decodes = F /\ Counts(rows).specs = 0
    BY DEF Counts
  <2> QED BY <2>1, Zenon DEF Parts
<1>3. IsMd(p) /\ p.prefills = n - F /\ p.decodes = F /\ p.specs = 0 /\ p.state = fc /\ p.start = st
  <2> HIDE DEF p, fc, st, F, n
  <2>1. IsMd(p) BY <1>2, NoMd, ExceptMd
  <2>2. p.prefills = n - F /\ p.decodes = F /\ p.specs = 0 BY <1>2 DEF NoMetadata
  <2>3. p.state = fc /\ p.start = st BY <1>2 DEF NoMetadata
  <2> QED BY <2>1, <2>2, <2>3
<1>4. ~md.usedSpec BY MixedUsesNone
<1>5. p.prefills # 0 BY <1>3 DEF Counts
<1>6. /\ IsTensor(fc, n) /\ IsTensor(begun, n) /\ IsTensor(st, n + 1)
      /\ \A k \in 1 .. n : fc[k] = BlockRow(g, rows[k])[1] /\ begun[k] = rows[k].started
      /\ \A k \in 1 .. n + 1 : st[k] = Sums(Lens(rows))[k - 1]
  BY <1>1, RowTensors
<1>7. /\ md.decodes = F /\ md.specs = 0 /\ md.state = fc /\ md.start = st
      /\ md.prefillStart = Rebased(st, F)
      /\ md.prefillState = SubSeq(fc, F + 1, Len(fc))
      /\ md.prefillStarted = SubSeq(begun, F + 1, Len(begun))
  <2>1. rows = (IF p.specs > 0 THEN OtherRows(rows) ELSE rows)
        /\ F = (IF p.specs = 0 THEN p.decodes ELSE 0)
    BY <1>3
  <2> HIDE DEF F, p
  <2>3. PrefillsAre(WithPrefills(rows, p), p, rows, F)
    <3>1. IsMd(p) BY <1>3
    <3> QED BY ONLY <1>5, <2>1, <3>1, PrefillFields
  <2> QED BY <1>3, <2>3, Zenon DEF PrefillsAre
<1> HIDE DEF p, md, fc, st, begun, F, n
<1>8. Len(md.prefillState) = n - F
      /\ \A k \in 1 .. n - F : md.prefillState[k] = fc[F + k] /\ md.prefillStarted[k] = begun[F + k]
  BY <1>1, <1>6, <1>7, TailIs, SMTT(20)
<1>9. \A k \in 1 .. (n - F) + 1 : md.prefillStart[k] = st[F + k] - st[F + 1]
  BY <1>1, <1>6, <1>7, RebasedIs
<1>10. \A k \in 1 .. n : md.state[k] = BlockRow(g, rows[k])[1] BY <1>6, <1>7
<1>11. \A k \in 1 .. n + 1 : md.start[k] = Sums(Lens(rows))[k - 1] BY <1>6, <1>7
<1>12. ASSUME NEW k \in 1 .. n - F
       PROVE  /\ md.prefillState[k] = md.state[F + k] /\ md.prefillStarted[k] = rows[F + k].started
              /\ md.prefillStart[k] = md.start[F + k] - md.start[F + 1]
              /\ md.prefillStart[k + 1] = md.start[F + (k + 1)] - md.start[F + 1]
  <2>1. F + k \in 1 .. n /\ k \in 1 .. (n - F) + 1 /\ k + 1 \in 1 .. (n - F) + 1 BY <1>1
  <2> QED BY <1>6, <1>7, <1>8, <1>9, <2>1
<1>13. WorkOk(g, rows, md)
  <2>1. F = FrontDecodes(rows) BY DEF F
  <2>2. md.decodes = F /\ md.specs = 0 BY <1>7
  <2>3. Len(md.prefillState) = Len(rows) - F BY <1>8 DEF n
  <2>4. \A k \in 1 .. Len(rows) : md.state[k] = BlockRow(g, rows[k])[1] BY <1>10 DEF n
  <2>5. \A k \in 1 .. Len(rows) + 1 : md.start[k] = Sums(Lens(rows))[k - 1] BY <1>11 DEF n
  <2>6. \A k \in 1 .. Len(rows) - F :
          /\ md.prefillState[k] = md.state[F + k] /\ md.prefillStarted[k] = rows[F + k].started
          /\ md.prefillStart[k] = md.start[F + k] - md.start[F + 1]
          /\ md.prefillStart[k + 1] = md.start[F + (k + 1)] - md.start[F + 1]
    BY <1>12 DEF n
  <2> QED BY <1>4, <2>1, <2>2, <2>3, <2>4, <2>5, <2>6, PlainWork
<1> QED BY <1>13 DEF md, p

(* All rows are decodes, whether or not their tensors are views. *)
LEMMA DecWork ==
  ASSUME NEW rows, NEW m, BatchOf(rows, m), DecodesOnly(rows), NEW g, NEW md,
         md.decodes = Len(rows), md.specs = 0, ~md.usedSpec, md.prefillState = <<>>,
         \A k \in 1 .. Len(rows) : md.state[k] = BlockRow(g, rows[k])[1],
         \A k \in 1 .. Len(rows) + 1 : md.start[k] = Sums(Lens(rows))[k - 1]
  PROVE  WorkOk(g, rows, md)
<1> DEFINE n == Len(rows)
           F == FrontDecodes(rows)
<1>1. n \in Nat /\ F \in 0 .. n BY BatchRows, FrontIs
<1>2. n - F = 0 /\ ~Speculative(rows) BY DEF DecodesOnly, Counts
<1>3. F = n
  <2> HIDE DEF F, n
  <2> QED BY <1>1, <1>2
<1>4. Len(md.prefillState) = n - F BY <1>2
<1>5. 1 .. n - F = {}
  <2> HIDE DEF F, n
  <2> QED BY <1>2
<1> HIDE DEF F
<1>6. \A k \in 1 .. n - F :
           /\ md.prefillState[k] = md.state[F + k] /\ md.prefillStarted[k] = rows[F + k].started
           /\ md.prefillStart[k] = md.start[F + k] - md.start[F + 1]
           /\ md.prefillStart[k + 1] = md.start[F + (k + 1)] - md.start[F + 1]
  BY <1>5
<1>7. F = FrontDecodes(rows) /\ md.decodes = F BY <1>3 DEF F
<1> QED BY <1>2, <1>4, <1>6, <1>7, PlainWork

(* What the layers of a step without drafts or prefills read. *)
LEMMA DecRead ==
  ASSUME ConfInv, NEW rows, NEW m, BatchOf(rows, m), DecodesOnly(rows), NEW g,
         NEW buf, Buffers(buf)
  PROVE  WorkOk(g, rows, Viewed(Built(g, rows, buf).buf, Built(g, rows, buf).md))
<1> DEFINE n == Len(rows)
           S == size.bs
           st == FirstColumn(BlockTable(g, rows))
           ss == Starts(Lens(rows))
           new == DecBuf(buf, rows, st)
           old == DecMd(rows, st)
           dv == DecView(new, rows, st)
           rd == Viewed(new, dv)
<1>1. n \in Nat /\ n # 0 /\ S \in Nat BY BatchRows, Conf
<1>2. /\ SubSeq(st, 1, n) = st /\ Len(st) = n /\ st = [i \in 1 .. n |-> BlockRow(g, rows[i])[1]]
      /\ SubSeq(ss, 1, n + 1) = ss /\ Len(ss) = n + 1
      /\ ss = [i \in 1 .. n + 1 |-> Sums(Lens(rows))[i - 1]]
  BY DecTensors
<1>3. CASE ~DecFits(rows)
  <2>1. Built(g, rows, buf) = [buf |-> buf, md |-> old] BY <1>3, BuiltDec
  <2>2. /\ old.prefills = 0 /\ old.decodes = n /\ old.specs = 0 /\ old.size = n
        /\ old.state = st /\ old.start = ss /\ old.prefillState = <<>>
    <3> HIDE DEF st
    <3> QED BY DecMdFields
  <2>3. ~old.usedSpec BY DecMdFlags
  <2> HIDE DEF old, st, ss
  <2>4. ~UsesSpecBuffers(old) /\ ~UsesDecodeBuffers(old)
    BY <1>1, <1>3, <2>2 DEF UsesSpecBuffers, UsesDecodeBuffers, DecFits
  <2>5. Viewed(buf, old) = old BY <2>4 DEF Viewed
  <2>6. \A k \in 1 .. n : old.state[k] = BlockRow(g, rows[k])[1] BY <1>2, <2>2
  <2>7. \A k \in 1 .. n + 1 : old.start[k] = Sums(Lens(rows))[k - 1] BY <1>2, <2>2
  <2>8. WorkOk(g, rows, old) BY <2>2, <2>3, <2>6, <2>7, DecWork
  <2>9. Built(g, rows, buf).buf = buf /\ Built(g, rows, buf).md = old BY <2>1
  <2> QED BY <2>5, <2>8, <2>9
<1>4. CASE DecFits(rows)
  <2>1. Built(g, rows, buf) = [buf |-> new, md |-> dv] BY <1>4, BuiltDec
  <2>2. Buffers(buf) /\ Buffers(new) /\ n <= S /\ IsBuf(buf) BY <1>4, DecBufTyped DEF DecFits, Buffers
  <2>3. /\ new.state = CopyAndFill(buf.state, st, n, NULL_BLOCK)
        /\ new.start = CopyAndFill(buf.start, ss, n + 1, Last(ss))
    <3>1. /\ new.state = CopyAndFill(buf.state, SubSeq(st, 1, n), n, NULL_BLOCK)
          /\ new.start = CopyAndFill(buf.start, SubSeq(ss, 1, n + 1), n + 1, Last(ss))
      BY <2>2, DecBufFields
    <3> HIDE DEF new, st, ss
    <3> QED BY <1>2, <3>1, Zenon
  <2>4. /\ dv.prefills = 0 /\ dv.decodes = n /\ dv.specs = 0 /\ dv.size = n /\ IsMd(dv)
        /\ dv.prefillState = <<>>
    <3> HIDE DEF new, st
    <3> QED BY DecViewFields
  <2>5. ~dv.usedSpec BY DecViewFlags
  <2> HIDE DEF dv, new
  <2>6. ~UsesSpecBuffers(dv) /\ UsesDecodeBuffers(dv)
    BY <1>1, <1>4, <2>4 DEF UsesSpecBuffers, UsesDecodeBuffers, DecFits
  <2>7. rd = [dv EXCEPT !.usedDecode = TRUE, !.state = View(new.state, n), !.start = View(new.start, n + 1)]
    BY <2>4, <2>6, Zenon DEF Viewed
  <2>8. DOMAIN dv = MdFields BY <2>4 DEF IsMd
  <2> DEFINE a == View(new.state, n)
             b == View(new.start, n + 1)
  <2> HIDE DEF a, b, rd
  <2>9. /\ rd.decodes = n /\ rd.specs = 0 /\ rd.prefillState = <<>> /\ rd.state = a /\ rd.start = b
    BY <2>4, <2>7, <2>8 DEF MdFields, a, b
  <2>10. ~rd.usedSpec BY <2>5, <2>7, <2>8 DEF MdFields
  <2>11. \A k \in 1 .. n : a[k] = BlockRow(g, rows[k])[1]
    <3> DEFINE x == CopyAndFill(buf.state, st, n, NULL_BLOCK)
    <3>1. IsTensor(buf.state, S) BY <2>2 DEF Buffers
    <3> HIDE DEF st, S
    <3>2. IsTensor(x, S) /\ \A i \in 1 .. S : x[i] = IF i <= Len(st) THEN st[i]
                                                    ELSE IF i <= n THEN NULL_BLOCK ELSE buf.state[i]
      BY <1>1, <3>1, CopyTyped
    <3> HIDE DEF x
    <3>3. View(x, n) = [i \in 1 .. n |-> x[i]] BY <1>1, <2>2, <3>2, ViewIs
    <3>4. \A k \in 1 .. n : View(x, n)[k] = st[k] BY <1>1, <1>2, <2>2, <3>2, <3>3
    <3>5. a = View(x, n) BY <2>3, Zenon DEF a, x
    <3> QED BY <1>2, <3>4, <3>5
  <2>12. \A k \in 1 .. n + 1 : b[k] = Sums(Lens(rows))[k - 1]
    <3> DEFINE j == n + 1
               M == S + 1
               x == CopyAndFill(buf.start, ss, j, Last(ss))
    <3>1. IsTensor(buf.start, M) BY <2>2 DEF Buffers
    <3>2. j \in Nat /\ M \in Nat /\ j <= M BY <1>1, <2>2
    <3>3. Len(ss) = j BY <1>2
    <3>4. b = View(x, j) BY <2>3, Zenon DEF b
    <3> HIDE DEF ss, S, n, j, M
    <3>5. IsTensor(x, M) /\ \A i \in 1 .. M : x[i] = IF i <= Len(ss) THEN ss[i]
                                                    ELSE IF i <= j THEN Last(ss) ELSE buf.start[i]
      BY <3>1, <3>2, CopyTyped
    <3> HIDE DEF x
    <3>6. View(x, j) = [i \in 1 .. j |-> x[i]] BY <3>2, <3>5, ViewIs
    <3>7. \A k \in 1 .. j : View(x, j)[k] = ss[k] BY <3>2, <3>3, <3>5, <3>6
    <3>8. \A k \in 1 .. j : b[k] = ss[k] BY <3>4, <3>7
    <3>9. \A k \in 1 .. n + 1 : b[k] = ss[k] BY <3>8 DEF j
    <3> QED BY <1>2, <3>9
  <2>13. WorkOk(g, rows, rd) BY <2>9, <2>10, <2>11, <2>12, DecWork
  <2>14. Built(g, rows, buf).buf = new /\ Built(g, rows, buf).md = dv BY <2>1
  <2> QED BY <2>13, <2>14 DEF rd
<1> QED BY <1>3, <1>4

(* The first n of buf show vals, then v. *)
Shows(buf, vals, n, v) ==
  \A k \in 1 .. n : View(CopyAndFill(buf, vals, n, v), n)[k] = IF k <= Len(vals) THEN vals[k] ELSE v

LEMMA FillView ==
  ASSUME NEW L \in Nat, NEW b, IsTensor(b, L), NEW vals, Len(vals) \in Nat,
         NEW n \in Nat, n <= L, NEW v
  PROVE  Shows(b, vals, n, v)
<1> DEFINE x == CopyAndFill(b, vals, n, v)
<1>1. IsTensor(x, L) /\ \A i \in 1 .. L : x[i] = IF i <= Len(vals) THEN vals[i] ELSE IF i <= n THEN v ELSE b[i]
  BY CopyTyped
<1> HIDE DEF x
<1>2. View(x, n) = [i \in 1 .. n |-> x[i]] BY <1>1, ViewIs
<1>3. \A k \in 1 .. n : View(x, n)[k] = IF k <= Len(vals) THEN vals[k] ELSE v BY <1>1, <1>2
<1> QED BY <1>3 DEF x, Shows

(* What the layers of a step of drafts only read. *)
LEMMA SpecRead ==
  ASSUME ConfInv, NEW rows, NEW m, BatchOf(rows, m), DraftsOnly(rows), NEW g,
         NEW buf, Buffers(buf)
  PROVE  WorkOk(g, rows, Viewed(Built(g, rows, buf).buf, Built(g, rows, buf).md))
<1> DEFINE n == Len(rows)
           S == size.bs
           N == NumTokens(rows)
           R == Sums(Lens(rows))
           st == BlockTable(g, SpecRows(rows))
           ac == AcceptedOf(rows)
           ss == FrontStarts(rows, m)
           tk == Tokens(rows)
           new == SpecBuf(buf, rows, m, st)
           old == SpecMd(rows, m, st)
           sv == SpecView(new, rows, m, st)
           rd == Viewed(new, sv)
<1>1. /\ n \in Nat /\ m \in Nat \ {0} /\ m <= n /\ S \in Nat /\ num_spec \in Nat /\ N \in Nat
      /\ rows \in Seq(RowSet)
  BY BatchRows, Conf, SpecTensors DEF BatchOf
<1>2. /\ Len(st) = m /\ Len(ac) = m /\ Len(ss) = m + 1 /\ Len(tk) = N
      /\ ss = [i \in 1 .. m + 1 |-> R[i - 1]]
  BY SpecTensors, TableFront
<1>3. /\ \A k \in 1 .. m : st[k] = BlockRow(g, rows[k]) /\ ac[k] = rows[k].acc
      /\ \A k \in 1 .. N : tk[k] = k - 1
  <2>1. SpecRows(rows) = [k \in 1 .. m |-> rows[k]] BY DraftsFirst
  <2>2. st = [k \in 1 .. m |-> BlockRow(g, rows[k])] /\ ac = [k \in 1 .. m |-> rows[k].acc]
    BY <2>1 DEF BlockTable, AcceptedOf
  <2> QED BY <2>2 DEF Tokens
<1>4. CASE ~SpecFits(rows, m)
  <2>1. Built(g, rows, buf) = [buf |-> buf, md |-> old] BY <1>4, BuiltSpec
  <2>2. /\ old.prefills = 0 /\ old.decodes = 0 /\ old.specs = m /\ old.size = n
        /\ old.specTokens = NumTokens(SpecRows(rows)) /\ old.prefillState = <<>>
        /\ old.specState = st /\ old.accepted = ac /\ old.specStart = ss /\ old.specTok = tk
    <3> HIDE DEF st
    <3> QED BY SpecMdFields
  <2>3. ~old.usedSpec BY SpecMdFlags
  <2> HIDE DEF old, st, ss, ac, tk, N, R, n
  <2>4. ~UsesSpecBuffers(old) /\ ~UsesDecodeBuffers(old)
    BY <1>1, <1>4, <2>2 DEF UsesSpecBuffers, UsesDecodeBuffers, SpecFits
  <2>5. Viewed(buf, old) = old BY <2>4 DEF Viewed
  <2>6. WorkOk(g, rows, old)
    <3>1. m \in m .. Len(rows) BY <1>1 DEF n
    <3>2. (IF old.usedSpec THEN old.size ELSE old.specs) = m BY <2>2, <2>3
    <3>3. \A k \in 1 .. m : old.specState[k] = BlockRow(g, rows[k]) /\ old.accepted[k] = rows[k].acc
      BY <1>3, <2>2
    <3>4. \A k \in 1 .. m + 1 : old.specStart[k] = Sums(Lens(rows))[k - 1] BY <1>2, <2>2 DEF R
    <3>5. \A t \in 0 .. NumTokens(rows) - 1 : old.specTok[t + 1] = t BY <1>1, <1>3, <2>2 DEF N
    <3>6. \A k \in m + 1 .. Len(rows) : old.usedSpec <=> k <= m BY <1>1, <2>3
    <3>7. old.decodes = 0 /\ old.prefillState = <<>> BY <2>2
    <3> QED BY <3>1, <3>2, <3>3, <3>4, <3>5, <3>6, <3>7, DraftWork
  <2>7. Built(g, rows, buf).buf = buf /\ Built(g, rows, buf).md = old BY <2>1
  <2> QED BY <2>5, <2>6, <2>7
<1>5. CASE SpecFits(rows, m)
  <2>1. Built(g, rows, buf) = [buf |-> new, md |-> sv] BY <1>5, BuiltSpec
  <2>2. Buffers(buf) /\ Buffers(new) /\ IsBuf(buf) BY SpecBufTyped DEF Buffers
  <2>3. n <= S BY <1>5, SpecFitsBuffers
  <2>4. /\ new.specState = CopyAndFill(buf.specState, st, n, NullRow)
        /\ new.specTok = CopyInto(buf.specTok, tk)
        /\ new.specStart = CopyAndFill(buf.specStart, ss, n + 1, Last(ss))
        /\ new.accepted = CopyAndFill(buf.accepted, ac, n, 1)
    <3> HIDE DEF st
    <3> QED BY <2>2, SpecBufFields
  <2>5. /\ sv.prefills = 0 /\ sv.decodes = 0 /\ sv.specs = m /\ sv.size = n /\ IsMd(sv)
        /\ sv.specTokens = NumTokens(SpecRows(rows)) /\ sv.prefillState = <<>>
        /\ sv.specTok = View(new.specTok, N)
    <3>1. Len(Tokens(rows)) = N BY <1>2
    <3> HIDE DEF new, st, N, n
    <3>2. /\ sv.prefills = 0 /\ sv.decodes = 0 /\ sv.specs = m /\ sv.size = Len(rows) /\ IsMd(sv)
          /\ sv.specTokens = NumTokens(SpecRows(rows)) /\ sv.prefillState = <<>>
          /\ sv.specTok = View(new.specTok, Len(Tokens(rows)))
      BY SpecViewFields
    <3> QED BY <3>1, <3>2 DEF n
  <2> HIDE DEF sv, new
  <2>6. UsesSpecBuffers(sv) BY <1>1, <1>5, <2>5 DEF UsesSpecBuffers, SpecFits
  <2> DEFINE a == View(new.specState, n)
             b == View(new.specStart, n + 1)
             c == View(new.accepted, n)
             d == View(new.specTok, Len(sv.specTok))
             e == View(new.specMask, n)
             f == View(new.tok, Len(sv.tok))
  <2>7. rd = [sv EXCEPT !.usedSpec = TRUE, !.specState = a, !.specMask = e, !.tok = f,
                        !.specTok = d, !.specStart = b, !.accepted = c]
    BY <2>5, <2>6, Zenon DEF Viewed
  <2>8. DOMAIN sv = MdFields BY <2>5 DEF IsMd
  <2> HIDE DEF a, b, c, d, e, f, rd
  <2>9. /\ rd.decodes = 0 /\ rd.size = n /\ rd.prefillState = <<>> /\ rd.specState = a
        /\ rd.specStart = b /\ rd.accepted = c /\ rd.specTok = d
    BY <2>5, <2>7, <2>8 DEF MdFields
  <2>10. rd.usedSpec BY <2>7, <2>8 DEF MdFields
  <2>11. \A k \in 1 .. n : a[k] = BlockRow(g, rows[k]) /\ c[k] = rows[k].acc
    <3>1. a = View(CopyAndFill(buf.specState, st, n, NullRow), n)
          /\ c = View(CopyAndFill(buf.accepted, ac, n, 1), n)
      BY <2>4, Zenon DEF a, c
    <3>2. IsTensor(buf.specState, S) /\ IsTensor(buf.accepted, S) BY <2>2 DEF Buffers
    <3>3. ASSUME NEW k \in m + 1 .. n PROVE NullRow = BlockRow(g, rows[k]) /\ rows[k].acc = 1
      <4>1. rows[k] = PadRow BY DEF BatchOf
      <4>2. PadRow.req = Pad /\ PadRow.acc = 1 BY DEF PadRow
      <4>3. [req |-> Pad].req = Pad OBVIOUS
      <4> QED BY <4>1, <4>2, <4>3 DEF NullRow, BlockRow
    <3> HIDE DEF st, ac, n, S
    <3>4. \A k \in 1 .. n : a[k] = IF k <= m THEN st[k] ELSE NullRow
      <4>1. Shows(buf.specState, st, n, NullRow) BY <1>1, <1>2, <2>3, <3>2, FillView
      <4> QED BY <1>2, <3>1, <4>1 DEF Shows
    <3>5. \A k \in 1 .. n : c[k] = IF k <= m THEN ac[k] ELSE 1
      <4>1. Shows(buf.accepted, ac, n, 1) BY <1>1, <1>2, <2>3, <3>2, FillView
      <4> QED BY <1>2, <3>1, <4>1 DEF Shows
    <3> SUFFICES ASSUME NEW k \in 1 .. n PROVE a[k] = BlockRow(g, rows[k]) /\ c[k] = rows[k].acc
      OBVIOUS
    <3>6. CASE k <= m
      <4>1. k \in 1 .. m BY <1>1, <3>6
      <4> QED BY <1>3, <3>4, <3>5, <3>6, <4>1
    <3>7. CASE ~(k <= m)
      <4>1. k \in m + 1 .. n BY <1>1, <3>7
      <4> QED BY <3>3, <3>4, <3>5, <3>7, <4>1
    <3> QED BY <3>6, <3>7
  <2>12. \A k \in 1 .. n + 1 : b[k] = R[k - 1]
    <3>1. \A i \in m .. n : R[i] = R[m] BY PadSums
    <3>2. Last(ss) = R[m]
      <4> HIDE DEF ss, R
      <4> QED BY <1>1, <1>2 DEF Last
    <3> DEFINE j == n + 1
               M == S + 1
    <3>3. IsTensor(buf.specStart, M) BY <2>2 DEF Buffers
    <3>4. j \in Nat /\ M \in Nat /\ j <= M BY <1>1, <2>3
    <3>5. b = View(CopyAndFill(buf.specStart, ss, j, Last(ss)), j) BY <2>4, Zenon DEF b
    <3>6. Len(ss) \in Nat BY <1>1, <1>2
    <3> HIDE DEF ss, R, j, M, n
    <3>7. Shows(buf.specStart, ss, j, Last(ss)) BY <3>3, <3>4, <3>6, FillView
    <3>8. \A k \in 1 .. n + 1 : b[k] = IF k <= m + 1 THEN ss[k] ELSE Last(ss)
      BY <1>2, <3>5, <3>7 DEF j, Shows
    <3> SUFFICES ASSUME NEW k \in 1 .. n + 1 PROVE b[k] = R[k - 1] OBVIOUS
    <3>9. CASE k <= m + 1
      <4>1. k \in 1 .. m + 1 BY <1>1, <3>9
      <4> QED BY <1>2, <3>8, <3>9, <4>1
    <3>10. CASE ~(k <= m + 1)
      <4>1. k - 1 \in m .. n BY <1>1, <3>10
      <4> QED BY <3>1, <3>2, <3>8, <3>10, <4>1
    <3> QED BY <3>9, <3>10
  <2>13. \A t \in 0 .. N - 1 : d[t + 1] = t
    <3> DEFINE L == S * (num_spec + 1)
               x == CopyInto(buf.specTok, tk)
    <3>1. N <= S BY <1>5, SpecTokens DEF SpecFits
    <3>2. IsTensor(buf.specTok, L) BY <2>2 DEF Buffers
    <3> HIDE DEF N, S, tk
    <3>3. L \in Nat /\ N <= L
      <4>1. L = S * num_spec + S BY <1>1
      <4>2. S * num_spec \in Nat BY <1>1
      <4> HIDE DEF L
      <4> QED BY <1>1, <3>1, <4>1, <4>2
    <3>4. d = View(x, Len(View(x, N))) BY <2>4, <2>5, Zenon DEF d
    <3> HIDE DEF L
    <3>5. IsTensor(x, L) /\ \A i \in 1 .. L : x[i] = IF i <= Len(tk) THEN tk[i] ELSE buf.specTok[i]
      <4>1. DOMAIN buf.specTok = 1 .. L BY <3>2, <3>3, TensorLen
      <4> QED BY <4>1 DEF CopyInto, IsTensor
    <3> HIDE DEF x
    <3>6. View(x, Len(View(x, N))) = View(x, N) /\ View(x, N) = [i \in 1 .. N |-> x[i]]
      BY <1>1, <3>3, <3>5, ViewIs
    <3> SUFFICES ASSUME NEW t \in 0 .. N - 1 PROVE d[t + 1] = t OBVIOUS
    <3>7. t + 1 \in 1 .. N /\ t + 1 \in 1 .. L /\ (t + 1) - 1 = t BY <1>1, <3>3
    <3>8. d[t + 1] = x[t + 1] BY <3>4, <3>6, <3>7
    <3>9. x[t + 1] = tk[t + 1] BY <1>2, <3>5, <3>7
    <3>10. tk[t + 1] = (t + 1) - 1 BY <1>3, <3>7
    <3> QED BY <3>7, <3>8, <3>9, <3>10
  <2>14. WorkOk(g, rows, rd)
    <3>1. n \in m .. Len(rows) BY <1>1
    <3>2. (IF rd.usedSpec THEN rd.size ELSE rd.specs) = n BY <2>9, <2>10
    <3>3. \A k \in 1 .. n : rd.specState[k] = BlockRow(g, rows[k]) /\ rd.accepted[k] = rows[k].acc
      BY <2>9, <2>11
    <3>4. \A k \in 1 .. n + 1 : rd.specStart[k] = Sums(Lens(rows))[k - 1] BY <2>9, <2>12
    <3>5. \A t \in 0 .. NumTokens(rows) - 1 : rd.specTok[t + 1] = t BY <2>9, <2>13
    <3>6. \A k \in m + 1 .. Len(rows) : rd.usedSpec <=> k <= n BY <1>1, <2>10
    <3>7. rd.decodes = 0 /\ rd.prefillState = <<>> BY <2>9
    <3> HIDE DEF n
    <3> QED BY <3>1, <3>2, <3>3, <3>4, <3>5, <3>6, <3>7, DraftWork
  <2>15. Built(g, rows, buf).buf = new /\ Built(g, rows, buf).md = sv BY <2>1
  <2> QED BY <2>14, <2>15 DEF rd
<1> QED BY <1>4, <1>5

LEMMA ReadWork ==
  ASSUME ConfInv, NEW rows, NEW m, BatchOf(rows, m), NEW g, NEW buf, Buffers(buf)
  PROVE  WorkOk(g, rows, Viewed(Built(g, rows, buf).buf, Built(g, rows, buf).md))
<1>1. CASE DraftsOnly(rows) BY <1>1, SpecRead
<1>2. CASE DecodesOnly(rows) BY <1>2, DecRead
<1>3. CASE Counts(rows).prefills # 0
  <2> DEFINE md == WithPrefills(rows, Parts(g, rows))
  <2>1. Built(g, rows, buf) = [buf |-> buf, md |-> md] /\ md.prefills # 0 BY <1>3, BuiltMixed
  <2>2. WorkOk(g, rows, md) BY <1>3, MixedBuild, PlainBuild
  <2>3. Built(g, rows, buf).buf = buf /\ Built(g, rows, buf).md = md BY <2>1
  <2> HIDE DEF md
  <2>4. ~UsesSpecBuffers(md) /\ ~UsesDecodeBuffers(md)
    BY <2>1 DEF UsesSpecBuffers, UsesDecodeBuffers
  <2>5. Viewed(buf, md) = md BY <2>4 DEF Viewed
  <2> QED BY <2>2, <2>3, <2>5
<1> QED BY <1>1, <1>2, <1>3 DEF DraftsOnly, DecodesOnly

(* In every group, every token of every batch advances its own request's state
   and no other, by the kernel its request calls for, whether the layers read the
   metadata or, in a captured graph, the buffers that build and
   update_block_table filled. *)
THEOREM TokensOnTheirStates == Spec => []EachTokenOnItsState
<1>1. IInv => EachTokenOnItsState
  <2> SUFFICES ASSUME IInv, NEW g \in 1 .. done PROVE WorkOk(g, batch, Read(g))
    BY Zenon DEF EachTokenOnItsState, WorkOk
  <2>1. PICK m, buf : /\ BatchOf(batch, m) /\ Buffers(buf)
                      /\ mds[g] = Built(g, batch, buf).md /\ bufs[g] = Built(g, batch, buf).buf
    BY ReadyIs
  <2>2. ConfInv BY DEF IInv
  <2>3. WorkOk(g, batch, Viewed(Built(g, batch, buf).buf, Built(g, batch, buf).md))
    BY <2>1, <2>2, ReadWork
  <2> QED BY <2>1, <2>3, Zenon DEF Read
<1> QED BY <1>1, Inductive, PTL
=============================================================================
