-------------------------- MODULE PrefillCopyProofs --------------------------
(***************************************************************************)
(* The fp16 copy of PrefillCopy for any block size, batches, exact rows,    *)
(* budget and knobs.  A position of a sequence has one row of the copy and  *)
(* a row at most one position (PlaceOf, OnePosition), so that the gather    *)
(* and the overlay together leave each row with what is due there           *)
(* (CopyIsDue).  The invariant carries the shape of a running step, the     *)
(* shared buffers' sizes, the knobs, and which layers have exact buffers.   *)
(***************************************************************************)
EXTENDS PrefillCopy, WellFoundedInduction, TLAPS

(* Arithmetic *)

LEMMA DivDef ==
  ASSUME NEW k \in Nat \ {0}, NEW a \in Int
  PROVE  a \div k \in Int /\ a % k \in 0 .. k - 1 /\ a = k * (a \div k) + (a % k)
OBVIOUS

LEMMA DivUnique ==
  ASSUME NEW k \in Nat \ {0}, NEW d \in Int, NEW e \in 0 .. k - 1, NEW a \in Int, a = k * d + e
  PROVE  a \div k = d /\ a % k = e
<1> DEFINE c == a \div k
           f == a % k
<1>1. c \in Int /\ f \in 0 .. k - 1 /\ a = k * c + f BY DivDef
<1> HIDE DEF c, f
<1>2. k * c \in Int /\ k * d \in Int BY <1>1
<1>3. ASSUME c < d PROVE FALSE
  <2>1. k * (c + 1) <= k * d BY <1>1, <1>3
  <2>2. k * (c + 1) = k * c + k BY <1>1
  <2> QED BY <1>1, <1>2, <2>1, <2>2
<1>4. ASSUME d < c PROVE FALSE
  <2>1. k * (d + 1) <= k * c BY <1>1, <1>4
  <2>2. k * (d + 1) = k * d + k OBVIOUS
  <2> QED BY <1>1, <1>2, <2>1, <2>2
<1>5. c = d BY <1>1, <1>3, <1>4
<1> QED BY <1>1, <1>2, <1>5 DEF c, f

LEMMA MulMono ==
  ASSUME NEW k \in Nat, NEW a \in Int, NEW b \in Int, a <= b
  PROVE  k * a <= k * b /\ k * a \in Int /\ k * b \in Int
OBVIOUS

(* A bounded, nonempty set of naturals has a greatest element.               *)
LEMMA MaxTyped ==
  ASSUME NEW n \in Nat, NEW T \in SUBSET (0 .. n), T # {}
  PROVE  Max(T) \in T /\ \A x \in T : x <= Max(T)
<1> DEFINE R == {p \in Nat \X Nat : p[1] < p[2]}
           U == {n - x : x \in T}
<1>1. IsWellFoundedOn(R, Nat)
  <2>1. OpToRel(<, Nat) = R BY DEF OpToRel
  <2>2. IsWellFoundedOn(OpToRel(<, Nat), Nat) BY NatLessThanWellFounded
  <2> QED BY <2>1, <2>2
<1>2. U \in SUBSET Nat /\ U # {}
  <2>1. \A x \in T : x \in 0 .. n /\ n - x \in Nat OBVIOUS
  <2> QED BY <2>1
<1>3. PICK u \in U : \A y \in U : ~ (<<y, u>> \in R)
  <2> HIDE DEF R, U
  <2> QED BY <1>1, <1>2, WFMin
<1>4. \A y \in U : u <= y
  <2> TAKE y \in U
  <2>1. u \in Nat /\ y \in Nat BY <1>2
  <2>2. y < u => <<y, u>> \in R BY <2>1
  <2> QED BY <1>3, <2>1, <2>2
<1>5. PICK m \in T : u = n - m OBVIOUS
<1>6. \A x \in T : m >= x
  <2> TAKE x \in T
  <2>1. n - x \in U OBVIOUS
  <2>2. u <= n - x /\ x \in Int /\ m \in Int BY <1>4, <2>1
  <2> QED BY <1>5, <2>2
<1>7. Max(T) \in T /\ \A x \in T : Max(T) >= x BY <1>6 DEF Max
<1> QED BY <1>7
-----------------------------------------------------------------------------
(* The batch *)

LEMMA BatchShape ==
  ASSUME batch \in Batches
  PROVE  /\ Len(batch.tables) \in Nat \ {0} /\ Sequences = 1 .. Len(batch.tables)
         /\ Len(batch.tables[1]) \in Nat
         /\ \A s \in Sequences :
              /\ batch.lens[s] \in Nat /\ batch.lens[s] <= Len(batch.tables[1]) * BLOCK_SIZE
              /\ batch.hits[s] \in SUBSET Int /\ \A p \in batch.hits[s] : p < batch.lens[s]
<1> DEFINE n == Len(batch.tables)
<1>1. /\ batch.tables \in Seq(Seq(Nat)) /\ n > 0
      /\ batch.lens \in [1 .. n -> Nat] /\ batch.hits \in [1 .. n -> SUBSET Int]
      /\ \A s \in 1 .. n : /\ Len(batch.tables[s]) = Len(batch.tables[1])
                           /\ batch.lens[s] <= Len(batch.tables[1]) * BLOCK_SIZE
                           /\ \A p \in batch.hits[s] : p < batch.lens[s]
  BY BatchAssumption
<1>2. n \in Nat \ {0} BY <1>1
<1>3. batch.tables[1] \in Seq(Nat) BY <1>1, <1>2
<1>4. Sequences = 1 .. n BY <1>1 DEF Sequences
<1>5. Len(batch.tables[1]) \in Nat BY <1>3
<1>6. ASSUME NEW s \in Sequences
      PROVE  /\ batch.lens[s] \in Nat /\ batch.lens[s] <= Len(batch.tables[1]) * BLOCK_SIZE
             /\ batch.hits[s] \in SUBSET Int /\ \A p \in batch.hits[s] : p < batch.lens[s]
  <2>1. s \in 1 .. n BY <1>4
  <2>2. batch.lens[s] \in Nat /\ batch.hits[s] \in SUBSET Int BY <1>1, <2>1
  <2> QED BY <1>1, <2>1, <2>2
<1> HIDE DEF n
<1>7. Len(batch.tables) \in Nat \ {0} /\ Sequences = 1 .. Len(batch.tables) BY <1>2, <1>4 DEF n
<1> QED BY <1>5, <1>6, <1>7

(* The copy has room for all blocks of the longest sequence.                 *)
LEMMA BlocksCover ==
  ASSUME batch \in Batches
  PROVE  /\ NumBlocks \in Nat
         /\ \A s \in Sequences : \A p \in 0 .. batch.lens[s] - 1 :
              /\ p \div BLOCK_SIZE \in 0 .. NumBlocks - 1
              /\ p % BLOCK_SIZE \in 0 .. BLOCK_SIZE - 1
              /\ p = BLOCK_SIZE * (p \div BLOCK_SIZE) + (p % BLOCK_SIZE)
<1> DEFINE T == {batch.lens[s] : s \in Sequences}
           k == BLOCK_SIZE
           m == Max(T)
           e == m + k - 1
<1>1. k \in Nat \ {0} BY CopyAssumption
<1>2. T \in SUBSET (0 .. Len(batch.tables[1]) * k) /\ T # {} /\ Len(batch.tables[1]) * k \in Nat
  <2>1. Len(batch.tables[1]) * k \in Nat BY <1>1, BatchShape
  <2>2. \A s \in Sequences : batch.lens[s] \in 0 .. Len(batch.tables[1]) * k
    BY <2>1, BatchShape
  <2>3. 1 \in Sequences BY BatchShape
  <2> QED BY <2>1, <2>2, <2>3
<1> HIDE DEF T, k
<1>3. m \in T /\ \A x \in T : x <= m BY <1>2, MaxTyped
<1> HIDE DEF m
<1>4. m \in Nat
  <2>1. m \in 0 .. Len(batch.tables[1]) * k BY <1>2, <1>3
  <2> QED BY <1>2, <2>1
<1>5. e \in Nat /\ NumBlocks = e \div k BY <1>1, <1>4 DEF NumBlocks, m, T, k
<1> HIDE DEF e
<1>6. NumBlocks \in Int /\ e % k \in 0 .. k - 1 /\ e = k * NumBlocks + (e % k)
  BY <1>1, <1>5, DivDef
<1>7. NumBlocks \in Nat
  <2> SUFFICES ASSUME NumBlocks <= -1 PROVE FALSE BY <1>6
  <2>1. -1 \in Int OBVIOUS
  <2>2. k * NumBlocks <= k * (-1) /\ k * NumBlocks \in Int BY <1>1, <1>6, <2>1, MulMono
  <2>3. k * (-1) = -k BY <1>1
  <2> QED BY <1>1, <1>5, <1>6, <2>2, <2>3
<1>8. ASSUME NEW s \in Sequences, NEW p \in 0 .. batch.lens[s] - 1
      PROVE  /\ p \div k \in 0 .. NumBlocks - 1 /\ p % k \in 0 .. k - 1
             /\ p = k * (p \div k) + (p % k)
  <2> DEFINE i == p \div k
             f == p % k
  <2>1. p \in Nat /\ p \in Int /\ p < m
    <3>1. batch.lens[s] \in T BY DEF T
    <3>2. batch.lens[s] <= m /\ batch.lens[s] \in Nat BY <1>3, <3>1, BatchShape
    <3> QED BY <1>4, <3>2
  <2>2. i \in Int /\ f \in 0 .. k - 1 /\ p = k * i + f BY <1>1, <2>1, DivDef
  <2> HIDE DEF i, f
  <2>3. 0 <= i
    <3> SUFFICES ASSUME i <= -1 PROVE FALSE BY <2>2
    <3>1. -1 \in Int OBVIOUS
    <3>2. k * i <= k * (-1) /\ k * i \in Int BY <1>1, <2>2, <3>1, MulMono
    <3>3. k * (-1) = -k BY <1>1
    <3> QED BY <1>1, <2>1, <2>2, <3>2, <3>3
  <2>4. i < NumBlocks
    <3> SUFFICES ASSUME NumBlocks <= i PROVE FALSE BY <1>6, <2>2
    <3>1. k * NumBlocks <= k * i /\ k * i \in Int /\ k * NumBlocks \in Int
      BY <1>1, <1>6, <2>2, MulMono
    <3>2. e = m + k - 1 BY DEF e
    <3> QED BY <1>1, <1>4, <1>6, <2>1, <2>2, <3>1, <3>2
  <2> QED BY <1>7, <2>2, <2>3, <2>4 DEF i, f
<1> QED BY <1>7, <1>8 DEF k

(* Entry (s - 1) nb + i of the copy is block i of sequence s.                *)
Entry(s, i) == (s - 1) * NumBlocks + i

LEMMA EntryIs ==
  ASSUME batch \in Batches, NEW s \in Sequences, NEW i \in 0 .. NumBlocks - 1
  PROVE  /\ Entry(s, i) \in 0 .. Len(batch.tables) * NumBlocks - 1
         /\ Entry(s, i) \div NumBlocks = s - 1 /\ Entry(s, i) % NumBlocks = i
<1> DEFINE n == NumBlocks
           l == Len(batch.tables)
<1>1. n \in Nat BY BlocksCover
<1>2. l \in Nat \ {0} /\ s \in 1 .. l BY BatchShape
<1> HIDE DEF n, l
<1>3. n \in Nat \ {0} /\ i \in Nat /\ i < n BY <1>1 DEF n
<1>4. Entry(s, i) = n * (s - 1) + i /\ n * (s - 1) \in Nat BY <1>2, <1>3 DEF Entry, n
<1>5. s - 1 \in Int /\ i \in 0 .. n - 1 /\ Entry(s, i) \in Int BY <1>2, <1>3, <1>4
<1>6. Entry(s, i) \div n = s - 1 /\ Entry(s, i) % n = i BY <1>3, <1>4, <1>5, DivUnique
<1>7. n * (s - 1) + n = n * s /\ n * s <= n * l /\ n * l = l * n /\ n * l \in Int /\ n * s \in Int
  <2>1. s \in Int /\ l \in Int /\ s <= l BY <1>2
  <2>2. n * s <= n * l BY <1>3, <2>1, MulMono
  <2>3. n * (s - 1) + n = n * s BY <1>3, <2>1
  <2> QED BY <1>3, <2>1, <2>2, <2>3
<1>8. Entry(s, i) \in 0 .. l * n - 1 BY <1>3, <1>4, <1>7
<1> QED BY <1>6, <1>8 DEF n, l

(* The row of a position, and the position of a row.                         *)
LEMMA PlaceOf ==
  ASSUME batch \in Batches, NEW s \in Sequences, NEW p \in 0 .. batch.lens[s] - 1
  PROVE  /\ OverlaidAt(s, NumBlocks, p) = <<Entry(s, p \div BLOCK_SIZE), p % BLOCK_SIZE>>
         /\ Entry(s, p \div BLOCK_SIZE) \in 0 .. Len(batch.tables) * NumBlocks - 1
         /\ p % BLOCK_SIZE \in 0 .. BLOCK_SIZE - 1
BY BlocksCover, EntryIs DEF OverlaidAt, Entry

LEMMA OnePosition ==
  ASSUME batch \in Batches,
         NEW s \in Sequences, NEW p \in 0 .. batch.lens[s] - 1,
         NEW z \in Sequences, NEW y \in 0 .. batch.lens[z] - 1,
         OverlaidAt(s, NumBlocks, p) = OverlaidAt(z, NumBlocks, y)
  PROVE  s = z /\ p = y
<1>1. /\ Entry(s, p \div BLOCK_SIZE) = Entry(z, y \div BLOCK_SIZE)
      /\ p % BLOCK_SIZE = y % BLOCK_SIZE
  BY PlaceOf
<1>2. /\ p \div BLOCK_SIZE \in 0 .. NumBlocks - 1 /\ y \div BLOCK_SIZE \in 0 .. NumBlocks - 1
      /\ p = BLOCK_SIZE * (p \div BLOCK_SIZE) + (p % BLOCK_SIZE)
      /\ y = BLOCK_SIZE * (y \div BLOCK_SIZE) + (y % BLOCK_SIZE)
  BY BlocksCover
<1>3. s - 1 = z - 1 /\ p \div BLOCK_SIZE = y \div BLOCK_SIZE
  <2>1. /\ Entry(s, p \div BLOCK_SIZE) \div NumBlocks = s - 1
        /\ Entry(s, p \div BLOCK_SIZE) % NumBlocks = p \div BLOCK_SIZE
    BY <1>2, EntryIs
  <2>2. /\ Entry(z, y \div BLOCK_SIZE) \div NumBlocks = z - 1
        /\ Entry(z, y \div BLOCK_SIZE) % NumBlocks = y \div BLOCK_SIZE
    BY <1>2, EntryIs
  <2> QED BY <1>1, <2>1, <2>2
<1>4. s \in Int /\ z \in Int BY BatchShape
<1> QED BY <1>1, <1>2, <1>3, <1>4
-----------------------------------------------------------------------------
(* The copy *)

HitsOf(s) == {p \in batch.hits[s] : p >= 0 /\ p >= batch.lens[s] - TAIL}

SourceOf(nb, j, slot) ==
  {w \in Sequences \X UNION {HitsOf(s) : s \in Sequences} :
     w[2] \in HitsOf(w[1]) /\ OverlaidAt(w[1], nb, w[2]) = <<j, slot>>}

LEMMA OverlaidIs ==
  ASSUME NEW nb, NEW rows, NEW side
  PROVE  /\ ~ExactHere => Overlaid(rows, side, nb) = rows
         /\ ExactHere =>
              Overlaid(rows, side, nb) =
                [j \in DOMAIN rows |-> [slot \in DOMAIN rows[j] |->
                   IF SourceOf(nb, j, slot) = {} THEN rows[j][slot]
                   ELSE [layer |-> LayerName, side |-> side, from |-> "ring",
                         at |-> CHOOSE x \in SourceOf(nb, j, slot) : TRUE]]]
BY DEF Overlaid, SourceOf, HitsOf

LEMMA HitsTyped ==
  ASSUME batch \in Batches, NEW s \in Sequences
  PROVE  \A p \in HitsOf(s) : p \in 0 .. batch.lens[s] - 1
<1> SUFFICES ASSUME NEW p \in HitsOf(s) PROVE p \in 0 .. batch.lens[s] - 1 OBVIOUS
<1>1. p \in batch.hits[s] /\ p >= 0 BY DEF HitsOf
<1>2. p \in Int /\ p < batch.lens[s] /\ batch.lens[s] \in Nat BY <1>1, BatchShape
<1> QED BY <1>1, <1>2

(* The ring rows for the place of a position are that position's.            *)
LEMMA SourceIs ==
  ASSUME batch \in Batches, NEW s \in Sequences, NEW p \in 0 .. batch.lens[s] - 1
  PROVE  SourceOf(NumBlocks, Entry(s, p \div BLOCK_SIZE), p % BLOCK_SIZE)
           = IF p \in HitsOf(s) THEN {<<s, p>>} ELSE {}
<1> DEFINE S == SourceOf(NumBlocks, Entry(s, p \div BLOCK_SIZE), p % BLOCK_SIZE)
<1>1. OverlaidAt(s, NumBlocks, p) = <<Entry(s, p \div BLOCK_SIZE), p % BLOCK_SIZE>> BY PlaceOf
<1>2. ASSUME NEW w \in S PROVE w = <<s, p>> /\ p \in HitsOf(s)
  <2>1. /\ w \in Sequences \X UNION {HitsOf(z) : z \in Sequences}
        /\ w[2] \in HitsOf(w[1]) /\ OverlaidAt(w[1], NumBlocks, w[2]) = OverlaidAt(s, NumBlocks, p)
    BY <1>1 DEF SourceOf
  <2>2. w[1] \in Sequences /\ w = <<w[1], w[2]>> BY <2>1
  <2>3. w[2] \in 0 .. batch.lens[w[1]] - 1 BY <2>1, <2>2, HitsTyped
  <2>4. s = w[1] /\ p = w[2] BY <2>1, <2>2, <2>3, OnePosition
  <2> QED BY <2>1, <2>2, <2>4
<1>3. ASSUME p \in HitsOf(s) PROVE <<s, p>> \in S
  <2> DEFINE w == <<s, p>>
  <2>1. w \in Sequences \X UNION {HitsOf(z) : z \in Sequences} BY <1>3
  <2>2. w[1] = s /\ w[2] = p OBVIOUS
  <2> HIDE DEF w
  <2>3. w \in S BY <1>1, <1>3, <2>1, <2>2 DEF SourceOf
  <2> QED BY <2>3 DEF w
<1> HIDE DEF S
<1>4. S = IF p \in HitsOf(s) THEN {<<s, p>>} ELSE {} BY <1>2, <1>3
<1> QED BY <1>4 DEF S

Copy(side) == Overlaid(Gathered(side, NumBlocks), side, NumBlocks)

(* Gathered and overlaid, the row of a position is the one that is due.      *)
LEMMA CopyIsDue ==
  ASSUME batch \in Batches, NEW side, NEW s \in Sequences, NEW p \in 0 .. batch.lens[s] - 1
  PROVE  /\ Entry(s, p \div BLOCK_SIZE) \in DOMAIN Copy(side)
         /\ Copy(side)[Entry(s, p \div BLOCK_SIZE)][p % BLOCK_SIZE] = Due(s, p, side)
<1> DEFINE i == p \div BLOCK_SIZE
           slot == p % BLOCK_SIZE
           j == Entry(s, i)
           rows == Gathered(side, NumBlocks)
           row == [layer |-> layer, side |-> side,
                   from |-> IF SinkRow(NumBlocks, j, slot) THEN "sink" ELSE "cache",
                   at |-> <<Flat(NumBlocks, j), slot>>]
<1>1. /\ i \in 0 .. NumBlocks - 1 /\ slot \in 0 .. BLOCK_SIZE - 1
      /\ p = BLOCK_SIZE * i + slot
  BY BlocksCover
<1>2. /\ j \in 0 .. Len(batch.tables) * NumBlocks - 1
      /\ j \div NumBlocks = s - 1 /\ j % NumBlocks = i
  BY <1>1, EntryIs
<1>3. /\ DOMAIN rows = 0 .. Len(batch.tables) * NumBlocks - 1
      /\ DOMAIN rows[j] = 0 .. BLOCK_SIZE - 1 /\ rows[j][slot] = row
  BY <1>1, <1>2 DEF Gathered
<1>4. Flat(NumBlocks, j) = batch.tables[s][i + 1]
  <2>1. s - 1 + 1 = s BY BatchShape
  <2> QED BY <1>2, <2>1 DEF Flat
<1>5. SinkRow(NumBlocks, j, slot) <=> ExactHere /\ p < SINKS
  <2>1. BLOCK_SIZE \in Nat \ {0} /\ SINKS \in Nat /\ SINKS <= BLOCK_SIZE /\ i \in Nat /\ slot \in Nat
    BY <1>1, CopyAssumption
  <2>2. CASE i = 0 BY <1>1, <1>2, <2>1, <2>2 DEF SinkRow
  <2>3. CASE i # 0
    <3>1. 1 <= i /\ 1 \in Int /\ i \in Int /\ BLOCK_SIZE \in Nat BY <2>1, <2>3
    <3>2. BLOCK_SIZE * 1 <= BLOCK_SIZE * i /\ BLOCK_SIZE * i \in Int BY <3>1, MulMono
    <3>3. ~(p < SINKS)
      <4> HIDE DEF i, slot
      <4> QED BY <1>1, <2>1, <3>2
    <3> QED BY <1>2, <2>3, <3>3 DEF SinkRow
  <2> QED BY <2>2, <2>3
<1>6. p \in Nat /\ p \in Int /\ batch.lens[s] \in Nat BY BatchShape
<1>7. SourceOf(NumBlocks, j, slot) = IF p \in HitsOf(s) THEN {<<s, p>>} ELSE {} BY SourceIs
<1>8. p \in HitsOf(s) <=> p \in batch.hits[s] /\ p >= batch.lens[s] - TAIL BY <1>6 DEF HitsOf
<1> HIDE DEF rows, row, j, i, slot
<1>9. ASSUME ~ExactHere
      PROVE  /\ j \in DOMAIN Copy(side) /\ Copy(side)[j][slot] = row
             /\ Due(s, p, side) = row
  <2>1. Copy(side) = rows BY <1>9, OverlaidIs DEF Copy, rows
  <2>2. Due(s, p, side) = row BY <1>4, <1>5, <1>9 DEF Due, ExactHere, LayerName, row, i, slot
  <2> QED BY <1>2, <1>3, <2>1, <2>2
<1>10. ASSUME ExactHere
       PROVE  /\ j \in DOMAIN Copy(side)
              /\ Copy(side)[j][slot] = IF p \in HitsOf(s)
                                       THEN [layer |-> LayerName, side |-> side, from |-> "ring",
                                             at |-> <<s, p>>]
                                       ELSE row
  <2>1. Copy(side) =
          [y \in DOMAIN rows |-> [z \in DOMAIN rows[y] |->
             IF SourceOf(NumBlocks, y, z) = {} THEN rows[y][z]
             ELSE [layer |-> LayerName, side |-> side, from |-> "ring",
                   at |-> CHOOSE x \in SourceOf(NumBlocks, y, z) : TRUE]]]
    BY <1>10, OverlaidIs DEF Copy, rows
  <2>2. j \in DOMAIN rows /\ slot \in DOMAIN rows[j] BY <1>1, <1>2, <1>3
  <2>3. /\ j \in DOMAIN Copy(side)
        /\ Copy(side)[j][slot] = IF SourceOf(NumBlocks, j, slot) = {} THEN rows[j][slot]
                                 ELSE [layer |-> LayerName, side |-> side, from |-> "ring",
                                       at |-> CHOOSE x \in SourceOf(NumBlocks, j, slot) : TRUE]
    BY <2>1, <2>2
  <2>4. CASE p \in HitsOf(s)
    <3>1. SourceOf(NumBlocks, j, slot) = {<<s, p>>} BY <1>7, <2>4
    <3>2. (CHOOSE x \in {<<s, p>>} : TRUE) = <<s, p>> OBVIOUS
    <3> QED BY <2>3, <2>4, <3>1, <3>2
  <2>5. CASE p \notin HitsOf(s) BY <1>3, <1>7, <2>3, <2>5
  <2> QED BY <2>4, <2>5
<1>11. ASSUME ExactHere
       PROVE  Due(s, p, side) = IF p \in HitsOf(s)
                                THEN [layer |-> LayerName, side |-> side, from |-> "ring",
                                      at |-> <<s, p>>]
                                ELSE row
  BY <1>4, <1>5, <1>8, <1>11 DEF Due, ExactHere, LayerName, row, i, slot
<1> QED BY <1>9, <1>10, <1>11 DEF j, i, slot
-----------------------------------------------------------------------------
(* The shared buffers *)

Sides == {"k", "v"}

BufInv ==
  /\ bufs = [t \in Sides |-> bufs[t]]
  /\ \A t \in Sides : /\ bufs[t].size \in Nat
                      /\ bufs[t] = [size |-> bufs[t].size, rows |-> bufs[t].rows]

(* A buffer that is replaced grows by a quarter, or to all that can be needed. *)
LEMMA GrownIs ==
  ASSUME NEW size \in Nat, NEW n \in Nat, NEW cap \in Nat, size < n
  PROVE  /\ Grown(size, n, cap) \in Nat /\ Grown(size, n, cap) >= n
         /\ Grown(size, n, cap) <= Larger(cap, n)
         /\ 4 * Grown(size, n, cap) >= 5 * size \/ Grown(size, n, cap) = Larger(cap, n)
<1> DEFINE a == IF size = 0 THEN 1 ELSE (size * 5) \div 4 + 1
           grow == Larger(n, a)
           x == Larger(((grow + 3) \div 4) * 4, n)
<1>1. a \in Int /\ 4 * a >= 5 * size OBVIOUS
<1> HIDE DEF a
<1>2. grow \in Int /\ grow >= a BY <1>1 DEF Larger
<1> HIDE DEF grow
<1>3. x \in Int /\ x >= n /\ x >= grow BY <1>2 DEF Larger
<1> HIDE DEF x
<1>4. Grown(size, n, cap) = Smaller(x, Larger(cap, n)) BY DEF Grown, x, grow, a
<1>5. Larger(cap, n) \in Nat /\ Larger(cap, n) >= n BY DEF Larger
<1> QED BY <1>1, <1>2, <1>3, <1>4, <1>5 DEF Smaller

LEMMA BufferIs ==
  ASSUME NEW buf, buf.size \in Nat, NEW n \in Nat, NEW cap \in Nat
  PROVE  LET new == Buffer(buf, n, cap).size
         IN /\ new \in Nat /\ new >= n
            /\ new # buf.size => /\ buf.size < n /\ new <= Larger(cap, n)
                                 /\ 4 * new >= 5 * buf.size \/ new = Larger(cap, n)
<1>1. CASE buf.size < n
  <2>1. Buffer(buf, n, cap).size = Grown(buf.size, n, cap) BY <1>1 DEF Buffer
  <2>2. /\ Grown(buf.size, n, cap) \in Nat /\ Grown(buf.size, n, cap) >= n
        /\ Grown(buf.size, n, cap) <= Larger(cap, n)
        /\ 4 * Grown(buf.size, n, cap) >= 5 * buf.size \/ Grown(buf.size, n, cap) = Larger(cap, n)
    BY <1>1, GrownIs
  <2> QED BY <1>1, <2>1, <2>2
<1>2. CASE ~(buf.size < n) BY <1>2 DEF Buffer
<1> QED BY <1>1, <1>2

LEMMA CapTyped ==
  ASSUME batch \in Batches
  PROVE  Cap \in Nat /\ Len(batch.tables) * NumBlocks \in Nat
<1>1. Len(batch.tables) \in Nat /\ Len(batch.tables[1]) \in Nat /\ NumBlocks \in Nat
  BY BatchShape, BlocksCover
<1>2. Len(batch.tables) * NumBlocks \in Nat /\ Len(batch.tables) * Len(batch.tables[1]) \in Nat
  BY <1>1
<1> QED BY <1>2, CopyAssumption DEF Cap, Smaller

LEMMA CopiedIs ==
  ASSUME BufInv, batch \in Batches
  PROVE  /\ Copied(NumBlocks) = [t \in Sides |-> Copied(NumBlocks)[t]]
         /\ \A t \in Sides :
              Copied(NumBlocks)[t] =
                [size |-> Buffer(bufs[t], Len(batch.tables) * NumBlocks, Cap).size, rows |-> Copy(t)]
<1> DEFINE n == Len(batch.tables) * NumBlocks
           new(t) == Buffer(bufs[t], n, Cap)
           val(t) == [new(t) EXCEPT !.rows = Copy(t)]
<1>1. Copied(NumBlocks) = [[bufs EXCEPT !["k"] = val("k")] EXCEPT !["v"] = val("v")]
  <2>1. [bufs EXCEPT !["k"] = val("k")]["v"] = bufs["v"] BY DEF BufInv, Sides
  <2>2. \A b : Buffer(b, n, Cap) = Buffer(b, Len(batch.tables) * NumBlocks, Cap) OBVIOUS
  <2> HIDE DEF n
  <2> QED BY <2>1 DEF Copied, Tag, Copy, n
<1>2. ASSUME NEW t \in Sides PROVE val(t) = [size |-> new(t).size, rows |-> Copy(t)]
  <2>1. new(t) = [size |-> new(t).size, rows |-> new(t).rows] BY DEF Buffer, BufInv
  <2> HIDE DEF new
  <2> QED BY <2>1
<1> HIDE DEF val
<1>3. Copied(NumBlocks) = [t \in Sides |-> val(t)] BY <1>1 DEF BufInv, Sides
<1> QED BY <1>2, <1>3

LEMMA CopiedTyped ==
  ASSUME BufInv, batch \in Batches, bufs' = Copied(NumBlocks)
  PROVE  /\ BufInv'
         /\ \A t \in Sides : bufs'[t].rows = Copy(t) /\ bufs'[t].size >= Len(batch.tables) * NumBlocks
<1>1. Cap \in Nat /\ Len(batch.tables) * NumBlocks \in Nat BY CapTyped
<1>2. ASSUME NEW t \in Sides
      PROVE  /\ Buffer(bufs[t], Len(batch.tables) * NumBlocks, Cap).size \in Nat
             /\ Buffer(bufs[t], Len(batch.tables) * NumBlocks, Cap).size >= Len(batch.tables) * NumBlocks
  <2>1. bufs[t].size \in Nat BY DEF BufInv
  <2> QED BY <1>1, <2>1, BufferIs
<1> DEFINE z(t) == Buffer(bufs[t], Len(batch.tables) * NumBlocks, Cap).size
<1>3. bufs' = [t \in Sides |-> bufs'[t]] BY CopiedIs
<1>4. \A t \in Sides : bufs'[t] = [size |-> z(t), rows |-> Copy(t)] BY CopiedIs
<1>5. \A t \in Sides : z(t) \in Nat /\ z(t) >= Len(batch.tables) * NumBlocks BY <1>2
<1> HIDE DEF z
<1>6. ASSUME NEW t \in Sides PROVE bufs'[t].size = z(t) /\ bufs'[t].rows = Copy(t)
  <2>1. bufs'[t] = [size |-> z(t), rows |-> Copy(t)] BY <1>4
  <2> QED BY <2>1
<1>7. BufInv' BY <1>3, <1>4, <1>5, <1>6 DEF BufInv
<1> QED BY <1>5, <1>6, <1>7

(* A failed allocation leaves nothing of one buffer; the other one stands,   *)
(* or has grown.                                                             *)
LEMMA LostTyped ==
  ASSUME BufInv, batch \in Batches, NEW side \in Sides, bufs' = LostOn(side, NumBlocks)
  PROVE  /\ BufInv'
         /\ \A t \in Sides :
              bufs'[t].size = IF t = side THEN 0
                              ELSE IF side = "v"
                              THEN Buffer(bufs[t], Len(batch.tables) * NumBlocks, Cap).size
                              ELSE bufs[t].size
<1> DEFINE z(t) == Buffer(bufs[t], Len(batch.tables) * NumBlocks, Cap).size
           size(t) == IF t = side THEN 0 ELSE IF side = "v" THEN z(t) ELSE bufs[t].size
<1>1. Cap \in Nat /\ Len(batch.tables) * NumBlocks \in Nat BY CapTyped
<1>2. DOMAIN bufs = Sides BY DEF BufInv
<1>3. ASSUME NEW t \in Sides
      PROVE  /\ z(t) \in Nat /\ bufs[t].size \in Nat
             /\ bufs[t] = [size |-> bufs[t].size, rows |-> bufs[t].rows]
             /\ [Buffer(bufs[t], Len(batch.tables) * NumBlocks, Cap) EXCEPT !.rows = <<>>]
                  = [size |-> z(t), rows |-> <<>>]
  <2> DEFINE n == Len(batch.tables) * NumBlocks
             new == Buffer(bufs[t], n, Cap)
  <2>1. bufs[t].size \in Nat /\ bufs[t] = [size |-> bufs[t].size, rows |-> bufs[t].rows]
    BY DEF BufInv
  <2> HIDE DEF n
  <2>2. new.size \in Nat BY <1>1, <2>1, BufferIs DEF n
  <2>3. new = [size |-> new.size, rows |-> new.rows] BY <2>1 DEF Buffer
  <2> HIDE DEF new
  <2>4. [new EXCEPT !.rows = <<>>] = [size |-> new.size, rows |-> <<>>] BY <2>3
  <2> QED BY <2>1, <2>2, <2>4 DEF new, n
<1>4. ASSUME NEW t \in Sides
      PROVE  bufs'[t] = [size |-> size(t), rows |-> bufs'[t].rows] /\ size(t) \in Nat
  <2>1. bufs'[t] = IF t = side THEN NoBuffer
                   ELSE IF side = "v" /\ t = "k"
                   THEN [Buffer(bufs[t], Len(batch.tables) * NumBlocks, Cap) EXCEPT !.rows = <<>>]
                   ELSE bufs[t]
    BY <1>2 DEF LostOn, Tag
  <2>2. bufs'[t] = IF t = side THEN [size |-> 0, rows |-> <<>>]
                   ELSE IF side = "v" /\ t = "k" THEN [size |-> z(t), rows |-> <<>>]
                   ELSE [size |-> bufs[t].size, rows |-> bufs[t].rows]
    BY <1>3, <2>1 DEF NoBuffer
  <2> HIDE DEF z
  <2> QED BY <1>3, <2>2 DEF Sides
<1>5. bufs' = [t \in Sides |-> bufs'[t]] BY <1>2 DEF LostOn
<1> HIDE DEF size
<1>6. \A t \in Sides : bufs'[t].size = size(t)
  <2> TAKE t \in Sides
  <2>1. bufs'[t] = [size |-> size(t), rows |-> bufs'[t].rows] BY <1>4
  <2> QED BY <2>1
<1>7. \A t \in Sides : /\ bufs'[t].size \in Nat
                       /\ bufs'[t] = [size |-> bufs'[t].size, rows |-> bufs'[t].rows]
  <2> TAKE t \in Sides
  <2>1. bufs'[t].size = size(t) /\ size(t) \in Nat BY <1>4, <1>6
  <2>2. bufs'[t] = [size |-> size(t), rows |-> bufs'[t].rows] BY <1>4
  <2> QED BY <2>1, <2>2
<1>8. BufInv' BY <1>5, <1>7 DEF BufInv
<1> QED BY <1>6, <1>8 DEF size
-----------------------------------------------------------------------------
(* The inductive invariant *)

Running == {"fp16", "decode", "vllm"}

ShapeInv ==
  /\ mode \in {"idle", "eager", "capture"} /\ layer \in Layers
  /\ mode = "idle" => pc = "idle"
  /\ mode # "idle" => batch \in Batches /\ pc \in {"update", "attend"} \union Running

KnobInv == environ = [k \in Knobs |-> environ[k]] /\ KnobsOnlyInCopy

(* An eager step leaves exact buffers behind for every layer it has passed, and
   nothing takes them away. *)
ExactInv ==
  SINKS + TAIL > 0 /\ quant = "int4" =>
    /\ warm => Layers \subseteq exact
    /\ mode = "eager" => \A l \in Layers :
         l < layer \/ (l = layer /\ pc \in {"attend"} \union Running) => l \in exact

IInv == ShapeInv /\ BufInv /\ KnobInv /\ ExactInv /\ CopiesOwnRows

LEMMA InitInv == Init => IInv
<1> SUFFICES ASSUME Init PROVE IInv OBVIOUS
<1>1. ShapeInv BY CopyAssumption DEF Init, ShapeInv, Layers
<1>2. BufInv BY DEF Init, NoBuffer, BufInv, Sides
<1>3. KnobInv BY DEF Init, KnobInv, KnobsOnlyInCopy
<1>4. ExactInv BY DEF Init, ExactInv
<1>5. CopiesOwnRows BY DEF Init, CopiesOwnRows
<1> QED BY <1>1, <1>2, <1>3, <1>4, <1>5 DEF IInv

LEMMA BeginInv ==
  ASSUME IInv, NEW b \in Batches, NEW m \in {"eager", "capture"}, Begin(b, m)
  PROVE  IInv'
<1>1. ShapeInv' BY CopyAssumption DEF Begin, IInv, ShapeInv, Layers
<1>2. BufInv' BY DEF Begin, IInv, BufInv
<1>3. KnobInv'
  <2>1. pc = "idle" /\ pc' = "update" /\ environ' = environ /\ user' = user
    BY DEF Begin, IInv, ShapeInv
  <2> QED BY <2>1 DEF IInv, KnobInv, KnobsOnlyInCopy
<1>4. ExactInv'
  <2>1. /\ layer' = 1 /\ pc' = "update" /\ mode' = m /\ exact' = exact /\ quant' = quant
        /\ warm' = warm
    BY DEF Begin
  <2>2. \A l \in Layers : ~(l < 1) BY CopyAssumption DEF Layers
  <2> QED BY <2>1, <2>2 DEF IInv, ExactInv, Running
<1>5. CopiesOwnRows' BY DEF Begin, CopiesOwnRows
<1> QED BY <1>1, <1>2, <1>3, <1>4, <1>5 DEF IInv

LEMMA UpdateInv ==
  ASSUME IInv, Update
  PROVE  IInv'
<1>1. ShapeInv' BY DEF Update, IInv, ShapeInv
<1>2. BufInv' BY DEF Update, IInv, BufInv
<1>3. KnobInv'
  <2>1. pc = "update" /\ pc' = "attend" /\ environ' = environ /\ user' = user BY DEF Update
  <2> QED BY <2>1 DEF IInv, KnobInv, KnobsOnlyInCopy
<1>4. ExactInv'
  <2>1. /\ pc = "update" /\ pc' = "attend" /\ layer' = layer /\ mode' = mode /\ warm' = warm
        /\ quant' = quant /\ exact' = ExactAfter
    BY DEF Update
  <2>2. exact \subseteq exact' BY <2>1 DEF ExactAfter
  <2>3. SINKS + TAIL > 0 /\ quant = "int4" /\ mode = "eager" => layer \in exact'
    BY <2>1 DEF ExactAfter, Capturing
  <2> QED BY <2>1, <2>2, <2>3 DEF IInv, ExactInv
<1>5. CopiesOwnRows' BY DEF Update, CopiesOwnRows
<1> QED BY <1>1, <1>2, <1>3, <1>4, <1>5 DEF IInv

LEMMA EnterCopyInv ==
  ASSUME IInv, EnterCopy
  PROVE  IInv'
<1>0. ShapeInv /\ BufInv /\ KnobInv /\ ExactInv BY DEF IInv
<1>1. /\ mode # "idle" /\ pc = "attend" /\ pc' = "fp16" /\ quant' = quant /\ user' = user
      /\ exact' = exact /\ batch' = batch /\ mode' = mode /\ layer' = layer /\ warm' = warm
      /\ bufs' = Copied(NumBlocks)
      /\ kernel'.table = [s \in Sequences |-> [i \in 1 .. NumBlocks |-> (s - 1) * NumBlocks + i - 1]]
      /\ environ' = [k \in Knobs |-> IF k \in SetKnobs THEN "prefill" ELSE environ[k]]
  BY DEF EnterCopy
<1>2. batch \in Batches BY <1>0, <1>1 DEF ShapeInv
<1>3. ShapeInv' BY <1>0, <1>1 DEF ShapeInv, Running
<1>4. BufInv' BY <1>0, <1>1, <1>2, CopiedTyped
<1>5. KnobInv'
  <2>1. environ' = [k \in Knobs |-> environ'[k]] BY <1>1
  <2>2. ASSUME NEW k \in Knobs
        PROVE  environ'[k] = IF k \in user THEN "user" ELSE IF TilingOn THEN "prefill" ELSE "unset"
    <3>1. environ[k] = IF k \in user THEN "user" ELSE "unset"
      BY <1>0, <1>1 DEF KnobInv, KnobsOnlyInCopy
    <3>2. k \in SetKnobs <=> TilingOn /\ environ[k] = "unset" BY DEF SetKnobs
    <3>3. environ'[k] = IF k \in SetKnobs THEN "prefill" ELSE environ[k] BY <1>1
    <3> QED BY <3>1, <3>2, <3>3
  <2> QED BY <1>1, <2>1, <2>2 DEF KnobInv, KnobsOnlyInCopy
<1>6. ExactInv' BY <1>0, <1>1 DEF ExactInv, Running
<1>7. CopiesOwnRows'
  <2> SUFFICES ASSUME NEW s \in Sequences, NEW side \in Sides, NEW p \in 0 .. batch.lens[s] - 1
               PROVE  LET j == kernel'.table[s][p \div BLOCK_SIZE + 1]
                      IN /\ j \in DOMAIN bufs'[side].rows /\ j < bufs'[side].size
                         /\ bufs'[side].rows[j][p % BLOCK_SIZE] = Due(s, p, side)
    <3>1. Sequences' = Sequences BY <1>1 DEF Sequences
    <3>2. \A s, p, side : Due(s, p, side)' = Due(s, p, side) BY <1>1 DEF Due
    <3>3. \A s : batch'.lens[s] = batch.lens[s] BY <1>1
    <3> QED BY <3>1, <3>2, <3>3 DEF CopiesOwnRows, Sides
  <2>1. p \div BLOCK_SIZE \in 0 .. NumBlocks - 1 /\ NumBlocks \in Nat BY <1>2, BlocksCover
  <2>2. kernel'.table[s][p \div BLOCK_SIZE + 1] = Entry(s, p \div BLOCK_SIZE)
    <3> DEFINE i == p \div BLOCK_SIZE
    <3> HIDE DEF i
    <3>1. i \in Int /\ i + 1 \in 1 .. NumBlocks /\ i \in 0 .. NumBlocks - 1 BY <2>1 DEF i
    <3>2. kernel'.table[s][i + 1] = (s - 1) * NumBlocks + (i + 1) - 1 BY <1>1, <3>1
    <3>3. (s - 1) * NumBlocks \in Int
      <4>1. s \in Int BY <1>2, BatchShape
      <4> QED BY <2>1, <4>1
    <3>4. (s - 1) * NumBlocks + (i + 1) - 1 = Entry(s, i) BY <3>1, <3>3 DEF Entry
    <3> QED BY <3>2, <3>4 DEF i
  <2>3. bufs'[side].rows = Copy(side) /\ bufs'[side].size >= Len(batch.tables) * NumBlocks
        /\ bufs'[side].size \in Nat
    BY <1>0, <1>1, <1>2, <1>4, CopiedTyped DEF BufInv
  <2>4. /\ Entry(s, p \div BLOCK_SIZE) \in DOMAIN Copy(side)
        /\ Copy(side)[Entry(s, p \div BLOCK_SIZE)][p % BLOCK_SIZE] = Due(s, p, side)
    BY <1>2, CopyIsDue
  <2>5. Entry(s, p \div BLOCK_SIZE) < bufs'[side].size
    <3>1. Entry(s, p \div BLOCK_SIZE) \in 0 .. Len(batch.tables) * NumBlocks - 1
      BY <1>2, <2>1, EntryIs
    <3>2. Len(batch.tables) * NumBlocks \in Nat BY <1>2, CapTyped
    <3> DEFINE e == Entry(s, p \div BLOCK_SIZE)
               cap == Len(batch.tables) * NumBlocks
               size == bufs'[side].size
    <3>3. e \in 0 .. cap - 1 /\ cap \in Nat /\ size >= cap /\ size \in Nat
      BY <2>3, <3>1, <3>2, Zenon
    <3> HIDE DEF e, cap, size
    <3>4. e < size BY ONLY <3>3
    <3> QED BY <3>4 DEF e, size
  <2> DEFINE e == Entry(s, p \div BLOCK_SIZE)
             j == kernel'.table[s][p \div BLOCK_SIZE + 1]
  <2>6. /\ j = e /\ bufs'[side].rows = Copy(side) /\ e \in DOMAIN Copy(side)
        /\ Copy(side)[e][p % BLOCK_SIZE] = Due(s, p, side) /\ e < bufs'[side].size
    BY <2>2, <2>3, <2>4, <2>5, Zenon
  <2> HIDE DEF e, j
  <2>7. /\ j \in DOMAIN bufs'[side].rows /\ j < bufs'[side].size
        /\ bufs'[side].rows[j][p % BLOCK_SIZE] = Due(s, p, side)
    BY <2>6, Zenon
  <2> QED BY <2>7, Zenon DEF j
<1> QED BY <1>3, <1>4, <1>5, <1>6, <1>7 DEF IInv

LEMMA EnterOtherInv ==
  ASSUME IInv, EnterOther
  PROVE  IInv'
<1>0. ShapeInv /\ BufInv /\ KnobInv /\ ExactInv BY DEF IInv
<1>1. /\ mode # "idle" /\ pc = "attend" /\ pc' \in {"decode", "vllm"} /\ quant' = quant
      /\ user' = user /\ environ' = environ /\ exact' = exact /\ batch' = batch /\ mode' = mode
      /\ layer' = layer /\ warm' = warm /\ bufs' = bufs
  BY DEF EnterOther
<1>2. ShapeInv' BY <1>0, <1>1 DEF ShapeInv, Running
<1>3. BufInv' BY <1>0, <1>1 DEF BufInv
<1>4. KnobInv' BY <1>0, <1>1 DEF KnobInv, KnobsOnlyInCopy
<1>5. ExactInv' BY <1>0, <1>1 DEF ExactInv, Running
<1>6. CopiesOwnRows' BY <1>1 DEF CopiesOwnRows
<1> QED BY <1>2, <1>3, <1>4, <1>5, <1>6 DEF IInv

(* The finally clauses, whether the kernel returned or raised.               *)
LEMMA LeaveInv ==
  ASSUME IInv, Leave, pc' # "fp16"
  PROVE  BufInv' /\ KnobInv' /\ CopiesOwnRows' /\ \A t \in Sides : bufs'[t].size = bufs[t].size
<1>0. BufInv /\ KnobInv BY DEF IInv
<1>1. /\ environ' = Restored /\ user' = user
      /\ bufs' = [t \in DOMAIN bufs |-> [bufs[t] EXCEPT !.rows = <<>>]]
  BY DEF Leave
<1>2. DOMAIN bufs = Sides BY <1>0 DEF BufInv
<1>3. \A t \in Sides : bufs'[t] = [size |-> bufs[t].size, rows |-> <<>>]
  BY <1>0, <1>1, <1>2 DEF BufInv
<1>4. BufInv' BY <1>0, <1>1, <1>2, <1>3 DEF BufInv
<1>5. KnobInv'
  <2>1. environ' = [k \in Knobs |-> environ'[k]] BY <1>1 DEF Restored
  <2>2. ASSUME NEW k \in Knobs PROVE environ'[k] = IF k \in user THEN "user" ELSE "unset"
    <3>1. environ[k] = IF k \in user THEN "user"
                       ELSE IF pc = "fp16" /\ TilingOn THEN "prefill" ELSE "unset"
      BY <1>0 DEF KnobInv, KnobsOnlyInCopy
    <3>2. environ'[k] = IF environ[k] = "prefill" THEN "unset" ELSE environ[k]
      BY <1>1 DEF Restored
    <3> QED BY <3>1, <3>2
  <2> QED BY <1>1, <2>1, <2>2 DEF KnobInv, KnobsOnlyInCopy
<1>6. CopiesOwnRows' BY DEF CopiesOwnRows
<1>7. ASSUME NEW t \in Sides PROVE bufs'[t].size = bufs[t].size
  <2>1. bufs'[t] = [size |-> bufs[t].size, rows |-> <<>>] BY <1>3
  <2> QED BY <2>1
<1> QED BY <1>4, <1>5, <1>6, <1>7

LEMMA ReturnInv ==
  ASSUME IInv, Return
  PROVE  IInv'
<1>0. ShapeInv /\ ExactInv BY DEF IInv
<1>1. /\ pc \in Running /\ exact' = exact /\ quant' = quant /\ Leave
  BY DEF Return, Leave, Running
<1>2. /\ mode # "idle" /\ layer \in Layers /\ mode \in {"eager", "capture"} /\ batch \in Batches
  BY <1>0, <1>1 DEF ShapeInv, Running
<1>3. CASE layer < NumLayers
  <2>1. /\ layer' = layer + 1 /\ pc' = "update" /\ batch' = batch /\ mode' = mode /\ warm' = warm
    BY <1>3 DEF Return
  <2>2. ShapeInv' BY <1>2, <1>3, <2>1, CopyAssumption DEF ShapeInv, Layers
  <2>3. ExactInv'
    <3>1. \A l \in Layers : l < layer + 1 => l < layer \/ l = layer
      BY <1>2, CopyAssumption DEF Layers
    <3> QED BY <1>0, <1>1, <2>1, <3>1 DEF ExactInv, Running
  <2>4. BufInv' /\ KnobInv' /\ CopiesOwnRows' BY <1>1, <2>1, LeaveInv
  <2> QED BY <2>2, <2>3, <2>4 DEF IInv
<1>4. CASE ~(layer < NumLayers)
  <2>1. /\ mode' = "idle" /\ pc' = "idle" /\ layer' = 1 /\ warm' = (warm \/ mode = "eager")
    BY <1>4 DEF Return, Idle
  <2>2. ShapeInv' BY <2>1, CopyAssumption DEF ShapeInv, Layers
  <2>3. ExactInv'
    <3>1. \A l \in Layers : l < layer \/ l = layer BY <1>2, <1>4, CopyAssumption DEF Layers
    <3> QED BY <1>0, <1>1, <1>2, <2>1, <3>1 DEF ExactInv
  <2>4. BufInv' /\ KnobInv' /\ CopiesOwnRows' BY <1>1, <2>1, LeaveInv
  <2> QED BY <2>2, <2>3, <2>4 DEF IInv
<1> QED BY <1>3, <1>4

LEMMA RaiseInv ==
  ASSUME IInv, Raise
  PROVE  IInv'
<1>1. /\ mode' = "idle" /\ pc' = "idle" /\ layer' = 1 /\ warm' = warm /\ exact' = exact
      /\ quant' = quant /\ Leave
  BY DEF Raise, Idle, Leave
<1>2. ShapeInv' BY <1>1, CopyAssumption DEF ShapeInv, Layers
<1>3. ExactInv' BY <1>1 DEF IInv, ExactInv
<1>4. BufInv' /\ KnobInv' /\ CopiesOwnRows' BY <1>1, LeaveInv
<1> QED BY <1>2, <1>3, <1>4 DEF IInv

(* A step that an allocation ended, outside the fp16 kernel.                 *)
LEMMA EndsEarly ==
  ASSUME IInv, pc \in {"update", "attend"}, Idle, BufInv',
         UNCHANGED <<quant, user, environ, exact, warm>>
  PROVE  IInv'
<1>1. mode' = "idle" /\ pc' = "idle" /\ layer' = 1 BY DEF Idle
<1>2. ShapeInv' BY <1>1, CopyAssumption DEF ShapeInv, Layers
<1>3. KnobInv'
  <2>1. KnobInv BY DEF IInv
  <2>2. environ' = environ /\ user' = user /\ pc # "fp16" /\ pc' # "fp16" BY <1>1
  <2> QED BY ONLY <2>1, <2>2 DEF KnobInv, KnobsOnlyInCopy
<1>4. ExactInv' BY <1>1 DEF IInv, ExactInv
<1>5. CopiesOwnRows' BY <1>1 DEF CopiesOwnRows
<1> QED BY <1>2, <1>3, <1>4, <1>5 DEF IInv

LEMMA UpdateRaisesInv ==
  ASSUME IInv, UpdateRaises
  PROVE  IInv'
<1>1. /\ pc = "update" /\ Idle /\ bufs' = bufs
      /\ UNCHANGED <<quant, user, environ, exact, warm>>
  BY DEF UpdateRaises
<1>2. BufInv' BY <1>1 DEF IInv, BufInv
<1> QED BY <1>1, <1>2, EndsEarly

LEMMA EnterCopyRaisesInv ==
  ASSUME IInv, EnterCopyRaises
  PROVE  IInv'
<1>1. /\ pc = "attend" /\ mode # "idle" /\ Idle
      /\ UNCHANGED <<quant, user, environ, exact, warm>>
  BY DEF EnterCopyRaises
<1>2. batch \in Batches BY <1>1 DEF IInv, ShapeInv
<1>3. PICK side \in Sides : bufs' = LostOn(side, NumBlocks) BY DEF EnterCopyRaises, Sides
<1>4. BufInv' BY <1>2, <1>3, LostTyped DEF IInv
<1> QED BY <1>1, <1>4, EndsEarly

LEMMA StepInv == IInv /\ [Next]_vars => IInv'
<1> SUFFICES ASSUME IInv, [Next]_vars PROVE IInv' OBVIOUS
<1>1. CASE \E b \in Batches, m \in {"eager", "capture"} : Begin(b, m) BY <1>1, BeginInv
<1>2. CASE Update BY <1>2, UpdateInv
<1>3. CASE EnterCopy BY <1>3, EnterCopyInv
<1>4. CASE EnterOther BY <1>4, EnterOtherInv
<1>5. CASE Return BY <1>5, ReturnInv
<1>6. CASE Raise BY <1>6, RaiseInv
<1>7. CASE UNCHANGED vars
  <2>1. ShapeInv' BY <1>7 DEF vars, IInv, ShapeInv
  <2>2. BufInv' BY <1>7 DEF vars, IInv, BufInv
  <2>3. KnobInv'
    <3>1. UNCHANGED <<pc, environ, user>> BY <1>7 DEF vars
    <3>2. KnobInv BY DEF IInv
    <3> QED BY ONLY <3>1, <3>2 DEF KnobInv, KnobsOnlyInCopy
  <2>4. ExactInv'
    <3>1. UNCHANGED <<mode, warm, quant, exact, layer, pc>> BY <1>7 DEF vars
    <3>2. ExactInv BY Zenon DEF IInv
    <3> QED BY ONLY <3>1, <3>2 DEF ExactInv
  <2>5. CopiesOwnRows'
    <3>1. CopiesOwnRows BY DEF IInv
    <3>2. UNCHANGED <<pc, batch, kernel, bufs, quant, layer, exact>> BY <1>7 DEF vars
    <3>3. \A s, p, side : Due(s, p, side)' = Due(s, p, side) BY <3>2 DEF Due
    <3> QED BY <3>1, <3>2, <3>3 DEF CopiesOwnRows, Sequences
  <2> QED BY <2>1, <2>2, <2>3, <2>4, <2>5 DEF IInv
<1>8. CASE UpdateRaises BY <1>8, UpdateRaisesInv
<1>9. CASE EnterCopyRaises BY <1>9, EnterCopyRaisesInv
<1> QED BY <1>1, <1>2, <1>3, <1>4, <1>5, <1>6, <1>7, <1>8, <1>9 DEF Next

LEMMA Invariance == Spec => []IInv
<1> QED BY InitInv, StepInv, PTL DEF Spec
-----------------------------------------------------------------------------
(* The properties *)

LEMMA ExactInGraphs == ASSUME IInv PROVE GraphsWriteExact
<1> SUFFICES ASSUME warm, SINKS + TAIL > 0, quant = "int4" PROVE layer \in exact
  BY DEF GraphsWriteExact
<1>1. Layers \subseteq exact BY DEF IInv, ExactInv
<1>2. layer \in Layers BY DEF IInv, ShapeInv
<1> QED BY <1>1, <1>2

(* The buffer's size after a step is that of a replacement.                  *)
Replaced(t) ==
  /\ bufs'[t].size >= Len(batch.tables) * NumBlocks
  /\ bufs'[t].size <= Larger(Cap, Len(batch.tables) * NumBlocks)
  /\ \/ 4 * bufs'[t].size >= 5 * bufs[t].size
     \/ bufs'[t].size = Larger(Cap, Len(batch.tables) * NumBlocks)

LEMMA BufferReplaced ==
  ASSUME BufInv, batch \in Batches, NEW t \in Sides,
         bufs'[t].size = Buffer(bufs[t], Len(batch.tables) * NumBlocks, Cap).size,
         bufs'[t].size # bufs[t].size
  PROVE  bufs[t].size < Len(batch.tables) * NumBlocks /\ Replaced(t)
<1> DEFINE n == Len(batch.tables) * NumBlocks
           new == Buffer(bufs[t], n, Cap).size
<1>1. Cap \in Nat /\ n \in Nat /\ bufs[t].size \in Nat BY CapTyped DEF BufInv
<1> HIDE DEF n
<1>2. /\ new \in Nat /\ new >= n
      /\ new # bufs[t].size => /\ bufs[t].size < n /\ new <= Larger(Cap, n)
                               /\ 4 * new >= 5 * bufs[t].size \/ new = Larger(Cap, n)
  BY <1>1, BufferIs
<1>3. bufs'[t].size = new BY DEF n
<1> HIDE DEF new
<1> QED BY <1>2, <1>3 DEF Replaced, n

(* Only the copy replaces a buffer, or loses one.                            *)
LEMMA StepGrows ==
  ASSUME IInv, [Next]_vars, NEW t \in Sides, bufs'[t].size # bufs[t].size
  PROVE  /\ ~Capturing /\ bufs[t].size < Len(batch.tables) * NumBlocks
         /\ \/ Replaced(t)
            \/ bufs'[t].size = 0 /\ mode' = "idle"
<1>0. ShapeInv /\ BufInv BY DEF IInv
<1>1. CASE EnterCopy
  <2>1. bufs' = Copied(NumBlocks) /\ mode # "idle" /\ ~Capturing
    BY <1>1 DEF EnterCopy, TakesCopy
  <2>2. batch \in Batches BY <1>0, <2>1 DEF ShapeInv
  <2>3. bufs'[t] = [size |-> Buffer(bufs[t], Len(batch.tables) * NumBlocks, Cap).size,
                    rows |-> Copy(t)]
    BY <1>0, <2>1, <2>2, CopiedIs
  <2>4. bufs'[t].size = Buffer(bufs[t], Len(batch.tables) * NumBlocks, Cap).size
    <3> DEFINE z == Buffer(bufs[t], Len(batch.tables) * NumBlocks, Cap).size
    <3> HIDE DEF z
    <3>1. bufs'[t] = [size |-> z, rows |-> Copy(t)] BY <2>3 DEF z
    <3>2. bufs'[t].size = z BY <3>1
    <3> QED BY <3>2 DEF z
  <2> QED BY <1>0, <2>1, <2>2, <2>4, BufferReplaced
<1>8. CASE EnterCopyRaises
  <2>1. mode # "idle" /\ ~Capturing /\ mode' = "idle"
    BY <1>8 DEF EnterCopyRaises, TakesCopy, Idle
  <2>2. batch \in Batches BY <1>0, <2>1 DEF ShapeInv
  <2>3. PICK side \in Sides : /\ bufs[side].size < Len(batch.tables) * NumBlocks
                              /\ bufs' = LostOn(side, NumBlocks)
    BY <1>8 DEF EnterCopyRaises, Sides, Tag
  <2>4. bufs'[t].size = IF t = side THEN 0
                        ELSE IF side = "v"
                        THEN Buffer(bufs[t], Len(batch.tables) * NumBlocks, Cap).size
                        ELSE bufs[t].size
    BY <1>0, <2>2, <2>3, LostTyped
  <2>5. CASE t = side BY <2>1, <2>3, <2>4, <2>5
  <2>6. CASE t # side
    <3>1. bufs'[t].size = Buffer(bufs[t], Len(batch.tables) * NumBlocks, Cap).size
      BY <2>4, <2>6
    <3> QED BY <1>0, <2>1, <2>2, <3>1, BufferReplaced
  <2> QED BY <2>5, <2>6
<1>9. CASE UpdateRaises BY <1>9 DEF UpdateRaises
<1>2. CASE \E b \in Batches, m \in {"eager", "capture"} : Begin(b, m) BY <1>2 DEF Begin
<1>3. CASE Update BY <1>3 DEF Update
<1>4. CASE EnterOther BY <1>4 DEF EnterOther
<1>5. CASE Return
  <2>1. Leave /\ pc' # "fp16" BY <1>5 DEF Return, Idle
  <2> QED BY <2>1, LeaveInv
<1>6. CASE Raise
  <2>1. Leave /\ pc' # "fp16" BY <1>6 DEF Raise, Idle
  <2> QED BY <2>1, LeaveInv
<1>7. CASE UNCHANGED vars BY <1>7 DEF vars
<1> QED BY <1>1, <1>2, <1>3, <1>4, <1>5, <1>6, <1>7, <1>8, <1>9 DEF Next

(* kv_dequant's fp16 kernel reads, at every position of every sequence, the row
   that is due there for the running layer and side, though all layers gather
   into the same two buffers and nothing is cleared. *)
THEOREM CopyIsExact == Spec => []CopiesOwnRows
<1>1. IInv => CopiesOwnRows BY DEF IInv
<1> QED BY <1>1, Invariance, PTL

(* Once a whole eager step has run, exact_buffers has made the exact buffers of
   every layer, and every graph captured from then on writes them. *)
THEOREM CapturesHaveExact == Spec => []GraphsWriteExact
<1> QED BY Invariance, ExactInGraphs, PTL

(* prefill_attention's knobs are in the environment during the fp16 kernel, and
   at no other time, however the kernel ends. *)
THEOREM KnobsAreRestored == Spec => []KnobsOnlyInCopy
<1>1. IInv => KnobsOnlyInCopy BY DEF IInv, KnobInv
<1> QED BY <1>1, Invariance, PTL

(* _buffer replaces a buffer that is too small by one a quarter larger, or by all
   that the batch can need, or loses it to an allocation that fails, and with it
   the step; and never during a capture. *)
THEOREM BuffersGrowInSteps == Spec => GrowsInSteps
<1>1. IInv /\ [Next]_vars =>
        [\A t \in DOMAIN bufs :
           LET old == bufs[t].size
               new == bufs'[t].size
               need == Len(batch.tables) * NumBlocks
               most == Larger(Cap, need)
           IN new # old =>
                /\ ~Capturing /\ old < need
                /\ \/ /\ new >= need /\ new <= most
                      /\ 4 * new >= 5 * old \/ new = most
                   \/ new = 0 /\ mode' = "idle"]_vars
  <2> SUFFICES ASSUME IInv, [Next]_vars, NEW t \in Sides, bufs'[t].size # bufs[t].size
               PROVE  LET old == bufs[t].size
                          new == bufs'[t].size
                          need == Len(batch.tables) * NumBlocks
                          most == Larger(Cap, need)
                      IN /\ ~Capturing /\ old < need
                         /\ \/ /\ new >= need /\ new <= most
                               /\ 4 * new >= 5 * old \/ new = most
                            \/ new = 0 /\ mode' = "idle"
    <3>1. IInv => DOMAIN bufs = Sides BY DEF IInv, BufInv
    <3> QED BY <3>1
  <2> QED BY StepGrows DEF Replaced
<1> QED BY <1>1, Invariance, PTL DEF Spec, GrowsInSteps
=============================================================================
