---------------------------- MODULE KvInt4Proofs ----------------------------
(***************************************************************************)
(* KvInt4 for every number of slots, blocks, ring size and step size.       *)
(* IInv is the inductive invariant for the ring: the type invariant, the    *)
(* shape of the batch, that the kernels' slot buffer names the batch, and   *)
(* that a tag below the valid length tells the truth.  TailInv adds that    *)
(* the newest rows keep their tags, PagedInv that the paged cache holds the *)
(* request's own rows, whatever blocks requests share, give up and take     *)
(* over.                                                                    *)
(***************************************************************************)
EXTENDS KvInt4, TLAPS

(* Arithmetic of the ring: p % TAIL *)

LEMMA ModRange == \A p \in Int : p % TAIL \in 0 .. TAIL - 1
BY KvAssumption

LEMMA DivDef == \A p \in Int : p \div TAIL \in Int /\ p = TAIL * (p \div TAIL) + (p % TAIL)
BY KvAssumption

LEMMA MulGap == \A a, b \in Int : a > b => TAIL * a >= TAIL * b + TAIL
BY KvAssumption

(* Two positions of one tail window take different ring entries. *)
LEMMA WindowInjective ==
  ASSUME NEW p \in Int, NEW q \in Int, p % TAIL = q % TAIL, p - q < TAIL, q - p < TAIL
  PROVE  p = q
<1> DEFINE a == p \div TAIL
           b == q \div TAIL
<1>1. /\ a \in Int /\ b \in Int
      /\ p = TAIL * a + (p % TAIL) /\ q = TAIL * b + (q % TAIL)
  BY DivDef
<1>2. /\ TAIL * a \in Int /\ TAIL * b \in Int /\ p % TAIL \in Int /\ TAIL \in Int
  BY <1>1, KvAssumption, ModRange
<1>3. p - q = TAIL * a - TAIL * b
  BY <1>1, <1>2
<1>4. ~(a > b) /\ ~(b > a)
  BY <1>1, <1>2, <1>3, MulGap
<1>5. QED
  BY <1>1, <1>4

LEMMA ModOfSum ==
  ASSUME NEW k \in Int, NEW e \in Entries
  PROVE  (TAIL * k + e) % TAIL = e
<1> DEFINE p == TAIL * k + e
           j == p \div TAIL
<1>1. TAIL * k \in Int /\ e \in 0 .. TAIL - 1 /\ p \in Int /\ TAIL \in Nat
  BY KvAssumption DEF Entries
<1>2. j \in Int /\ p = TAIL * j + (p % TAIL) /\ p % TAIL \in 0 .. TAIL - 1 /\ TAIL * j \in Int
  <2>1. p \in Int
    BY <1>1
  <2> HIDE DEF p
  <2>2. j \in Int /\ p = TAIL * j + (p % TAIL)
    BY <2>1, DivDef
  <2>3. p % TAIL \in 0 .. TAIL - 1
    BY <2>1, ModRange
  <2> HIDE DEF j
  <2>4. TAIL * j \in Int
    BY <2>2, <1>1
  <2>. QED BY <2>2, <2>3, <2>4
<1>3. TAIL * j - TAIL * k = e - (p % TAIL)
  BY <1>1, <1>2
<1>4. ~(j > k) /\ ~(k > j)
  <2> HIDE DEF j, p
  <2>. QED BY <1>1, <1>2, <1>3, MulGap
<1>5. QED
  <2>1. j = k
    BY <1>2, <1>4
  <2>. QED BY <1>1, <1>2, <2>1

(* A tail window holds a position of every ring entry. *)
LEMMA WindowCovers ==
  ASSUME NEW n \in Int, NEW e \in Entries
  PROVE  \E p \in n - TAIL .. n - 1 : p % TAIL = e
<1> DEFINE d == (n - 1 - e) % TAIL
           k == (n - 1 - e) \div TAIL
           p == n - 1 - d
<1>1. /\ d \in 0 .. TAIL - 1 /\ k \in Int /\ n - 1 - e = TAIL * k + d
  BY DivDef, ModRange DEF Entries
<1>2. TAIL * k \in Int /\ TAIL \in Nat /\ e \in Int
  BY <1>1, KvAssumption DEF Entries
<1>3. p \in n - TAIL .. n - 1 /\ p = TAIL * k + e
  BY <1>1, <1>2
<1>4. p % TAIL = e
  BY <1>1, <1>3, ModOfSum
<1>5. QED
  BY <1>3, <1>4
-----------------------------------------------------------------------------
(* The step's batch: every scheduled slot is one row of it, and fits. *)
BatchInv ==
  /\ Len(batch) <= MaxBatch
  /\ \A s \in Slots : len[s] + query[s] <= MaxLen
  /\ \A s \in Slots : query[s] > 0 => \E r \in 1 .. Len(batch) : batch[r] = s
  /\ \A r \in 1 .. Len(batch) : batch[r] \in active /\ query[batch[r]] > 0
  /\ \A r, q \in 1 .. Len(batch) : batch[r] = batch[q] => r = q

(* Once prepared, the kernels' buffer names the batch's slots. *)
BufInv ==
  phase # "schedule" => \A r \in 1 .. Len(batch) : buf[r] = batch[r]

(* The positions whose ring rows can be trusted: in the attention phase also
   the ones this step wrote. *)
Valid(s) == IF phase = "attend" THEN len[s] + query[s] ELSE len[s]

(* The tag of an entry fits the entry, and below Valid it tells the truth. *)
RingInv ==
  \A s \in active, e \in Entries :
    tag[s][e] # -1 =>
      /\ tag[s][e] % TAIL = e
      /\ tag[s][e] < Valid(s) =>
           ringK[s][e] = text[s][tag[s][e]] /\ ringV[s][e] = text[s][tag[s][e]]

IInv == TypeOK /\ BatchInv /\ BufInv /\ RingInv

LEMMA InitIInv == Init => IInv
<1> SUFFICES ASSUME Init PROVE IInv
  OBVIOUS
<1> USE KvAssumption
<1>1. TypeOK
  BY DEF Init, TypeOK, Rows, Content, NoText, NoTable, EmptyRow, Entries, Offsets, BatchRows
<1>2. BatchInv
  BY DEF Init, BatchInv
<1>3. BufInv /\ RingInv
  BY DEF Init, BufInv, RingInv
<1>. QED BY <1>1, <1>2, <1>3 DEF IInv
-----------------------------------------------------------------------------
LEMMA AdmitIInv ==
  ASSUME IInv, NEW s \in Slots, NEW hits \in Nat, NEW prefix \in Seq(Content), NEW blocks,
         hits <= Len(prefix), \A i \in DOMAIN blocks : blocks[i] \in Blocks,
         Admit(s, hits, prefix, blocks)
  PROVE  IInv'
<1> USE KvAssumption DEF IInv
<1>1. TypeOK'
  <2>1. text' \in [Slots -> [Positions -> Content]]
    <3>1. [p \in Positions |-> IF p < hits THEN prefix[p + 1] ELSE Blank] \in [Positions -> Content]
      <4>1. \A p \in Positions : p < hits => p + 1 \in 1 .. Len(prefix)
        BY DEF Positions
      <4>. QED BY <4>1 DEF Content
    <3>. QED BY <3>1 DEF TypeOK, Admit
  <2>2. table' \in [Slots -> [TableIdx -> Blocks \union {NoBlock}]]
    BY DEF TypeOK, Admit
  <2>3. tag' \in [Rows -> [Entries -> -1 .. MaxLen - 1]]
    BY DEF TypeOK, Admit, ClearedTags, EmptyRow, Rows
  <2>. QED BY <2>1, <2>2, <2>3 DEF TypeOK, Admit
<1>2. /\ s \notin active /\ active' = active \union {s} /\ UNCHANGED <<phase, query, batch, buf>>
      /\ len' = [len EXCEPT ![s] = hits] /\ hits < MaxLen
      /\ len \in [Slots -> 0 .. MaxLen] /\ query \in [Slots -> 0 .. MaxQ] /\ active \subseteq Slots
  BY DEF Admit, TypeOK
<1>3. query[s] = 0
  BY <1>2 DEF BatchInv
<1>4. BatchInv' /\ BufInv'
  BY <1>2, <1>3 DEF BatchInv, BufInv
<1>5. RingInv'
  <2> SUFFICES ASSUME NEW t \in active', NEW e \in Entries, tag'[t][e] # -1
               PROVE  /\ tag'[t][e] % TAIL = e
                      /\ tag'[t][e] < Valid(t)' =>
                           ringK'[t][e] = text'[t][tag'[t][e]] /\ ringV'[t][e] = text'[t][tag'[t][e]]
    BY DEF RingInv
  <2>1. tag \in [Rows -> [Entries -> -1 .. MaxLen - 1]] /\ text \in [Slots -> [Positions -> Content]]
    BY DEF TypeOK
  <2>2. t # s
    BY <2>1 DEF Admit, ClearedTags, EmptyRow, Rows
  <2>3. /\ t \in active /\ t \in Slots /\ tag'[t] = tag[t] /\ text'[t] = text[t] /\ ringK' = ringK /\ ringV' = ringV
        /\ Valid(t)' = Valid(t)
    BY <1>2, <2>1, <2>2 DEF Admit, ClearedTags, Rows, Valid
  <2>. QED BY <2>3 DEF RingInv
<1>. QED BY <1>1, <1>4, <1>5

LEMMA AddIInv == ASSUME IInv, NEW s \in Slots, AddRequest(s) PROVE IInv'
<1>1. CASE Admit(s, 0, <<>>, <<>>)
  <2>1. <<>> \in Seq(Content) /\ 0 \in Nat /\ 0 <= Len(<<>>) /\ \A i \in DOMAIN <<>> : <<>>[i] \in Blocks
    OBVIOUS
  <2>. QED BY <1>1, <2>1, AdmitIInv, Zenon
<1>2. ASSUME NEW b \in Blocks, hash[b] # <<>>, NEW c \in Chains(b), Admit(s, Len(hash[b]), hash[b], c)
      PROVE  IInv'
  <2>1. hash[b] \in Seq(Content) /\ Len(hash[b]) \in Nat
    BY DEF IInv, TypeOK
  <2>2. \A i \in DOMAIN c : c[i] \in Blocks
    BY DEF Chains
  <2>. QED BY <1>2, <2>1, <2>2, AdmitIInv
<1>. QED BY <1>1, <1>2 DEF AddRequest

LEMMA RemoveIInv == ASSUME IInv, NEW s \in Slots, RemoveRequest(s) PROVE IInv'
<1> USE KvAssumption DEF IInv
<1>1. TypeOK'
  BY DEF TypeOK, RemoveRequest, NoText, NoTable, Content, exact
<1>2. /\ query[s] = 0 /\ active' = active \ {s} /\ UNCHANGED <<phase, query, batch, buf, tag, ringK, ringV>>
      /\ len' = [len EXCEPT ![s] = 0] /\ text' = [text EXCEPT ![s] = NoText]
      /\ len \in [Slots -> 0 .. MaxLen] /\ query \in [Slots -> 0 .. MaxQ] /\ active \subseteq Slots
      /\ text \in [Slots -> [Positions -> Content]]
  BY DEF RemoveRequest, TypeOK, exact
<1>3. BatchInv' /\ BufInv'
  <2>1. \A r \in 1 .. Len(batch) : batch[r] # s
    BY <1>2 DEF BatchInv
  <2>2. \A t \in Slots : len'[t] + query[t] <= MaxLen
    <3>1. \A t \in Slots : len'[t] = IF t = s THEN 0 ELSE len[t]
      BY <1>2
    <3>2. \A t \in Slots : len[t] + query[t] <= MaxLen
      BY DEF BatchInv
    <3>. QED BY <1>2, <3>1, <3>2
  <2>3. \A r \in 1 .. Len(batch) : batch[r] \in active'
    BY <1>2, <2>1 DEF BatchInv
  <2>4. UNCHANGED <<query, batch>>
    BY <1>2
  <2>5. BatchInv'
    BY ONLY BatchInv, <2>2, <2>3, <2>4 DEF BatchInv
  <2>6. BufInv'
    BY <1>2 DEF BufInv
  <2>. QED BY <2>5, <2>6
<1>4. RingInv'
  <2>1. \A t \in active' : t \in active /\ text'[t] = text[t] /\ Valid(t)' = Valid(t)
    BY <1>2 DEF Valid
  <2>. QED BY <1>2, <2>1 DEF RingInv
<1>. QED BY <1>1, <1>3, <1>4

LEMMA ScheduleIInv == ASSUME IInv, NEW s \in Slots, NEW q \in 1 .. MaxQ, ScheduleRequest(s, q) PROVE IInv'
<1> USE KvAssumption DEF IInv
<1>0. /\ phase = "schedule" /\ s \in active /\ query[s] = 0 /\ len[s] + q <= MaxLen
      /\ Len(batch) < MaxBatch
      /\ query' = [query EXCEPT ![s] = q] /\ batch' = Append(batch, s)
      /\ UNCHANGED <<phase, active, mode, len, hit, top, buf, cache, sink, tag, ringK, ringV>>
      /\ len \in [Slots -> 0 .. MaxLen] /\ query \in [Slots -> 0 .. MaxQ] /\ active \subseteq Slots
      /\ batch \in Seq(Slots)
      /\ text \in [Slots -> [Positions -> Content]] /\ table \in [Slots -> [TableIdx -> Blocks \union {NoBlock}]]
      /\ hash \in [Blocks -> Seq(Content)]
  BY DEF ScheduleRequest, TypeOK, exact
<1> DEFINE need == {i \in TableIdx : i * BLOCK_SIZE < len[s] + q /\ table[s][i] = NoBlock}
           known == IF mode[s] = "prefill" THEN len[s] + q ELSE len[s] + 1
<1>1. PICK new \in [need -> Free], vals \in [0 .. q - 1 -> Values] :
        /\ text' = [text EXCEPT ![s] = [p \in Positions |->
                      IF p \in len[s] .. len[s] + q - 1 THEN vals[p - len[s]] ELSE @[p]]]
        /\ table' = [table EXCEPT ![s] = [i \in TableIdx |->
                                            IF i \in need THEN new[i] ELSE @[i]]]
        /\ hash' = [b \in Blocks |->
             LET full == {i \in TableIdx : table'[s][i] = b /\ (i + 1) * BLOCK_SIZE <= known}
             IN CASE full # {} -> [k \in 1 .. ((CHOOSE i \in full : TRUE) + 1) * BLOCK_SIZE
                                      |-> text'[s][k - 1]]
                  [] full = {} /\ b \in {new[i] : i \in need} -> <<>>
                  [] OTHER -> hash[b]]
  BY DEF ScheduleRequest
<1>2. TypeOK'
  <2>1. text' \in [Slots -> [Positions -> Content]]
    <3>1. \A p \in Positions : p \in len[s] .. len[s] + q - 1 => p - len[s] \in 0 .. q - 1
      BY <1>0 DEF Positions
    <3>. QED BY <1>0, <1>1, <3>1 DEF Content
  <2>2. table' \in [Slots -> [TableIdx -> Blocks \union {NoBlock}]]
    BY <1>0, <1>1 DEF Free
  <2>3. hash' \in [Blocks -> Seq(Content)]
    <3> SUFFICES ASSUME NEW b \in Blocks PROVE hash'[b] \in Seq(Content)
      BY <1>1
    <3> DEFINE full == {i \in TableIdx : table'[s][i] = b /\ (i + 1) * BLOCK_SIZE <= known}
    <3>1. CASE full # {}
      <4> DEFINE j == CHOOSE i \in full : TRUE
      <4>1. j \in full
        BY <3>1
      <4>2. (j + 1) * BLOCK_SIZE \in Nat /\ (j + 1) * BLOCK_SIZE <= MaxLen
        <5>1. j \in Nat /\ (j + 1) * BLOCK_SIZE <= known
          BY <4>1 DEF TableIdx
        <5>2. known \in Int /\ known <= MaxLen
          BY <1>0
        <5> HIDE DEF j, known, full
        <5>3. (j + 1) * BLOCK_SIZE \in Nat
          BY <5>1
        <5>. QED BY <5>1, <5>2, <5>3
      <4>3. \A k \in 1 .. (j + 1) * BLOCK_SIZE : k - 1 \in Positions
        BY <4>2 DEF Positions
      <4>4. hash'[b] = [k \in 1 .. (j + 1) * BLOCK_SIZE |-> text'[s][k - 1]]
        BY <1>1, <3>1
      <4> HIDE DEF j
      <4>5. [k \in 1 .. (j + 1) * BLOCK_SIZE |-> text'[s][k - 1]] \in [1 .. (j + 1) * BLOCK_SIZE -> Content]
        BY <4>3, <2>1
      <4>6. \A n \in Nat : \A f \in [1 .. n -> Content] : f \in Seq(Content)
        OBVIOUS
      <4> DEFINE n == (j + 1) * BLOCK_SIZE
                 f == [k \in 1 .. n |-> text'[s][k - 1]]
      <4>7. n \in Nat /\ f \in [1 .. n -> Content] /\ hash'[b] = f
        BY <4>2, <4>4, <4>5
      <4> HIDE DEF n, f
      <4>. QED BY <4>6, <4>7
    <3>2. CASE full = {}
      <4>1. \/ b \in {new[i] : i \in need} /\ hash'[b] = <<>>
            \/ b \notin {new[i] : i \in need} /\ hash'[b] = hash[b]
        BY <1>1, <3>2, Zenon
      <4>2. hash[b] \in Seq(Content) /\ <<>> \in Seq(Content)
        BY <1>0
      <4>. QED BY <4>1, <4>2
    <3>. QED BY <3>1, <3>2
  <2>4. query' \in [Slots -> 0 .. MaxQ] /\ batch' \in Seq(Slots)
    BY <1>0
  <2>. QED BY <1>0, <2>1, <2>2, <2>3, <2>4 DEF TypeOK
<1>3. BatchInv'
  <2>1. /\ Len(batch') = Len(batch) + 1 /\ batch'[Len(batch) + 1] = s
        /\ \A r \in 1 .. Len(batch) : batch'[r] = batch[r]
    BY <1>0
  <2>2. \A r \in 1 .. Len(batch) : batch[r] # s
    <3>1. query[s] = 0 /\ ~(query[s] > 0)
      BY <1>0
    <3>2. \A r \in 1 .. Len(batch) : query[batch[r]] > 0
      BY DEF BatchInv
    <3>. QED BY <3>1, <3>2
  <2>3. \A t \in Slots : t # s => query'[t] = query[t]
    BY <1>0
  <2>4. query'[s] = q
    BY <1>0
  <2>5. \A t \in Slots : query'[t] > 0 => \E r \in 1 .. Len(batch') : batch'[r] = t
    <3> SUFFICES ASSUME NEW t \in Slots, query'[t] > 0
                 PROVE  \E r \in 1 .. Len(batch') : batch'[r] = t
      OBVIOUS
    <3>1. CASE t = s
      BY <3>1, <2>1, <1>0
    <3>2. CASE t # s
      <4>1. PICK r \in 1 .. Len(batch) : batch[r] = t
        BY <3>2, <2>3 DEF BatchInv
      <4>2. r \in 1 .. Len(batch') /\ batch'[r] = t
        BY <4>1, <2>1, <1>0
      <4>. QED BY <4>2
    <3>. QED BY <3>1, <3>2
  <2>6. Len(batch') <= MaxBatch /\ \A t \in Slots : len'[t] + query'[t] <= MaxLen
    <3>1. \A t \in Slots : len[t] + query[t] <= MaxLen
      BY DEF BatchInv
    <3>2. Len(batch) \in Nat
      BY <1>0
    <3>. QED BY <1>0, <2>1, <2>3, <2>4, <3>1, <3>2
  <2>7. \A r \in 1 .. Len(batch') : batch'[r] \in active' /\ query'[batch'[r]] > 0
    <3>1. \A r \in 1 .. Len(batch) : batch[r] \in active /\ query[batch[r]] > 0
      BY DEF BatchInv
    <3> SUFFICES ASSUME NEW r \in 1 .. Len(batch') PROVE batch'[r] \in active' /\ query'[batch'[r]] > 0
      OBVIOUS
    <3>2. r \in 1 .. Len(batch) \/ r = Len(batch) + 1
      <4>1. Len(batch) \in Nat /\ r \in 1 .. Len(batch) + 1
        BY <1>0, <2>1
      <4>. QED BY <4>1
    <3>3. CASE r \in 1 .. Len(batch)
      <4>1. batch'[r] = batch[r] /\ batch[r] \in active /\ query[batch[r]] > 0 /\ batch[r] # s
        BY ONLY <2>1, <2>2, <3>1, <3>3
      <4>2. batch[r] \in Slots /\ active' = active
        BY <4>1, <1>0
      <4>. QED BY ONLY <4>1, <4>2, <2>3
    <3>4. CASE r = Len(batch) + 1
      <4>1. s \in active' /\ q > 0
        BY <1>0
      <4>. QED BY ONLY <4>1, <2>1, <2>4, <3>4
    <3>. QED BY <3>2, <3>3, <3>4
  <2>8. \A r, u \in 1 .. Len(batch') : batch'[r] = batch'[u] => r = u
    <3>1. \A r, u \in 1 .. Len(batch) : batch[r] = batch[u] => r = u
      BY DEF BatchInv
    <3>2. \A r \in 1 .. Len(batch') : r \in 1 .. Len(batch) \/ r = Len(batch) + 1
      <4>1. Len(batch) \in Nat /\ Len(batch') = Len(batch) + 1
        BY <1>0, <2>1
      <4>. QED BY <4>1
    <3>. QED BY <2>1, <2>2, <3>1, <3>2
  <2>. QED BY <2>5, <2>6, <2>7, <2>8 DEF BatchInv
<1>4. BufInv'
  BY <1>0 DEF BufInv
<1>5. RingInv'
  <2> SUFFICES ASSUME NEW t \in active, NEW e \in Entries, tag[t][e] # -1
               PROVE  /\ tag[t][e] % TAIL = e
                      /\ tag[t][e] < len[t] =>
                           ringK[t][e] = text'[t][tag[t][e]] /\ ringV[t][e] = text'[t][tag[t][e]]
    <3>1. phase' = "schedule" /\ UNCHANGED <<active, len, tag, ringK, ringV>>
      BY <1>0
    <3>. QED BY <3>1 DEF RingInv, Valid
  <2>1. tag[t][e] \in Positions
    <3>1. tag \in [Rows -> [Entries -> -1 .. MaxLen - 1]] /\ t \in Rows
      BY <1>0 DEF TypeOK, Rows
    <3>2. tag[t][e] \in -1 .. MaxLen - 1
      BY <3>1
    <3>. QED BY <3>2 DEF Positions
  <2>2. ASSUME tag[t][e] < len[t] PROVE text'[t][tag[t][e]] = text[t][tag[t][e]]
    <3> DEFINE p == tag[t][e]
    <3>1. t \in Slots /\ len[t] \in Int /\ p \in Int
      BY <2>1, <1>0 DEF Positions
    <3>2. p \notin len[t] .. len[t] + q - 1
      BY <3>1, <2>2
    <3> HIDE DEF p
    <3>3. CASE t = s
      BY <2>1, <3>2, <3>3, <1>0, <1>1 DEF p
    <3>4. CASE t # s
      BY <3>1, <3>4, <1>0, <1>1
    <3>. QED BY <3>3, <3>4 DEF p
  <2>. QED BY <1>0, <2>2 DEF RingInv, Valid
<1>. QED BY <1>2, <1>3, <1>4, <1>5

LEMMA PrepareIInv == ASSUME IInv, PrepareInputs PROVE IInv'
<1> USE KvAssumption DEF IInv
<1>1. /\ phase = "schedule" /\ phase' = "update" /\ buf' = BatchSlots
      /\ UNCHANGED <<active, mode, len, query, text, table, batch, hash, hit, cache, sink, tag, ringK, ringV>>
      /\ batch \in Seq(Slots) /\ Len(batch) <= MaxBatch
  BY DEF PrepareInputs, TypeOK, BatchInv, exact
<1>2. buf' \in [BatchRows -> Rows] /\ \A r \in 1 .. Len(batch) : buf'[r] = batch[r]
  BY <1>1 DEF BatchSlots, BatchRows, Rows
<1>3. top' \in [Slots -> 0 .. MaxLen]
  <2>1. /\ top' = [s \in Slots |-> IF query[s] > 0 /\ SeqLen(s) > top[s] THEN SeqLen(s) ELSE top[s]]
        /\ top \in [Slots -> 0 .. MaxLen] /\ len \in [Slots -> 0 .. MaxLen] /\ query \in [Slots -> 0 .. MaxQ]
        /\ \A s \in Slots : len[s] + query[s] <= MaxLen
    BY DEF PrepareInputs, TypeOK, BatchInv
  <2>. QED BY <2>1 DEF SeqLen
<1>4. TypeOK'
  BY <1>1, <1>2, <1>3 DEF TypeOK
<1>5. BatchInv' /\ BufInv' /\ RingInv'
  BY <1>1, <1>2 DEF BatchInv, BufInv, RingInv, Valid
<1>. QED BY <1>4, <1>5

LEMMA SampleIInv == ASSUME IInv, Sample PROVE IInv'
<1> USE KvAssumption DEF IInv
<1>1. /\ phase = "attend" /\ phase' = "schedule" /\ batch' = <<>> /\ query' = [s \in Slots |-> 0]
      /\ UNCHANGED <<active, table, hash, hit, top, buf, cache, sink, tag, ringK, ringV>>
      /\ len \in [Slots -> 0 .. MaxLen] /\ query \in [Slots -> 0 .. MaxQ] /\ active \subseteq Slots
      /\ text \in [Slots -> [Positions -> Content]]
      /\ tag \in [Rows -> [Entries -> -1 .. MaxLen - 1]]
  BY DEF Sample, TypeOK, exact
<1>2. PICK kept \in [Slots -> 0 .. MaxQ] :
        /\ \A s \in Slots : kept[s] <= query[s]
        /\ len' = [s \in Slots |-> len[s] + kept[s]]
        /\ text' = [s \in Slots |-> [p \in Positions |->
                      IF p < len[s] + kept[s] THEN text[s][p] ELSE Blank]]
  BY DEF Sample
<1>3. \A s \in Slots : len[s] + query[s] <= MaxLen
  BY DEF BatchInv
<1>4. /\ len' \in [Slots -> 0 .. MaxLen] /\ query' \in [Slots -> 0 .. MaxQ]
      /\ text' \in [Slots -> [Positions -> Content]]
      /\ mode' \in [Slots -> {"prefill", "decode"}] /\ batch' \in Seq(Slots)
  <2>1. len' \in [Slots -> 0 .. MaxLen]
    BY <1>1, <1>2, <1>3
  <2>2. text' \in [Slots -> [Positions -> Content]]
    BY <1>1, <1>2 DEF Content
  <2>3. mode' \in [Slots -> {"prefill", "decode"}]
    BY DEF Sample, TypeOK
  <2>. QED BY <1>1, <2>1, <2>2, <2>3
<1>5. TypeOK'
  BY <1>1, <1>4 DEF TypeOK
<1>6. BatchInv' /\ BufInv'
  BY <1>1, <1>4 DEF BatchInv, BufInv
<1>7. RingInv'
  <2> SUFFICES ASSUME NEW t \in active, NEW e \in Entries, tag[t][e] # -1
               PROVE  /\ tag[t][e] % TAIL = e
                      /\ tag[t][e] < len'[t] =>
                           ringK[t][e] = text'[t][tag[t][e]] /\ ringV[t][e] = text'[t][tag[t][e]]
    BY <1>1 DEF RingInv, Valid
  <2>1. tag[t][e] \in Positions /\ t \in Slots
    BY <1>1 DEF Rows, Positions
  <2>2. tag[t][e] < len'[t] => text'[t][tag[t][e]] = text[t][tag[t][e]] /\ tag[t][e] < len[t] + query[t]
    BY <2>1, <1>1, <1>2 DEF Positions
  <2>. QED BY <1>1, <2>2 DEF RingInv, Valid
<1>. QED BY <1>5, <1>6, <1>7
-----------------------------------------------------------------------------
(* The cache write *)

LEMMA TokenFacts ==
  ASSUME IInv, NEW t \in Tokens
  PROVE  /\ t[1] \in 1 .. Len(batch) /\ t[2] \in Positions /\ batch[t[1]] \in Slots
         /\ len[batch[t[1]]] <= t[2] /\ t[2] < SeqLen(batch[t[1]])
         /\ TextOf(t) \in Content
<1>1. /\ len \in [Slots -> 0 .. MaxLen] /\ query \in [Slots -> 0 .. MaxQ] /\ batch \in Seq(Slots)
      /\ text \in [Slots -> [Positions -> Content]]
  BY DEF IInv, TypeOK
<1>2. t[1] \in 1 .. Len(batch) /\ t[2] \in Positions /\ batch[t[1]] \in Slots
  BY <1>1 DEF Tokens
<1>3. t[2] \in SeqLen(batch[t[1]]) - query[batch[t[1]]] .. SeqLen(batch[t[1]]) - 1
  BY DEF Tokens
<1>4. len[batch[t[1]]] <= t[2] /\ t[2] < SeqLen(batch[t[1]])
  <2> DEFINE s == batch[t[1]]
  <2>1. len[s] \in Int /\ query[s] \in Int /\ t[2] \in Int
    BY <1>1, <1>2 DEF Positions
  <2>2. t[2] \in (len[s] + query[s]) - query[s] .. (len[s] + query[s]) - 1
    BY <1>3 DEF SeqLen
  <2>3. len[s] <= t[2] /\ t[2] < len[s] + query[s]
    <3> HIDE DEF s
    <3>. QED BY ONLY <2>1, <2>2
  <2>. QED BY <2>3 DEF SeqLen
<1>. QED BY <1>1, <1>2, <1>4 DEF TextOf

(* A token of slot s at position p is in the launch when p was scheduled. *)
LEMMA TokenOf ==
  ASSUME IInv, NEW r \in 1 .. Len(batch), NEW p \in Int,
         len[batch[r]] <= p, p < SeqLen(batch[r])
  PROVE  <<r, p>> \in Tokens
<1>1. /\ len \in [Slots -> 0 .. MaxLen] /\ query \in [Slots -> 0 .. MaxQ] /\ batch \in Seq(Slots)
      /\ \A s \in Slots : len[s] + query[s] <= MaxLen
  BY DEF IInv, TypeOK, BatchInv
<1>2. batch[r] \in Slots
  BY <1>1
<1>3. p \in Positions /\ p \in SeqLen(batch[r]) - query[batch[r]] .. SeqLen(batch[r]) - 1
  BY <1>1, <1>2, KvAssumption DEF SeqLen, Positions
<1>. QED BY <1>3 DEF Tokens

LEMMA UpdateTypeOK == ASSUME IInv, CacheUpdate PROVE TypeOK'
<1>1. \A b \in Blocks, o \in Offsets :
        /\ \A t \in CacheWriters(b, o) : TextOf(t) \in Content
        /\ \A t \in SinkWriters(b, o) : TextOf(t) \in Content
  BY TokenFacts DEF CacheWriters, SinkWriters
<1>2. \A w \in Rows, e \in Entries : \A t \in RingWriters(w, e) :
        TextOf(t) \in Content /\ TagOf(t) \in Positions
  BY TokenFacts DEF RingWriters, TagOf
<1>3. /\ cache \in [Blocks -> [Offsets -> Content]] /\ sink \in [Blocks -> [Offsets -> Content]]
      /\ tag \in [Rows -> [Entries -> -1 .. MaxLen - 1]]
      /\ ringK \in [Rows -> [Entries -> Content]] /\ ringV \in [Rows -> [Entries -> Content]]
  BY DEF IInv, TypeOK
<1>4. \A S : S # {} => (CHOOSE t \in S : TRUE) \in S
  OBVIOUS
<1>5. cache' \in [Blocks -> [Offsets -> Content]]
  BY <1>1, <1>3, <1>4 DEF CacheUpdate
<1>6. sink' \in [Blocks -> [Offsets -> Content]]
  BY <1>1, <1>3, <1>4 DEF CacheUpdate
<1>7. tag' \in [Rows -> [Entries -> -1 .. MaxLen - 1]]
  BY <1>2, <1>3, <1>4, KvAssumption DEF CacheUpdate, Positions
<1>8. ringK' \in [Rows -> [Entries -> Content]] /\ ringV' \in [Rows -> [Entries -> Content]]
  BY <1>2, <1>3, <1>4 DEF CacheUpdate
<1>9. /\ phase' = "attend"
      /\ UNCHANGED <<active, mode, len, query, text, table, batch, hash, hit, top, buf>>
  BY DEF CacheUpdate
<1>. QED BY <1>5, <1>6, <1>7, <1>8, <1>9 DEF IInv, TypeOK

LEMMA UpdateRingInv == ASSUME IInv, CacheUpdate PROVE RingInv'
<1>1. /\ phase = "update" /\ phase' = "attend"
      /\ UNCHANGED <<active, len, query, text, batch, buf>>
      /\ active \subseteq Slots /\ len \in [Slots -> 0 .. MaxLen] /\ query \in [Slots -> 0 .. MaxQ]
      /\ tag \in [Rows -> [Entries -> -1 .. MaxLen - 1]] /\ batch \in Seq(Slots)
      /\ TAIL \in Nat
  BY KvAssumption DEF CacheUpdate, IInv, TypeOK
<1>2. SUFFICES ASSUME NEW s \in active, NEW e \in Entries, tag'[s][e] # -1
               PROVE  /\ tag'[s][e] % TAIL = e
                      /\ tag'[s][e] < SeqLen(s) =>
                           ringK'[s][e] = text[s][tag'[s][e]] /\ ringV'[s][e] = text[s][tag'[s][e]]
  BY <1>1 DEF RingInv, Valid, SeqLen
<1>3. s \in Slots /\ s \in Rows
  BY <1>1 DEF Rows
<1>4. \A r \in 1 .. Len(batch) : buf[r] = batch[r]
  BY <1>1 DEF IInv, BufInv
<1>5. CASE RingWriters(s, e) # {}
  <2> DEFINE w == CHOOSE t \in RingWriters(s, e) : TRUE
  <2>1. w \in RingWriters(s, e)
    BY <1>5
  <2>2. tag'[s][e] = TagOf(w) /\ ringK'[s][e] = TextOf(w) /\ ringV'[s][e] = TextOf(w)
    BY <1>3, <1>5 DEF CacheUpdate
  <2> HIDE DEF w
  <2>3. w \in Tokens /\ buf[w[1]] = s /\ w[2] % TAIL = e
    BY <2>1 DEF RingWriters
  <2>4. batch[w[1]] = s
    BY <2>3, <1>4, TokenFacts
  <2>. QED BY <2>2, <2>3, <2>4 DEF TagOf, TextOf
<1>6. CASE RingWriters(s, e) = {}
  <2> DEFINE p == tag[s][e]
  <2>1. tag'[s][e] = p /\ ringK'[s][e] = ringK[s][e] /\ ringV'[s][e] = ringV[s][e]
    BY <1>3, <1>6 DEF CacheUpdate
  <2>2. /\ p \in Int /\ p >= 0 /\ p % TAIL = e
        /\ p < len[s] => ringK[s][e] = text[s][p] /\ ringV[s][e] = text[s][p]
    <3>1. p \in -1 .. MaxLen - 1 /\ MaxLen \in Nat
      BY <1>1, <1>3, KvAssumption
    <3>2. p # -1
      BY <1>2, <2>1
    <3>3. Valid(s) = len[s]
      BY <1>1 DEF Valid
    <3>. QED BY <3>1, <3>2, <3>3 DEF IInv, RingInv
  <2>3. len[s] \in Nat /\ query[s] \in Nat /\ SeqLen(s) \in Nat
    BY <1>1, <1>3, KvAssumption DEF SeqLen
  <2>4. ASSUME p < SeqLen(s), ~(p < len[s]) PROVE FALSE
    <3>1. query[s] > 0
      BY <2>2, <2>3, <2>4 DEF SeqLen
    <3>2. PICK r \in 1 .. Len(batch) : batch[r] = s
      BY <3>1, <1>3 DEF IInv, BatchInv
    <3>3. \A k \in Int : len[s] <= k /\ k < SeqLen(s) /\ k >= SeqLen(s) - TAIL => k % TAIL # e
      <4> SUFFICES ASSUME NEW k \in Int, len[s] <= k, k < SeqLen(s), k >= SeqLen(s) - TAIL, k % TAIL = e
                   PROVE  FALSE
        OBVIOUS
      <4>1. <<r, k>> \in Tokens
        BY <3>2, TokenOf
      <4>2. <<r, k>> \in RingWriters(s, e)
        BY <4>1, <3>2, <1>4 DEF RingWriters, InTail
      <4>. QED BY <4>2, <1>6
    <3>0. SeqLen(s) \in Int
      BY <2>3
    <3>4. PICK k \in SeqLen(s) - TAIL .. SeqLen(s) - 1 : k % TAIL = e
      BY <3>0, WindowCovers
    <3>5. k < len[s]
      <4>1. k \in Int /\ k < SeqLen(s) /\ k >= SeqLen(s) - TAIL
        BY <2>3, <1>1
      <4>2. ~(len[s] <= k)
        BY <4>1, <3>3, <3>4
      <4>. QED BY <4>1, <4>2, <2>3
    <3>6. p < SeqLen(s) - TAIL
      <4> HIDE DEF p
      <4>1. ~(p >= SeqLen(s) - TAIL)
        <5>1. len[s] <= p
          BY <2>2, <2>3, <2>4
        <5>. QED BY <5>1, <3>3, <2>2, <2>4
      <4>. QED BY <4>1, <2>2, <2>3, <1>1
    <3>7. k \in Int /\ k >= SeqLen(s) - TAIL /\ TAIL \in Int
      BY <2>3, <1>1
    <3> HIDE DEF p
    <3>. QED BY <3>5, <3>6, <3>7, <2>2, <2>3, <2>4
  <2>. QED BY <2>1, <2>2, <2>3, <2>4
<1>. QED BY <1>5, <1>6

LEMMA UpdateIInv == ASSUME IInv, CacheUpdate PROVE IInv'
<1>1. /\ phase = "update"
      /\ UNCHANGED <<active, len, query, batch, buf>>
  BY DEF CacheUpdate
<1>2. BatchInv' /\ BufInv'
  BY <1>1 DEF IInv, BatchInv, BufInv
<1>. QED BY <1>2, UpdateTypeOK, UpdateRingInv DEF IInv
-----------------------------------------------------------------------------
LEMMA StepIInv == IInv /\ [Next]_vars => IInv'
<1> SUFFICES ASSUME IInv, [Next]_vars PROVE IInv'
  OBVIOUS
<1>1. ASSUME NEW s \in Slots, AddRequest(s) \/ RemoveRequest(s) PROVE IInv'
  BY <1>1, AddIInv, RemoveIInv
<1>2. ASSUME NEW s \in Slots, NEW q \in 1 .. MaxQ, ScheduleRequest(s, q) PROVE IInv'
  BY <1>2, ScheduleIInv
<1>3. CASE PrepareInputs
  BY <1>3, PrepareIInv
<1>4. CASE CacheUpdate
  BY <1>4, UpdateIInv
<1>5. CASE Sample
  BY <1>5, SampleIInv
<1>6. CASE UNCHANGED vars
  BY <1>6 DEF vars, engine, exact, IInv, TypeOK, BatchInv, BufInv, RingInv, Valid
<1>. QED BY <1>1, <1>2, <1>3, <1>4, <1>5, <1>6 DEF Next

LEMMA Inductive == Spec => []IInv
BY InitIInv, StepIInv, PTL DEF Spec

(* Type correctness: a tag is -1 or a position, a length never passes the
   model length, whatever is admitted, scheduled, written and rolled back. *)
THEOREM TypeCorrect == Spec => []TypeOK
BY Inductive, PTL DEF IInv

LEMMA RingWritesFree == IInv => RingWritesDoNotRace
<1> SUFFICES ASSUME IInv, phase = "update", NEW t \in Tokens, NEW u \in Tokens,
                    InTail(t[1], t[2]), InTail(u[1], u[2]),
                    buf[t[1]] = buf[u[1]], t[2] % TAIL = u[2] % TAIL
             PROVE  t = u
  BY DEF RingWritesDoNotRace
<1>1. t[1] = u[1]
  BY TokenFacts DEF IInv, BufInv, BatchInv
<1>2. /\ t[2] \in Int /\ u[2] \in Int /\ SeqLen(batch[t[1]]) \in Int
      /\ t[2] < SeqLen(batch[t[1]]) /\ u[2] < SeqLen(batch[t[1]])
      /\ t[2] >= SeqLen(batch[t[1]]) - TAIL /\ u[2] >= SeqLen(batch[t[1]]) - TAIL
  <2>1. len \in [Slots -> 0 .. MaxLen] /\ query \in [Slots -> 0 .. MaxQ]
    BY DEF IInv, TypeOK
  <2>2. /\ batch[t[1]] \in Slots /\ t[2] \in Positions /\ u[2] \in Positions
        /\ t[2] < SeqLen(batch[t[1]]) /\ u[2] < SeqLen(batch[t[1]])
    BY <1>1, TokenFacts
  <2>3. SeqLen(batch[t[1]]) \in Int /\ t[2] \in Int /\ u[2] \in Int
    BY <2>1, <2>2, KvAssumption DEF SeqLen, Positions
  <2>4. t[2] >= SeqLen(batch[t[1]]) - TAIL /\ u[2] >= SeqLen(batch[t[1]]) - TAIL
    BY <1>1 DEF InTail
  <2>. QED BY <2>2, <2>3, <2>4
<1>3. t[2] = u[2]
  BY <1>2, WindowInjective, KvAssumption
<1>. QED BY <1>1, <1>3 DEF Tokens

(* Two tokens of one launch never store to the same ring entry, for every ring
   size, chunk length and batch: the window test of _quant_pack leaves at most
   TAIL consecutive positions of a request, and requests have rows of their own. *)
THEOREM RingWritesSafe == Spec => []RingWritesDoNotRace
BY RingWritesFree, Inductive, PTL

LEMMA TaggedRows == IInv => TailReadsOwnText
<1> SUFFICES ASSUME IInv, phase = "attend", NEW r \in 1 .. Len(batch),
                    NEW p \in 0 .. SeqLen(batch[r]) - 1, TagHit(r, p)
             PROVE  /\ ringK[buf[r]][p % TAIL] = text[batch[r]][p]
                    /\ ringV[buf[r]][p % TAIL] = text[batch[r]][p]
  BY DEF TailReadsOwnText
<1>1. buf[r] = batch[r] /\ batch[r] \in active
  BY DEF IInv, BufInv, BatchInv
<1>2. /\ p \in Int /\ p # -1 /\ p < Valid(batch[r]) /\ p % TAIL \in Entries
  <2>1. len \in [Slots -> 0 .. MaxLen] /\ query \in [Slots -> 0 .. MaxQ] /\ active \subseteq Slots
    BY DEF IInv, TypeOK
  <2>2. batch[r] \in Slots /\ SeqLen(batch[r]) \in Int /\ SeqLen(batch[r]) = len[batch[r]] + query[batch[r]]
    BY <1>1, <2>1, KvAssumption DEF SeqLen
  <2>3. p \in Int /\ p >= 0 /\ p < SeqLen(batch[r])
    BY <2>2
  <2>4. p % TAIL \in Entries
    BY <2>3, ModRange DEF Entries
  <2>. QED BY <2>2, <2>3, <2>4 DEF Valid
<1>3. tag[batch[r]][p % TAIL] = p
  BY <1>1 DEF TagHit
<1>. QED BY <1>1, <1>2, <1>3 DEF IInv, RingInv

(* A ring row whose tag matches is the request's own row of that position: the
   tags of a slot's previous request are cleared when it is reused, and the row
   of a rejected draft is rewritten before its position can be read. *)
THEOREM TailSafe == Spec => []TailReadsOwnText
BY TaggedRows, Inductive, PTL

(* The fp16 copy of a block's first slots and the packed rows are written by
   the same programs, so a block found in the prefix cache has both. *)
THEOREM SinksSafe == Spec => []SinksMirrorCache
<1>1. Init => SinksMirrorCache
  BY DEF Init, SinksMirrorCache
<1>2. SinksMirrorCache /\ [Next]_vars => SinksMirrorCache'
  <2> SUFFICES ASSUME SinksMirrorCache, [Next]_vars PROVE SinksMirrorCache'
    OBVIOUS
  <2>1. CASE CacheUpdate
    <3> SUFFICES ASSUME NEW b \in Blocks, NEW o \in Offsets, o < SINKS
                 PROVE  sink'[b][o] = cache'[b][o]
      BY DEF SinksMirrorCache
    <3>1. SinkWriters(b, o) = CacheWriters(b, o)
      BY DEF SinkWriters
    <3>2. sink[b][o] = cache[b][o]
      BY DEF SinksMirrorCache
    <3>. QED BY <2>1, <3>1, <3>2 DEF CacheUpdate
  <2>2. UNCHANGED <<cache, sink>> => SinksMirrorCache'
    BY DEF SinksMirrorCache
  <2>3. CASE ~CacheUpdate
    BY <2>2, <2>3 DEF Next, vars, exact, AddRequest, Admit, RemoveRequest, ScheduleRequest, PrepareInputs, Sample
  <2>. QED BY <2>1, <2>3
<1>. QED BY <1>1, <1>2, PTL DEF Spec
-----------------------------------------------------------------------------
(* What the ring keeps *)

(* No sequence of the request was longer than top, this step's included.    *)
TopInv ==
  \A s \in active : (IF phase = "schedule" THEN len[s] ELSE SeqLen(s)) <= top[s]

(* A position the request computed, and no longer sequence pushed out, is
   in its ring. *)
KeptInv ==
  \A s \in active, p \in Positions :
    hit[s] <= p /\ p < Valid(s) /\ p >= top[s] - TAIL => tag[s][p % TAIL] = p

TailInv == TopInv /\ KeptInv

LEMMA Typed ==
  ASSUME IInv
  PROVE  /\ active \subseteq Slots
         /\ \A s \in Slots : /\ len[s] \in Nat /\ query[s] \in Nat /\ top[s] \in Nat /\ hit[s] \in Nat
                             /\ SeqLen(s) \in Nat /\ SeqLen(s) = len[s] + query[s]
                             /\ Valid(s) \in Nat
BY KvAssumption DEF IInv, TypeOK, SeqLen, Valid

(* A step that writes no ring row, and drops or keeps what is valid.        *)
LEMMA QuietTail ==
  ASSUME IInv, TailInv, IInv', UNCHANGED <<tag, hit>>, active' \subseteq active,
         \A s \in active' : Valid(s)' <= Valid(s) /\ top[s] <= top'[s]
  PROVE  KeptInv'
<1> SUFFICES ASSUME NEW s \in active', NEW p \in Positions,
                    hit[s] <= p, p < Valid(s)', p >= top'[s] - TAIL
             PROVE  tag[s][p % TAIL] = p
  BY DEF KeptInv
<1>1. s \in active /\ s \in Slots /\ p \in Int /\ TAIL \in Int
  BY Typed, KvAssumption DEF Positions
<1>2. Valid(s) \in Int /\ Valid(s)' \in Int /\ top[s] \in Int /\ top'[s] \in Int
  <2>1. Valid(s) \in Nat /\ top[s] \in Nat BY <1>1, Typed
  <2>2. Valid(s)' \in Nat /\ top'[s] \in Nat
    <3>1. /\ len' \in [Slots -> 0 .. MaxLen] /\ query' \in [Slots -> 0 .. MaxQ]
          /\ top' \in [Slots -> 0 .. MaxLen]
      BY DEF IInv, TypeOK
    <3>. QED BY <3>1, <1>1, KvAssumption DEF Valid
  <2>. QED BY <2>1, <2>2
<1>3. p < Valid(s) /\ p >= top[s] - TAIL
  BY <1>1, <1>2
<1>. QED BY <1>1, <1>3 DEF TailInv, KeptInv

LEMMA AddTail == ASSUME IInv, TailInv, NEW s \in Slots, AddRequest(s) PROVE TailInv'
<1>1. PICK hits \in Nat : \E prefix, blocks : Admit(s, hits, prefix, blocks)
  <2>1. \A b \in Blocks : Len(hash[b]) \in Nat
    BY DEF IInv, TypeOK
  <2>. QED BY <2>1 DEF AddRequest
<1>2. /\ phase = "schedule" /\ phase' = "schedule" /\ active' = active \union {s} /\ s \notin active
      /\ len' = [len EXCEPT ![s] = hits] /\ hit' = [hit EXCEPT ![s] = hits]
      /\ top' = [top EXCEPT ![s] = hits] /\ tag' = [tag EXCEPT ![s] = EmptyRow]
      /\ len \in [Slots -> 0 .. MaxLen] /\ hit \in [Slots -> 0 .. MaxLen] /\ top \in [Slots -> 0 .. MaxLen]
      /\ tag \in [Rows -> [Entries -> -1 .. MaxLen - 1]] /\ active \subseteq Slots /\ Slots \subseteq Rows
  BY <1>1 DEF Admit, ClearedTags, IInv, TypeOK, Rows
<1>3. \A u \in active : len'[u] = len[u] /\ hit'[u] = hit[u] /\ top'[u] = top[u] /\ tag'[u] = tag[u]
  BY <1>2
<1>4. len'[s] = hits /\ hit'[s] = hits /\ top'[s] = hits
  BY <1>2
<1>5. TopInv'
  BY <1>2, <1>3, <1>4 DEF TailInv, TopInv
<1>6. KeptInv'
  <2>1. \A u \in active : Valid(u)' = Valid(u)
    BY <1>2, <1>3 DEF Valid
  <2>2. Valid(s)' = hits
    BY <1>2, <1>4 DEF Valid
  <2>3. \A p \in Positions : ~(hits <= p /\ p < hits)
    BY <1>1 DEF Positions
  <2>. QED BY <1>2, <1>3, <1>4, <2>1, <2>2, <2>3 DEF TailInv, KeptInv
<1>. QED BY <1>5, <1>6 DEF TailInv

LEMMA UpdateTail == ASSUME IInv, TailInv, CacheUpdate PROVE TailInv'
<1>1. /\ phase = "update" /\ phase' = "attend"
      /\ UNCHANGED <<active, len, query, text, batch, buf, hit, top>>
      /\ active \subseteq Slots /\ TAIL \in Nat
  BY KvAssumption DEF CacheUpdate, IInv, TypeOK
<1>2. TopInv'
  BY <1>1 DEF TailInv, TopInv, SeqLen
<1>3. SUFFICES ASSUME NEW s \in active, NEW p \in Positions,
                      hit[s] <= p, p < SeqLen(s), p >= top[s] - TAIL
               PROVE  tag'[s][p % TAIL] = p
  BY <1>1, <1>2 DEF TailInv, KeptInv, Valid, SeqLen
<1>4. /\ s \in Slots /\ s \in Rows /\ p \in Int /\ p % TAIL \in Entries
      /\ SeqLen(s) \in Int /\ len[s] \in Int /\ top[s] \in Int /\ SeqLen(s) <= top[s]
  BY <1>1, Typed, ModRange DEF Rows, Positions, Entries, TailInv, TopInv
<1>5. \A r \in 1 .. Len(batch) : buf[r] = batch[r]
  BY <1>1 DEF IInv, BufInv
<1>6. \A t \in RingWriters(s, p % TAIL) : t[2] = p /\ len[s] <= t[2]
  <2> SUFFICES ASSUME NEW t \in RingWriters(s, p % TAIL) PROVE t[2] = p /\ len[s] <= t[2]
    OBVIOUS
  <2>1. t \in Tokens /\ buf[t[1]] = s /\ InTail(t[1], t[2]) /\ t[2] % TAIL = p % TAIL
    BY DEF RingWriters
  <2>2. /\ batch[t[1]] = s /\ t[2] \in Int /\ len[s] <= t[2] /\ t[2] < SeqLen(s)
    BY <2>1, <1>5, TokenFacts DEF Positions
  <2>3. t[2] >= SeqLen(s) - TAIL
    BY <2>1, <2>2 DEF InTail
  <2>4. p - t[2] < TAIL /\ t[2] - p < TAIL
    BY <1>1, <1>3, <1>4, <2>2, <2>3
  <2>5. t[2] = p
    BY <2>1, <2>2, <2>4, <1>4, WindowInjective
  <2>. QED BY <2>2, <2>5
<1>7. CASE p < len[s]
  <2>1. RingWriters(s, p % TAIL) = {}
    BY <1>4, <1>6, <1>7
  <2>2. tag'[s][p % TAIL] = tag[s][p % TAIL]
    BY <2>1, <1>4 DEF CacheUpdate
  <2>3. Valid(s) = len[s]
    BY <1>1 DEF Valid
  <2>. QED BY <2>2, <2>3, <1>3, <1>7 DEF TailInv, KeptInv
<1>8. CASE ~(p < len[s])
  <2>1. query[s] > 0
    BY <1>3, <1>4, <1>8, Typed
  <2>2. PICK r \in 1 .. Len(batch) : batch[r] = s
    BY <2>1, <1>4 DEF IInv, BatchInv
  <2>3. <<r, p>> \in Tokens
    BY <2>2, <1>3, <1>4, <1>8, TokenOf
  <2>4. InTail(r, p)
    BY <2>2, <1>1, <1>3, <1>4 DEF InTail
  <2>5. <<r, p>> \in RingWriters(s, p % TAIL)
    BY <2>2, <2>3, <2>4, <1>5 DEF RingWriters
  <2> DEFINE w == CHOOSE t \in RingWriters(s, p % TAIL) : TRUE
  <2>6. w \in RingWriters(s, p % TAIL)
    BY <2>5
  <2>7. tag'[s][p % TAIL] = TagOf(w)
    BY <2>5, <1>4 DEF CacheUpdate
  <2> HIDE DEF w
  <2>. QED BY <2>6, <2>7, <1>6 DEF TagOf
<1>. QED BY <1>7, <1>8

LEMMA StepTail == ASSUME IInv, TailInv, [Next]_vars PROVE TailInv'
<1>1. IInv'
  BY StepIInv
<1>2. \A s \in active : /\ s \in Slots /\ len[s] \in Nat /\ query[s] \in Nat /\ top[s] \in Nat
                        /\ SeqLen(s) = len[s] + query[s] /\ Valid(s) \in Nat
  BY Typed
<1>3. \A s \in active : (IF phase = "schedule" THEN len[s] ELSE SeqLen(s)) <= top[s]
  BY DEF TailInv, TopInv
<1>4. ASSUME NEW s \in Slots, RemoveRequest(s) PROVE TailInv'
  <2>1. /\ phase = "schedule" /\ phase' = "schedule" /\ active' = active \ {s} /\ UNCHANGED tag
        /\ \A u \in active' : len'[u] = len[u] /\ hit'[u] = hit[u] /\ top'[u] = top[u]
    BY <1>2, <1>4 DEF RemoveRequest, exact, IInv, TypeOK
  <2>2. TopInv'
    BY <1>3, <2>1 DEF TopInv
  <2>3. KeptInv'
    <3>1. \A u \in active' : Valid(u)' = Valid(u)
      BY <2>1 DEF Valid
    <3>. QED BY <2>1, <3>1 DEF TailInv, KeptInv
  <2>. QED BY <2>2, <2>3 DEF TailInv
<1>5. ASSUME NEW s \in Slots, NEW q \in 1 .. MaxQ, ScheduleRequest(s, q) PROVE TailInv'
  <2>1. phase = "schedule" /\ UNCHANGED <<phase, active, len, hit, top, tag>>
    BY <1>5 DEF ScheduleRequest, exact
  <2>. QED BY <2>1 DEF TailInv, TopInv, KeptInv, Valid
<1>6. CASE PrepareInputs
  <2>1. /\ phase = "schedule" /\ phase' = "update" /\ UNCHANGED <<active, len, query, hit, tag>>
        /\ top' = [s \in Slots |-> IF query[s] > 0 /\ SeqLen(s) > top[s] THEN SeqLen(s) ELSE top[s]]
    BY <1>6 DEF PrepareInputs, exact
  <2>2. \A s \in active : SeqLen(s) <= top'[s] /\ top[s] <= top'[s]
    BY <1>2, <1>3, <2>1
  <2>3. \A s : Valid(s)' = Valid(s) /\ SeqLen(s)' = SeqLen(s)
    BY <2>1 DEF Valid, SeqLen
  <2>4. TopInv'
    BY <2>1, <2>2, <2>3 DEF TopInv
  <2>5. KeptInv'
    BY <1>1, <1>2, <2>1, <2>2, <2>3, QuietTail
  <2>. QED BY <2>4, <2>5 DEF TailInv
<1>7. CASE Sample
  <2>1. PICK kept \in [Slots -> 0 .. MaxQ] :
          /\ \A s \in Slots : kept[s] <= query[s]
          /\ len' = [s \in Slots |-> len[s] + kept[s]]
    BY <1>7 DEF Sample
  <2>2. phase = "attend" /\ phase' = "schedule" /\ UNCHANGED <<active, hit, top, tag>>
    BY <1>7 DEF Sample, exact
  <2>3. \A s \in active : len'[s] <= SeqLen(s)
    BY <1>2, <2>1
  <2>4. \A s \in active : len'[s] \in Nat
    BY <1>2, <2>1, KvAssumption
  <2>5. TopInv'
    BY <1>2, <1>3, <2>2, <2>3, <2>4 DEF TopInv
  <2>6. \A s \in active' : Valid(s)' <= Valid(s) /\ top[s] <= top'[s]
    BY <1>2, <2>2, <2>3 DEF Valid
  <2>7. KeptInv'
    BY <1>1, <2>2, <2>6, QuietTail
  <2>. QED BY <2>5, <2>7 DEF TailInv
<1>8. CASE UNCHANGED vars
  <2>1. UNCHANGED <<phase, active, len, query, hit, top, tag>>
    BY <1>8 DEF vars, engine, exact
  <2>. QED BY <2>1 DEF TailInv, TopInv, KeptInv, Valid, SeqLen
<1>. QED BY <1>4, <1>5, <1>6, <1>7, <1>8, AddTail, UpdateTail DEF Next

LEMMA TailHit == IInv /\ TailInv => OwnTailExact
<1> SUFFICES ASSUME IInv, TailInv, phase = "attend", NEW r \in 1 .. Len(batch), NEW p \in Positions,
                    p >= hit[batch[r]], p >= top[batch[r]] - TAIL, p < SeqLen(batch[r])
             PROVE  TagHit(r, p)
  BY DEF OwnTailExact
<1> DEFINE s == batch[r]
<1>1. buf[r] = s /\ s \in active
  BY DEF IInv, BufInv, BatchInv
<1>2. /\ SeqLen(s) \in Int /\ SeqLen(s) = len[s] + query[s] /\ top[s] \in Int /\ hit[s] \in Int
      /\ p \in Int /\ TAIL \in Int
  BY <1>1, Typed, KvAssumption DEF Positions
<1>3. Valid(s) = SeqLen(s) /\ SeqLen(s) <= top[s]
  BY <1>1, <1>2 DEF Valid, TailInv, TopInv
<1> HIDE DEF s
<1>4. tag[s][p % TAIL] = p
  BY <1>1, <1>2, <1>3 DEF TailInv, KeptInv, s
<1>5. InTail(r, p)
  BY <1>2, <1>3 DEF InTail, s
<1>. QED BY <1>1, <1>4, <1>5 DEF TagHit

(* What a request computed itself is read exact for TAIL positions behind the
   longest sequence it reached: no chunk, rollback or neighbour in the batch
   evicts an entry early (_quant_pack's window, request_added's reset). *)
THEOREM TailIsKept == Spec => []OwnTailExact
<1>1. Init => TailInv
  BY DEF Init, TailInv, TopInv, KeptInv
<1>2. IInv /\ TailInv /\ [Next]_vars => TailInv'
  BY StepTail
<1>3. Spec => []TailInv
  BY <1>1, <1>2, Inductive, PTL DEF Spec
<1>. QED BY <1>3, TailHit, Inductive, PTL
-----------------------------------------------------------------------------
(* The paged cache: the invariant *)

(* Positions whose text no later step of the request can change: computed ones
   and, while scheduled, the tokens that are not drafts. *)
Fixed(s) ==
  IF query[s] = 0 THEN len[s]
  ELSE IF mode[s] = "prefill" THEN len[s] + query[s] ELSE len[s] + 1

Full(s, i) == (i + 1) * BLOCK_SIZE <= Fixed(s)

InBlock(p, i) == p \div BLOCK_SIZE = i

(* Position p, in block b, is about to be written with content v. *)
Pending(b, p, v) ==
  \E u \in active : /\ BlockOf(u, p) = b /\ text[u][p] = v
                    /\ len[u] <= p /\ p < len[u] + query[u]

(* The row of position p in block b is v, or will be once the step's cache
   write is done. *)
Holds(b, p, v) ==
  \/ cache[b][p % BLOCK_SIZE] = v
  \/ phase # "attend" /\ Pending(b, p, v)

(* Every position in use has a block. *)
TableInv ==
  \A s \in active, i \in TableIdx : i * BLOCK_SIZE < len[s] + query[s] => table[s][i] \in Blocks

(* A block has one table index; requests that share it agree on its rows, and
   all but one of them have computed it. *)
SharingInv ==
  \A s, u \in active : \A i, j \in TableIdx :
    table[s][i] \in Blocks /\ table[s][i] = table[u][j] =>
      /\ i = j
      /\ s # u => /\ Full(s, i) /\ Full(u, i)
                  /\ (i + 1) * BLOCK_SIZE <= len[s] \/ (i + 1) * BLOCK_SIZE <= len[u]
                  /\ \A p \in Positions : InBlock(p, i) => text[s][p] = text[u][p]

(* A request's computed rows are in its blocks. *)
DataInv ==
  \A s \in active, p \in Positions :
    p < Valid(s) => Holds(BlockOf(s, p), p, text[s][p])

(* A cached block holds the last block of its prefix, and so do its owners. *)
HashInv ==
  \A b \in Blocks : hash[b] # <<>> =>
    \E i \in TableIdx :
      /\ Len(hash[b]) = (i + 1) * BLOCK_SIZE
      /\ Len(hash[b]) <= MaxLen
      /\ \A p \in Positions : InBlock(p, i) => Holds(b, p, hash[b][p + 1])
      /\ \A u \in active, j \in TableIdx : table[u][j] = b =>
           /\ j = i /\ Full(u, i)
           /\ \A p \in Positions : InBlock(p, i) => text[u][p] = hash[b][p + 1]

PagedInv == TableInv /\ SharingInv /\ DataInv /\ HashInv

PInv == IInv /\ PagedInv
-----------------------------------------------------------------------------
(* Arithmetic of blocks *)

LEMMA BlockPos ==
  ASSUME NEW p \in Positions
  PROVE  /\ p \in Int /\ p \div BLOCK_SIZE \in TableIdx /\ p % BLOCK_SIZE \in Offsets
         /\ (p \div BLOCK_SIZE) * BLOCK_SIZE <= p
         /\ p < ((p \div BLOCK_SIZE) + 1) * BLOCK_SIZE
         /\ p = (p \div BLOCK_SIZE) * BLOCK_SIZE + (p % BLOCK_SIZE)
<1> DEFINE i == p \div BLOCK_SIZE
           m == (MaxLen - 1) \div BLOCK_SIZE
<1>1. /\ p \in Int /\ p >= 0 /\ p <= MaxLen - 1 /\ BLOCK_SIZE \in Nat /\ BLOCK_SIZE > 0 /\ MaxLen \in Nat
  BY KvAssumption DEF Positions
<1>2. /\ i \in Int /\ p % BLOCK_SIZE \in 0 .. BLOCK_SIZE - 1
      /\ p = BLOCK_SIZE * i + (p % BLOCK_SIZE)
  BY <1>1
<1>3. /\ m \in Int /\ (MaxLen - 1) % BLOCK_SIZE \in 0 .. BLOCK_SIZE - 1
      /\ MaxLen - 1 = BLOCK_SIZE * m + ((MaxLen - 1) % BLOCK_SIZE)
  BY <1>1
<1>4. /\ BLOCK_SIZE * i = i * BLOCK_SIZE /\ (i + 1) * BLOCK_SIZE = i * BLOCK_SIZE + BLOCK_SIZE
      /\ i * BLOCK_SIZE \in Int /\ BLOCK_SIZE * m \in Int
  BY <1>1, <1>2, <1>3
<1>5. i >= 0
  <2>1. i < 0 => BLOCK_SIZE * i <= -BLOCK_SIZE
    BY <1>1, <1>2
  <2>. QED BY <2>1, <1>1, <1>2, <1>4
<1>6. i <= m
  <2>1. i > m => BLOCK_SIZE * i >= BLOCK_SIZE * m + BLOCK_SIZE
    BY <1>1, <1>2, <1>3
  <2>. QED BY <2>1, <1>1, <1>2, <1>3, <1>4
<1>7. p % BLOCK_SIZE \in Offsets /\ i \in TableIdx
  BY <1>2, <1>3, <1>5, <1>6 DEF Offsets, TableIdx
<1>. QED BY <1>1, <1>2, <1>4, <1>7

LEMMA SamePos ==
  ASSUME NEW p \in Positions, NEW q \in Positions,
         p \div BLOCK_SIZE = q \div BLOCK_SIZE, p % BLOCK_SIZE = q % BLOCK_SIZE
  PROVE  p = q
BY BlockPos

(* A position of a block that lies below n does. *)
LEMMA InBlockBelow ==
  ASSUME NEW p \in Positions, NEW i \in TableIdx, InBlock(p, i),
         NEW n \in Int, (i + 1) * BLOCK_SIZE <= n
  PROVE  p < n
<1>1. (i + 1) * BLOCK_SIZE \in Int
  BY KvAssumption DEF TableIdx
<1>. QED BY BlockPos, <1>1 DEF InBlock

LEMMA SameEnd ==
  ASSUME NEW i \in TableIdx, NEW j \in TableIdx, (i + 1) * BLOCK_SIZE = (j + 1) * BLOCK_SIZE
  PROVE  i = j
<1>1. i \in Nat /\ j \in Nat /\ BLOCK_SIZE \in Nat /\ BLOCK_SIZE > 0
  BY KvAssumption DEF TableIdx
<1>2. i < j => (j + 1) * BLOCK_SIZE >= (i + 1) * BLOCK_SIZE + BLOCK_SIZE
  BY <1>1
<1>3. j < i => (i + 1) * BLOCK_SIZE >= (j + 1) * BLOCK_SIZE + BLOCK_SIZE
  BY <1>1
<1>4. (i + 1) * BLOCK_SIZE \in Int /\ (j + 1) * BLOCK_SIZE \in Int
  BY <1>1
<1>. QED BY <1>1, <1>2, <1>3, <1>4
-----------------------------------------------------------------------------
(* What the type invariant gives the steps below. *)
LEMMA Types ==
  ASSUME IInv
  PROVE  /\ phase \in {"schedule", "update", "attend"} /\ active \subseteq Slots
         /\ len \in [Slots -> 0 .. MaxLen] /\ query \in [Slots -> 0 .. MaxQ]
         /\ text \in [Slots -> [Positions -> Content]]
         /\ table \in [Slots -> [TableIdx -> Blocks \union {NoBlock}]]
         /\ batch \in Seq(Slots) /\ hash \in [Blocks -> Seq(Content)]
         /\ cache \in [Blocks -> [Offsets -> Content]]
         /\ mode \in [Slots -> {"prefill", "decode"}]
BY DEF IInv, TypeOK

LEMMA Lengths ==
  ASSUME IInv, NEW s \in Slots
  PROVE  /\ len[s] \in Nat /\ query[s] \in Nat /\ Fixed(s) \in Nat /\ Valid(s) \in Nat
         /\ len[s] <= Fixed(s) /\ Fixed(s) <= len[s] + query[s] /\ len[s] + query[s] <= MaxLen
         /\ len[s] <= Valid(s) /\ Valid(s) <= len[s] + query[s]
<1>1. len[s] \in Nat /\ query[s] \in Nat /\ len[s] + query[s] <= MaxLen
  BY Types, KvAssumption DEF IInv, BatchInv
<1>. QED BY <1>1 DEF Fixed, Valid

LEMMA InitPaged == Init => PagedInv
BY DEF Init, PagedInv, TableInv, SharingInv, DataInv, HashInv

LEMMA RemovePaged == ASSUME PInv, NEW s \in Slots, RemoveRequest(s) PROVE PagedInv'
<1> USE DEF PInv, PagedInv
<1>1. /\ query[s] = 0 /\ active' = active \ {s} /\ phase = "schedule"
      /\ UNCHANGED <<phase, query, hash, cache>>
      /\ \A t \in active' : /\ t \in active /\ t \in Slots /\ t # s
                            /\ len'[t] = len[t] /\ text'[t] = text[t] /\ table'[t] = table[t] /\ mode'[t] = mode[t]
  BY Types DEF RemoveRequest, exact
<1>2. \A t \in active' : /\ Fixed(t)' = Fixed(t) /\ Valid(t)' = Valid(t)
                         /\ \A p : BlockOf(t, p)' = BlockOf(t, p)
  BY <1>1 DEF Fixed, Valid, BlockOf
<1>3. \A t \in active' : \A i : Full(t, i)' = Full(t, i)
  BY <1>2 DEF Full
<1>4. ASSUME NEW b, NEW p \in Int, NEW v, Holds(b, p, v) PROVE Holds(b, p, v)'
  <2>1. ASSUME Pending(b, p, v) PROVE Pending(b, p, v)'
    <3>1. PICK u \in active : BlockOf(u, p) = b /\ text[u][p] = v /\ len[u] <= p /\ p < len[u] + query[u]
      BY <2>1 DEF Pending
    <3>2. u # s
      <4>1. len[s] \in Nat
        BY Lengths
      <4>. QED BY <3>1, <1>1, <4>1
    <3>. QED BY <3>1, <3>2, <1>1, <1>2 DEF Pending
  <2>. QED BY <1>1, <1>4, <2>1 DEF Holds
<1>5. TableInv'
  BY <1>1 DEF TableInv
<1>6. SharingInv'
  BY <1>1, <1>3 DEF SharingInv, InBlock
<1>7. DataInv'
  <2> SUFFICES ASSUME NEW t \in active', NEW p \in Positions, p < Valid(t)'
               PROVE  Holds(BlockOf(t, p), p, text[t][p])'
    BY DEF DataInv
  <2>1. Holds(BlockOf(t, p), p, text[t][p])
    BY <1>1, <1>2 DEF DataInv
  <2>2. p \in Int
    BY BlockPos
  <2>. QED BY <2>1, <2>2, <1>1, <1>2, <1>4
<1>8. HashInv'
  <2> SUFFICES ASSUME NEW b \in Blocks, hash[b] # <<>>
               PROVE  \E i \in TableIdx :
                        /\ Len(hash[b]) = (i + 1) * BLOCK_SIZE
                        /\ Len(hash[b]) <= MaxLen
                        /\ \A p \in Positions : InBlock(p, i) => Holds(b, p, hash[b][p + 1])'
                        /\ \A u \in active', j \in TableIdx : table'[u][j] = b =>
                             /\ j = i /\ Full(u, i)'
                             /\ \A p \in Positions : InBlock(p, i) => text'[u][p] = hash[b][p + 1]
    BY <1>1 DEF HashInv, InBlock
  <2>1. PICK i \in TableIdx :
          /\ Len(hash[b]) = (i + 1) * BLOCK_SIZE
          /\ Len(hash[b]) <= MaxLen
          /\ \A p \in Positions : InBlock(p, i) => Holds(b, p, hash[b][p + 1])
          /\ \A u \in active, j \in TableIdx : table[u][j] = b =>
               /\ j = i /\ Full(u, i)
               /\ \A p \in Positions : InBlock(p, i) => text[u][p] = hash[b][p + 1]
    BY DEF HashInv
  <2>2. \A p \in Positions : InBlock(p, i) => Holds(b, p, hash[b][p + 1])'
    BY <2>1, <1>4, BlockPos, <1>1
  <2>3. \A u \in active', j \in TableIdx : table'[u][j] = b =>
          /\ j = i /\ Full(u, i)'
          /\ \A p \in Positions : InBlock(p, i) => text'[u][p] = hash[b][p + 1]
    BY <2>1, <1>1, <1>3
  <2>. QED BY <2>1, <2>2, <2>3
<1>. QED BY <1>5, <1>6, <1>7, <1>8

(* What AddRequest takes from the prefix cache: the table indices that have a
   hit position, and only those; distinct blocks; each cached under its part of
   the prefix. *)
CoversHits(hits, blocks) ==
  \A i \in TableIdx : /\ i \in DOMAIN blocks <=> (i + 1) * BLOCK_SIZE <= hits
                      /\ i * BLOCK_SIZE < hits => i \in DOMAIN blocks

DistinctBlocks(blocks) ==
  \A i, j \in TableIdx :
    i \in DOMAIN blocks /\ j \in DOMAIN blocks /\ blocks[i] = blocks[j] => i = j

HashedParts(prefix, blocks) ==
  \A i \in TableIdx : i \in DOMAIN blocks =>
    /\ blocks[i] \in Blocks /\ Len(hash[blocks[i]]) = (i + 1) * BLOCK_SIZE
    /\ \A p \in Positions : p < (i + 1) * BLOCK_SIZE => hash[blocks[i]][p + 1] = prefix[p + 1]

CachedPrefix(hits, prefix, blocks) ==
  CoversHits(hits, blocks) /\ DistinctBlocks(blocks) /\ HashedParts(prefix, blocks)

(* A new request: either nothing is cached for it, or its first blocks are a
   chain of the prefix cache, whose owners agree with the cached prefix. *)
LEMMA AdmitPaged ==
  ASSUME PInv, NEW s \in Slots, NEW hits \in Nat, NEW prefix, NEW blocks,
         Admit(s, hits, prefix, blocks), CachedPrefix(hits, prefix, blocks)
  PROVE  PagedInv'
<1> USE DEF PInv, PagedInv, CachedPrefix, CoversHits, DistinctBlocks, HashedParts
<1>1. /\ s \notin active /\ active' = active \union {s} /\ phase = "schedule" /\ hits < MaxLen
      /\ UNCHANGED <<phase, query, hash, cache>>
      /\ len'[s] = hits
      /\ \A p \in Positions : text'[s][p] = IF p < hits THEN prefix[p + 1] ELSE Blank
      /\ \A i \in TableIdx : table'[s][i] = IF i \in DOMAIN blocks THEN blocks[i] ELSE NoBlock
      /\ \A t \in active : /\ t \in Slots /\ t # s
                           /\ len'[t] = len[t] /\ text'[t] = text[t] /\ table'[t] = table[t] /\ mode'[t] = mode[t]
  BY Types DEF Admit
<1>2. query[s] = 0
  <2>1. query[s] \in Nat
    BY Lengths
  <2>2. query[s] > 0 => s \in active
    BY DEF IInv, BatchInv
  <2>. QED BY <1>1, <2>1, <2>2
<1>3. \A t \in active : /\ Fixed(t)' = Fixed(t) /\ Valid(t)' = Valid(t)
                        /\ \A p : BlockOf(t, p)' = BlockOf(t, p)
                        /\ \A i : Full(t, i)' = Full(t, i)
  BY <1>1 DEF Fixed, Valid, BlockOf, Full
<1>4. Fixed(s)' = hits /\ Valid(s)' = hits
  BY <1>1, <1>2 DEF Fixed, Valid
<1>5. ASSUME NEW b, NEW p, NEW v, Holds(b, p, v) PROVE Holds(b, p, v)'
  <2>1. ASSUME Pending(b, p, v) PROVE Pending(b, p, v)'
    BY <2>1, <1>1, <1>3 DEF Pending
  <2>. QED BY <1>1, <1>5, <2>1 DEF Holds
<1>6. \A i \in TableIdx : table'[s][i] \in Blocks =>
        i \in DOMAIN blocks /\ table'[s][i] = blocks[i] /\ (i + 1) * BLOCK_SIZE <= hits
  BY <1>1, KvAssumption
(* What the cached chain says of block i of the new request. *)
<1>7. ASSUME NEW i \in TableIdx, i \in DOMAIN blocks
      PROVE  /\ \A p \in Positions : InBlock(p, i) => /\ Holds(blocks[i], p, text'[s][p])
                                                      /\ text'[s][p] = hash[blocks[i]][p + 1]
             /\ \A u \in active, j \in TableIdx : table[u][j] = blocks[i] =>
                  /\ j = i /\ Full(u, i)
                  /\ \A p \in Positions : InBlock(p, i) => text[u][p] = text'[s][p]
  <2>1. /\ blocks[i] \in Blocks /\ Len(hash[blocks[i]]) = (i + 1) * BLOCK_SIZE
        /\ (i + 1) * BLOCK_SIZE <= hits /\ (i + 1) * BLOCK_SIZE \in Nat /\ (i + 1) * BLOCK_SIZE > 0
    BY <1>7, KvAssumption DEF TableIdx
  <2>2. hash[blocks[i]] # <<>>
    BY <2>1
  <2>3. PICK k \in TableIdx :
          /\ Len(hash[blocks[i]]) = (k + 1) * BLOCK_SIZE
          /\ \A p \in Positions : InBlock(p, k) => Holds(blocks[i], p, hash[blocks[i]][p + 1])
          /\ \A u \in active, j \in TableIdx : table[u][j] = blocks[i] =>
               /\ j = k /\ Full(u, k)
               /\ \A p \in Positions : InBlock(p, k) => text[u][p] = hash[blocks[i]][p + 1]
    BY <2>1, <2>2 DEF HashInv
  <2>4. k = i
    BY <2>1, <2>3, SameEnd
  <2>5. \A p \in Positions : InBlock(p, i) => text'[s][p] = hash[blocks[i]][p + 1]
    <3> SUFFICES ASSUME NEW p \in Positions, InBlock(p, i)
                 PROVE  text'[s][p] = hash[blocks[i]][p + 1]
      OBVIOUS
    <3>1. p < (i + 1) * BLOCK_SIZE /\ p < hits
      BY <2>1, InBlockBelow
    <3>. QED BY <3>1, <1>1, <1>7
  <2>. QED BY <2>3, <2>4, <2>5
<1>8. TableInv'
  <2> SUFFICES ASSUME NEW t \in active', NEW i \in TableIdx, i * BLOCK_SIZE < len'[t] + query[t]
               PROVE  table'[t][i] \in Blocks
    BY <1>1 DEF TableInv
  <2>1. CASE t = s
    <3>1. i * BLOCK_SIZE < hits
      BY <2>1, <1>1, <1>2
    <3>. QED BY <2>1, <3>1, <1>1
  <2>2. CASE t # s
    BY <2>2, <1>1 DEF TableInv
  <2>. QED BY <2>1, <2>2
<1>9. SharingInv'
  <2>1. ASSUME NEW t \in active, NEW u \in active, NEW i \in TableIdx, NEW j \in TableIdx,
               table'[t][i] \in Blocks, table'[t][i] = table'[u][j]
        PROVE  /\ i = j
               /\ t # u => /\ Full(t, i)' /\ Full(u, i)'
                           /\ (i + 1) * BLOCK_SIZE <= len'[t] \/ (i + 1) * BLOCK_SIZE <= len'[u]
                           /\ \A p \in Positions : InBlock(p, i) => text'[t][p] = text'[u][p]
    BY <2>1, <1>1, <1>3 DEF SharingInv
  <2>2. ASSUME NEW i \in TableIdx, NEW j \in TableIdx,
               table'[s][i] \in Blocks, table'[s][i] = table'[s][j]
        PROVE  i = j
    BY <2>2, <1>6
  <2>3. ASSUME NEW u \in active, NEW i \in TableIdx, NEW j \in TableIdx,
               table'[s][i] \in Blocks, table'[s][i] = table'[u][j]
        PROVE  /\ i = j /\ Full(s, i)' /\ Full(u, i)' /\ (i + 1) * BLOCK_SIZE <= len'[s]
               /\ \A p \in Positions : InBlock(p, i) => text'[s][p] = text'[u][p]
    <3>1. i \in DOMAIN blocks /\ table'[s][i] = blocks[i] /\ (i + 1) * BLOCK_SIZE <= hits
      BY <2>3, <1>6
    <3>2. table[u][j] = blocks[i]
      BY <2>3, <3>1, <1>1
    <3>3. Full(s, i)' /\ (i + 1) * BLOCK_SIZE <= len'[s]
      BY <3>1, <1>1, <1>4 DEF Full
    <3>. QED BY <3>1, <3>2, <3>3, <1>1, <1>3, <1>7
  <2>4. \A t \in active' : t \in active \/ t = s
    BY <1>1
  <2> SUFFICES ASSUME NEW t \in active', NEW u \in active', NEW i \in TableIdx, NEW j \in TableIdx,
                      table'[t][i] \in Blocks, table'[t][i] = table'[u][j]
               PROVE  /\ i = j
                      /\ t # u => /\ Full(t, i)' /\ Full(u, i)'
                                  /\ (i + 1) * BLOCK_SIZE <= len'[t] \/ (i + 1) * BLOCK_SIZE <= len'[u]
                                  /\ \A p \in Positions : InBlock(p, i) => text'[t][p] = text'[u][p]
    BY DEF SharingInv, InBlock
  <2>5. CASE t \in active /\ u \in active
    BY <2>1, <2>5
  <2>6. CASE t = s /\ u = s
    BY <2>2, <2>6
  <2>7. CASE t = s /\ u \in active
    BY <2>3, <2>7
  <2>8. CASE t \in active /\ u = s
    <3>1. table'[s][j] \in Blocks /\ table'[s][j] = table'[t][i]
      BY <2>8
    <3>. QED BY <2>3, <2>8, <3>1
  <2>. QED BY <2>4, <2>5, <2>6, <2>7, <2>8
<1>10. DataInv'
  <2> SUFFICES ASSUME NEW t \in active', NEW p \in Positions, p < Valid(t)'
               PROVE  Holds(BlockOf(t, p), p, text[t][p])'
    BY DEF DataInv
  <2>1. CASE t = s
    <3> DEFINE i == p \div BLOCK_SIZE
    <3>1. p \in Int /\ i \in TableIdx /\ i * BLOCK_SIZE <= p /\ p < hits /\ i * BLOCK_SIZE \in Int
      BY BlockPos, <2>1, <1>4, KvAssumption DEF TableIdx
    <3>2. i \in DOMAIN blocks /\ InBlock(p, i)
      BY <3>1 DEF InBlock
    <3>3. Holds(blocks[i], p, text'[s][p]) /\ table'[s][i] = blocks[i]
      BY <3>1, <3>2, <1>1, <1>7
    <3>4. BlockOf(s, p)' = blocks[i]
      BY <3>3 DEF BlockOf
    <3>. QED BY <2>1, <3>3, <3>4, <1>5
  <2>2. CASE t \in active
    <3>1. Holds(BlockOf(t, p), p, text[t][p])
      BY <2>2, <1>3 DEF DataInv
    <3>. QED BY <2>2, <3>1, <1>1, <1>3, <1>5
  <2>. QED BY <2>1, <2>2, <1>1
<1>11. HashInv'
  <2> SUFFICES ASSUME NEW b \in Blocks, hash[b] # <<>>
               PROVE  \E i \in TableIdx :
                        /\ Len(hash[b]) = (i + 1) * BLOCK_SIZE
                        /\ Len(hash[b]) <= MaxLen
                        /\ \A p \in Positions : InBlock(p, i) => Holds(b, p, hash[b][p + 1])'
                        /\ \A u \in active', j \in TableIdx : table'[u][j] = b =>
                             /\ j = i /\ Full(u, i)'
                             /\ \A p \in Positions : InBlock(p, i) => text'[u][p] = hash[b][p + 1]
    BY <1>1 DEF HashInv, InBlock
  <2>1. PICK i \in TableIdx :
          /\ Len(hash[b]) = (i + 1) * BLOCK_SIZE
          /\ Len(hash[b]) <= MaxLen
          /\ \A p \in Positions : InBlock(p, i) => Holds(b, p, hash[b][p + 1])
          /\ \A u \in active, j \in TableIdx : table[u][j] = b =>
               /\ j = i /\ Full(u, i)
               /\ \A p \in Positions : InBlock(p, i) => text[u][p] = hash[b][p + 1]
    BY DEF HashInv
  <2>2. \A p \in Positions : InBlock(p, i) => Holds(b, p, hash[b][p + 1])'
    BY <2>1, <1>1, <1>5
  <2>3. ASSUME NEW j \in TableIdx, table'[s][j] = b
        PROVE  /\ j = i /\ Full(s, i)'
               /\ \A p \in Positions : InBlock(p, i) => text'[s][p] = hash[b][p + 1]
    <3>1. j \in DOMAIN blocks /\ b = blocks[j] /\ (j + 1) * BLOCK_SIZE <= hits
      BY <2>3, <1>6
    <3>2. Len(hash[b]) = (j + 1) * BLOCK_SIZE
      BY <3>1
    <3>3. j = i
      BY <3>2, <2>1, SameEnd
    <3>. QED BY <3>1, <3>3, <1>4, <1>7 DEF Full
  <2>4. \A u \in active, j \in TableIdx : table'[u][j] = b =>
          /\ j = i /\ Full(u, i)'
          /\ \A p \in Positions : InBlock(p, i) => text'[u][p] = hash[b][p + 1]
    BY <2>1, <1>1, <1>3
  <2>. QED BY <2>1, <2>2, <2>3, <2>4, <1>1
<1>. QED BY <1>8, <1>9, <1>10, <1>11

(* A whole number of blocks, divided by the block size. *)
LEMMA BlockCount == ASSUME NEW m \in Nat PROVE (m * BLOCK_SIZE) \div BLOCK_SIZE = m
<1> DEFINE x == m * BLOCK_SIZE
           n == x \div BLOCK_SIZE
<1>1. BLOCK_SIZE \in Nat /\ BLOCK_SIZE > 0 /\ x \in Nat /\ x = BLOCK_SIZE * m
  BY KvAssumption
<1>2. n \in Int /\ x % BLOCK_SIZE \in 0 .. BLOCK_SIZE - 1 /\ x = BLOCK_SIZE * n + (x % BLOCK_SIZE)
  <2> HIDE DEF x
  <2>. QED BY <1>1
<1>3. n > m => BLOCK_SIZE * n >= BLOCK_SIZE * m + BLOCK_SIZE
  <2> HIDE DEF n
  <2>. QED BY <1>1, <1>2
<1>4. n < m => BLOCK_SIZE * n <= BLOCK_SIZE * m - BLOCK_SIZE
  <2> HIDE DEF n
  <2>. QED BY <1>1, <1>2
<1>5. BLOCK_SIZE * n \in Int /\ BLOCK_SIZE * m \in Int
  <2> HIDE DEF n
  <2>. QED BY <1>1, <1>2
<1>6. n = m
  <2> HIDE DEF n, x
  <2>. QED BY <1>1, <1>2, <1>3, <1>4, <1>5
<1>. QED BY <1>6

LEMMA AddPaged == ASSUME PInv, NEW s \in Slots, AddRequest(s) PROVE PagedInv'
<1>1. CASE Admit(s, 0, <<>>, <<>>)
  <2>1. \A i \in TableIdx : ~(i * BLOCK_SIZE < 0) /\ ~((i + 1) * BLOCK_SIZE <= 0)
    BY KvAssumption DEF TableIdx
  <2>2. \A i \in TableIdx : i \notin DOMAIN <<>>
    OBVIOUS
  <2>3. CachedPrefix(0, <<>>, <<>>)
    BY <2>1, <2>2, Zenon DEF CachedPrefix, CoversHits, DistinctBlocks, HashedParts
  <2>4. 0 \in Nat
    OBVIOUS
  <2>. QED BY <1>1, <2>3, <2>4, AdmitPaged
<1>2. ASSUME NEW b \in Blocks, hash[b] # <<>>, NEW c \in Chains(b), Admit(s, Len(hash[b]), hash[b], c)
      PROVE  PagedInv'
  <2>1. hash[b] \in Seq(Content) /\ Len(hash[b]) \in Nat
    BY Types DEF PInv
  <2>2. PICK k \in TableIdx : Len(hash[b]) = (k + 1) * BLOCK_SIZE /\ Len(hash[b]) <= MaxLen
    BY <1>2 DEF PInv, PagedInv, HashInv
  <2>3. Len(hash[b]) \div BLOCK_SIZE = k + 1 /\ k \in Nat /\ (k + 1) - 1 = k
    <3>1. k \in Nat
      BY DEF TableIdx
    <3>. QED BY <3>1, <2>2, BlockCount
  <2>4. /\ c \in [0 .. k -> Blocks]
        /\ \A i \in 0 .. k : hash[c[i]] = SubSeq(hash[b], 1, (i + 1) * BLOCK_SIZE)
    BY <2>3 DEF Chains
  <2>5. \A i \in TableIdx : i \in 0 .. k <=> (i + 1) * BLOCK_SIZE <= Len(hash[b])
    <3> SUFFICES ASSUME NEW i \in TableIdx PROVE i <= k <=> (i + 1) * BLOCK_SIZE <= (k + 1) * BLOCK_SIZE
      BY <2>2 DEF TableIdx
    <3>1. i \in Nat /\ k \in Nat /\ BLOCK_SIZE \in Nat /\ BLOCK_SIZE > 0
      BY KvAssumption DEF TableIdx
    <3>2. i <= k => (i + 1) * BLOCK_SIZE <= (k + 1) * BLOCK_SIZE
      BY <3>1
    <3>3. i > k => (i + 1) * BLOCK_SIZE >= (k + 1) * BLOCK_SIZE + BLOCK_SIZE
      BY <3>1
    <3>4. (i + 1) * BLOCK_SIZE \in Int /\ (k + 1) * BLOCK_SIZE \in Int
      BY <3>1
    <3>. QED BY <3>1, <3>2, <3>3, <3>4
  <2>6. \A i \in TableIdx : i * BLOCK_SIZE < Len(hash[b]) => i \in 0 .. k
    <3> SUFFICES ASSUME NEW i \in TableIdx, i > k PROVE i * BLOCK_SIZE >= (k + 1) * BLOCK_SIZE
      BY <2>2, KvAssumption DEF TableIdx
    <3>. QED BY KvAssumption DEF TableIdx
  <2>7. ASSUME NEW i \in TableIdx, i \in 0 .. k
        PROVE  /\ c[i] \in Blocks /\ Len(hash[c[i]]) = (i + 1) * BLOCK_SIZE
               /\ \A p \in Positions : p < (i + 1) * BLOCK_SIZE => hash[c[i]][p + 1] = hash[b][p + 1]
    <3> DEFINE e == (i + 1) * BLOCK_SIZE
    <3>1. e \in Nat
      BY KvAssumption DEF TableIdx
    <3>2. e <= Len(hash[b])
      BY <2>5, <2>7
    <3>3. hash[c[i]] = SubSeq(hash[b], 1, e)
      BY <2>4, <2>7
    <3> HIDE DEF e
    <3>4. Len(SubSeq(hash[b], 1, e)) = e /\ \A m \in 1 .. e : SubSeq(hash[b], 1, e)[m] = hash[b][m]
      BY <2>1, <3>1, <3>2
    <3>5. \A p \in Positions : p < e => p + 1 \in 1 .. e
      BY <3>1 DEF Positions
    <3>6. \A p \in Positions : p < e => hash[c[i]][p + 1] = hash[b][p + 1]
      BY <3>3, <3>4, <3>5
    <3>7. c[i] \in Blocks
      BY <2>4, <2>7
    <3>. QED BY <3>3, <3>4, <3>6, <3>7 DEF e
  <2>8. DOMAIN c = 0 .. k
    BY <2>4
  <2>9. \A i, j \in TableIdx : i \in 0 .. k /\ j \in 0 .. k /\ c[i] = c[j] => i = j
    <3> SUFFICES ASSUME NEW i \in TableIdx, NEW j \in TableIdx, i \in 0 .. k, j \in 0 .. k, c[i] = c[j]
                 PROVE  i = j
      OBVIOUS
    <3>1. (i + 1) * BLOCK_SIZE = (j + 1) * BLOCK_SIZE
      BY <2>7
    <3>. QED BY <3>1, SameEnd
  <2>10. CachedPrefix(Len(hash[b]), hash[b], c)
    <3>1. CoversHits(Len(hash[b]), c)
      BY <2>5, <2>6, <2>8, Zenon DEF CoversHits
    <3>2. DistinctBlocks(c)
      BY <2>8, <2>9, Zenon DEF DistinctBlocks
    <3>3. HashedParts(hash[b], c)
      BY <2>7, <2>8, Zenon DEF HashedParts
    <3>. QED BY <3>1, <3>2, <3>3 DEF CachedPrefix
  <2>. QED BY <1>2, <2>1, <2>10, AdmitPaged
<1>. QED BY <1>1, <1>2 DEF AddRequest

(* The scheduler: new blocks are nobody's, the text below len is kept, and a
   block that enters the prefix cache has one table index and agreeing owners. *)
LEMMA SchedulePaged ==
  ASSUME PInv, NEW s \in Slots, NEW q \in 1 .. MaxQ, ScheduleRequest(s, q)
  PROVE  PagedInv'
<1> USE DEF PInv, PagedInv
<1> DEFINE need == {i \in TableIdx : i * BLOCK_SIZE < len[s] + q /\ table[s][i] = NoBlock}
           known == IF mode[s] = "prefill" THEN len[s] + q ELSE len[s] + 1
           full(b) == {i \in TableIdx : table'[s][i] = b /\ (i + 1) * BLOCK_SIZE <= known}
<1>1. /\ phase = "schedule" /\ s \in active /\ query[s] = 0 /\ len[s] + q <= MaxLen
      /\ UNCHANGED <<phase, active, mode, len, cache>>
      /\ q \in Nat /\ q > 0 /\ len[s] \in Nat
      /\ query'[s] = q
      /\ \A t \in active : t \in Slots /\ (t # s => query'[t] = query[t])
  <2>1. /\ phase = "schedule" /\ s \in active /\ query[s] = 0 /\ len[s] + q <= MaxLen
        /\ UNCHANGED <<phase, active, mode, len, cache>>
        /\ query' = [query EXCEPT ![s] = q]
    BY DEF ScheduleRequest, exact
  <2>2. q \in Nat /\ q > 0 /\ len[s] \in Nat
    BY Lengths, KvAssumption
  <2>3. query \in [Slots -> 0 .. MaxQ] /\ active \subseteq Slots
    BY Types
  <2>4. query'[s] = q /\ \A t \in active : t \in Slots /\ (t # s => query'[t] = query[t])
    BY ONLY <2>1, <2>3, s \in Slots
  <2>. QED BY <2>1, <2>2, <2>4
<1>2. PICK new \in [need -> Free], vals \in [0 .. q - 1 -> Values] :
        /\ \A i, j \in need : new[i] = new[j] => i = j
        /\ text' = [text EXCEPT ![s] = [p \in Positions |->
                      IF p \in len[s] .. len[s] + q - 1 THEN vals[p - len[s]] ELSE @[p]]]
        /\ table' = [table EXCEPT ![s] = [i \in TableIdx |->
                                            IF i \in need THEN new[i] ELSE @[i]]]
        /\ hash' = [b \in Blocks |->
             CASE full(b) # {} -> [k \in 1 .. ((CHOOSE i \in full(b) : TRUE) + 1) * BLOCK_SIZE
                                      |-> text'[s][k - 1]]
               [] full(b) = {} /\ b \in {new[i] : i \in need} -> <<>>
               [] OTHER -> hash[b]]
  BY DEF ScheduleRequest
<1>3. /\ \A t \in active : t # s => text'[t] = text[t] /\ table'[t] = table[t]
      /\ \A p \in Positions : p < len[s] => text'[s][p] = text[s][p]
      /\ \A i \in TableIdx : table'[s][i] = IF i \in need THEN new[i] ELSE table[s][i]
  <2>1. text \in [Slots -> [Positions -> Content]] /\ table \in [Slots -> [TableIdx -> Blocks \union {NoBlock}]]
    BY Types
  <2>2. \A t \in active : t # s => text'[t] = text[t] /\ table'[t] = table[t]
    BY <1>1, <1>2, <2>1
  <2>3. \A p \in Positions : p < len[s] => text'[s][p] = text[s][p]
    BY <1>1, <1>2, <2>1
  <2>4. \A i \in TableIdx : table'[s][i] = IF i \in need THEN new[i] ELSE table[s][i]
    <3> HIDE DEF need
    <3>. QED BY <1>2, <2>1
  <2>. QED BY <2>2, <2>3, <2>4
<1>4. /\ Fixed(s)' = known /\ Fixed(s) = len[s] /\ known \in Nat /\ len[s] <= known /\ known <= len[s] + q
      /\ Valid(s)' = len[s] /\ Valid(s) = len[s]
      /\ \A t \in active : t # s => Fixed(t)' = Fixed(t) /\ Valid(t)' = Valid(t)
  BY <1>1 DEF Fixed, Valid
<1>5. \A t \in active, i \in TableIdx : Full(t, i) => Full(t, i)'
  <2> SUFFICES ASSUME NEW t \in active, NEW i \in TableIdx, Full(t, i) PROVE Full(t, i)'
    OBVIOUS
  <2>1. (i + 1) * BLOCK_SIZE \in Nat
    BY KvAssumption DEF TableIdx
  <2>2. CASE t = s
    BY <2>1, <2>2, <1>1, <1>4 DEF Full
  <2>3. CASE t # s
    BY <2>3, <1>4 DEF Full
  <2>. QED BY <2>2, <2>3
(* New blocks come from nobody, for indices past the computed positions. *)
<1>6. \A i \in need : /\ i \in TableIdx /\ new[i] \in Blocks /\ len[s] <= i * BLOCK_SIZE
                      /\ i * BLOCK_SIZE \in Nat
                      /\ \A t \in active, j \in TableIdx : table[t][j] # new[i]
  <2> SUFFICES ASSUME NEW i \in need
               PROVE  /\ i \in TableIdx /\ new[i] \in Blocks /\ len[s] <= i * BLOCK_SIZE
                      /\ i * BLOCK_SIZE \in Nat
                      /\ \A t \in active, j \in TableIdx : table[t][j] # new[i]
    OBVIOUS
  <2>1. i \in TableIdx /\ table[s][i] = NoBlock /\ i * BLOCK_SIZE \in Nat
    BY KvAssumption DEF TableIdx
  <2>2. new[i] \in Free
    <3> HIDE DEF need
    <3>. QED BY <1>2
  <2>3. ~(i * BLOCK_SIZE < len[s] + query[s])
    BY <2>1, <1>1, KvAssumption DEF TableInv
  <2>. QED BY <2>1, <2>2, <2>3, <1>1 DEF Free, Owned
<1> HIDE DEF need
<1>7. \A p \in Positions, i \in TableIdx : InBlock(p, i) /\ p < len[s] => i \notin need
  <2> SUFFICES ASSUME NEW p \in Positions, NEW i \in need, InBlock(p, i), p < len[s] PROVE FALSE
    OBVIOUS
  <2>. QED BY <1>1, <1>6, BlockPos DEF InBlock
<1>8. ASSUME NEW b, NEW p \in Int, NEW v, Holds(b, p, v) PROVE Holds(b, p, v)'
  <2>1. ASSUME Pending(b, p, v) PROVE Pending(b, p, v)'
    <3>1. PICK u \in active : BlockOf(u, p) = b /\ text[u][p] = v /\ len[u] <= p /\ p < len[u] + query[u]
      BY <2>1 DEF Pending
    <3>2. u # s
      BY <3>1, <1>1
    <3>3. BlockOf(u, p)' = b
      BY <3>1, <3>2, <1>3 DEF BlockOf
    <3>. QED BY <3>1, <3>2, <3>3, <1>1, <1>3 DEF Pending
  <2>. QED BY <1>1, <1>8, <2>1 DEF Holds
<1>9. TableInv'
  <2> SUFFICES ASSUME NEW t \in active, NEW i \in TableIdx, i * BLOCK_SIZE < len[t] + query'[t]
               PROVE  table'[t][i] \in Blocks
    BY <1>1 DEF TableInv
  <2>1. CASE t = s
    <3>1. i \in need => table'[s][i] \in Blocks
      BY <1>3, <1>6
    <3>2. i \notin need => table[s][i] # NoBlock
      BY <2>1, <1>1 DEF need
    <3>3. table[s][i] \in Blocks \union {NoBlock}
      BY Types
    <3>. QED BY <2>1, <1>3, <3>1, <3>2, <3>3
  <2>2. CASE t # s
    BY <2>2, <1>1, <1>3 DEF TableInv
  <2>. QED BY <2>1, <2>2
<1>10. \A t, u \in active, i, j \in TableIdx :
         table'[t][i] \in Blocks /\ table'[t][i] = table'[u][j] =>
           /\ i = j
           /\ t # u => /\ Full(t, i)' /\ Full(u, i)'
                       /\ (i + 1) * BLOCK_SIZE <= len[t] \/ (i + 1) * BLOCK_SIZE <= len[u]
                       /\ \A p \in Positions : InBlock(p, i) => text'[t][p] = text'[u][p]
  <2>1. ASSUME NEW t \in active, NEW u \in active, NEW i \in TableIdx, NEW j \in TableIdx,
               t # s, u # s, table'[t][i] \in Blocks, table'[t][i] = table'[u][j]
        PROVE  /\ i = j
               /\ t # u => /\ Full(t, i)' /\ Full(u, i)'
                           /\ (i + 1) * BLOCK_SIZE <= len[t] \/ (i + 1) * BLOCK_SIZE <= len[u]
                           /\ \A p \in Positions : InBlock(p, i) => text'[t][p] = text'[u][p]
    <3>1. table[t][i] \in Blocks /\ table[t][i] = table[u][j]
      BY <2>1, <1>3
    <3>2. /\ i = j
          /\ t # u => /\ Full(t, i) /\ Full(u, i)
                      /\ (i + 1) * BLOCK_SIZE <= len[t] \/ (i + 1) * BLOCK_SIZE <= len[u]
                      /\ \A p \in Positions : InBlock(p, i) => text[t][p] = text[u][p]
      BY <3>1 DEF SharingInv
    <3>. QED BY <2>1, <3>2, <1>3, <1>5
  <2>2. ASSUME NEW i \in TableIdx, NEW j \in TableIdx,
               table'[s][i] \in Blocks, table'[s][i] = table'[s][j]
        PROVE  i = j
    <3>1. CASE i \in need /\ j \in need
      BY <2>2, <3>1, <1>2, <1>3
    <3>2. CASE i \notin need /\ j \notin need
      BY <2>2, <3>2, <1>1, <1>3 DEF SharingInv
    <3>3. CASE i \in need /\ j \notin need
      BY <2>2, <3>3, <1>1, <1>3, <1>6
    <3>4. CASE i \notin need /\ j \in need
      BY <2>2, <3>4, <1>1, <1>3, <1>6
    <3>. QED BY <3>1, <3>2, <3>3, <3>4
  <2>3. ASSUME NEW u \in active, u # s, NEW i \in TableIdx, NEW j \in TableIdx,
               table'[s][i] \in Blocks, table'[s][i] = table'[u][j]
        PROVE  /\ i = j /\ Full(s, i)' /\ Full(u, i)' /\ (i + 1) * BLOCK_SIZE <= len[s]
               /\ \A p \in Positions : InBlock(p, i) => text'[s][p] = text'[u][p]
    <3>1. i \notin need
      BY <2>3, <1>3, <1>6
    <3>2. table[s][i] \in Blocks /\ table[s][i] = table[u][j]
      BY <2>3, <3>1, <1>3
    <3>3. /\ i = j /\ Full(s, i) /\ Full(u, i)
          /\ \A p \in Positions : InBlock(p, i) => text[s][p] = text[u][p]
      BY <2>3, <3>2, <1>1 DEF SharingInv
    <3>4. (i + 1) * BLOCK_SIZE <= len[s]
      BY <3>3, <1>4 DEF Full
    <3>5. \A p \in Positions : InBlock(p, i) => text'[s][p] = text'[u][p]
      BY <2>3, <3>3, <3>4, <1>1, <1>3, InBlockBelow
    <3>. QED BY <3>3, <3>4, <3>5, <1>1, <1>5
  <2> SUFFICES ASSUME NEW t \in active, NEW u \in active, NEW i \in TableIdx, NEW j \in TableIdx,
                      table'[t][i] \in Blocks, table'[t][i] = table'[u][j]
               PROVE  /\ i = j
                      /\ t # u => /\ Full(t, i)' /\ Full(u, i)'
                                  /\ (i + 1) * BLOCK_SIZE <= len[t] \/ (i + 1) * BLOCK_SIZE <= len[u]
                                  /\ \A p \in Positions : InBlock(p, i) => text'[t][p] = text'[u][p]
    OBVIOUS
  <2>4. CASE t # s /\ u # s
    BY <2>1, <2>4
  <2>5. CASE t = s /\ u = s
    BY <2>2, <2>5
  <2>6. CASE t = s /\ u # s
    BY <2>3, <2>6
  <2>7. CASE t # s /\ u = s
    <3>1. table'[s][j] \in Blocks /\ table'[s][j] = table'[t][i]
      BY <2>7
    <3>. QED BY <2>3, <2>7, <3>1
  <2>. QED BY <2>4, <2>5, <2>6, <2>7
<1>11. DataInv'
  <2> SUFFICES ASSUME NEW t \in active, NEW p \in Positions, p < Valid(t)'
               PROVE  Holds(BlockOf(t, p), p, text[t][p])'
    BY <1>1 DEF DataInv
  <2>1. p \in Int /\ p < Valid(t) /\ p \div BLOCK_SIZE \in TableIdx
    BY <1>4, BlockPos
  <2>2. Holds(BlockOf(t, p), p, text[t][p])
    BY <2>1 DEF DataInv
  <2>3. BlockOf(t, p)' = BlockOf(t, p) /\ text'[t][p] = text[t][p]
    <3>1. CASE t # s
      BY <3>1, <1>3 DEF BlockOf
    <3>2. CASE t = s
      BY <3>2, <2>1, <1>3, <1>4, <1>7 DEF BlockOf, InBlock
    <3>. QED BY <3>1, <3>2
  <2>. QED BY <2>1, <2>2, <2>3, <1>8
<1>12. HashInv'
  <2> SUFFICES ASSUME NEW b \in Blocks, hash'[b] # <<>>
               PROVE  \E i \in TableIdx :
                        /\ Len(hash'[b]) = (i + 1) * BLOCK_SIZE
                        /\ Len(hash'[b]) <= MaxLen
                        /\ \A p \in Positions : InBlock(p, i) => Holds(b, p, hash[b][p + 1])'
                        /\ \A u \in active, j \in TableIdx : table'[u][j] = b =>
                             /\ j = i /\ Full(u, i)'
                             /\ \A p \in Positions : InBlock(p, i) => text'[u][p] = hash'[b][p + 1]
    BY <1>1 DEF HashInv, InBlock
  <2>1. CASE full(b) # {}
    <3>1. PICK i \in full(b) : hash'[b] = [k \in 1 .. (i + 1) * BLOCK_SIZE |-> text'[s][k - 1]]
      <4>1. (CHOOSE i \in full(b) : TRUE) \in full(b)
        BY <2>1
      <4>2. hash'[b] = [k \in 1 .. ((CHOOSE i \in full(b) : TRUE) + 1) * BLOCK_SIZE |-> text'[s][k - 1]]
        BY <1>2, <2>1
      <4> HIDE DEF full
      <4>. QED BY <4>1, <4>2
    <3> DEFINE e == (i + 1) * BLOCK_SIZE
    <3>2. i \in TableIdx /\ table'[s][i] = b /\ e <= known /\ e \in Nat
      <4>1. i \in TableIdx /\ table'[s][i] = b /\ e <= known
        BY <3>1
      <4>. QED BY <4>1, KvAssumption DEF TableIdx
    <3>3. hash'[b] = [k \in 1 .. e |-> text'[s][k - 1]]
      BY <3>1
    <3> HIDE DEF e
    <3>4. Len(hash'[b]) = e /\ \A p \in Positions : p < e => hash'[b][p + 1] = text'[s][p]
      <4>1. \A p \in Positions : p < e => p + 1 \in 1 .. e /\ (p + 1) - 1 = p
        BY <3>2 DEF Positions
      <4>2. Len(hash'[b]) = e
        BY <3>2, <3>3
      <4>. QED BY <3>3, <4>1, <4>2
    <3>5. e <= MaxLen /\ e = (i + 1) * BLOCK_SIZE
      BY <3>2, <1>1, <1>4, KvAssumption DEF e
    <3>6. \A p \in Positions : InBlock(p, i) => p < e /\ hash'[b][p + 1] = text'[s][p]
      BY <3>2, <3>4, <3>5, InBlockBelow
    <3>7. ASSUME NEW p \in Positions, InBlock(p, i) PROVE Holds(b, p, hash[b][p + 1])'
      <4>1. p \in Int /\ p < e /\ hash'[b][p + 1] = text'[s][p] /\ BlockOf(s, p)' = b
        BY <3>2, <3>6, <3>7, BlockPos DEF InBlock, BlockOf
      <4>2. CASE p < len[s]
        <5>1. BlockOf(s, p) = b /\ text'[s][p] = text[s][p]
          BY <4>2, <3>2, <3>7, <1>3, <1>7 DEF BlockOf, InBlock
        <5>2. Holds(b, p, text[s][p])
          BY <4>2, <5>1, <1>1, <1>4 DEF DataInv
        <5>. QED BY <4>1, <5>1, <5>2, <1>8
      <4>3. CASE len[s] <= p
        <5>1. p < len[s] + q
          BY <4>1, <3>2, <1>1, <1>4
        <5>2. Pending(b, p, text[s][p])'
          BY <4>1, <4>3, <5>1, <1>1 DEF Pending
        <5>. QED BY <4>1, <5>2, <1>1 DEF Holds
      <4>. QED BY <4>1, <4>2, <4>3, <1>1
    <3>8. ASSUME NEW u \in active, NEW j \in TableIdx, table'[u][j] = b
          PROVE  /\ j = i /\ Full(u, i)'
                 /\ \A p \in Positions : InBlock(p, i) => text'[u][p] = hash'[b][p + 1]
      <4>1. /\ i = j
            /\ s # u => Full(u, i)' /\ \A p \in Positions : InBlock(p, i) => text'[s][p] = text'[u][p]
        BY <3>2, <3>8, <1>1, <1>10
      <4>2. Full(s, i)'
        <5> HIDE DEF known
        <5>. QED BY <3>2, <3>5, <1>4 DEF Full
      <4>. QED BY <4>1, <4>2, <3>6
    <3> HIDE DEF full, known
    <3>. QED BY <3>2, <3>4, <3>5, <3>7, <3>8
  <2>2. CASE full(b) = {} /\ b \in {new[i] : i \in need}
    <3>1. hash'[b] = <<>>
      BY <1>2, <2>2, Zenon
    <3>. QED BY <3>1
  <2>3. CASE full(b) = {} /\ b \notin {new[i] : i \in need}
    <3>1. hash'[b] = hash[b]
      BY <1>2, <2>3, Zenon
    <3>2. PICK i \in TableIdx :
            /\ Len(hash[b]) = (i + 1) * BLOCK_SIZE
            /\ Len(hash[b]) <= MaxLen
            /\ \A p \in Positions : InBlock(p, i) => Holds(b, p, hash[b][p + 1])
            /\ \A u \in active, j \in TableIdx : table[u][j] = b =>
                 /\ j = i /\ Full(u, i)
                 /\ \A p \in Positions : InBlock(p, i) => text[u][p] = hash[b][p + 1]
      BY <3>1 DEF HashInv
    <3>3. \A p \in Positions : InBlock(p, i) => Holds(b, p, hash[b][p + 1])'
      <4> SUFFICES ASSUME NEW p \in Positions, InBlock(p, i) PROVE Holds(b, p, hash[b][p + 1])'
        OBVIOUS
      <4>1. Holds(b, p, hash[b][p + 1]) /\ p \in Int
        BY <3>2, BlockPos
      <4>. QED BY <4>1, <3>1, <1>8
    <3>4. ASSUME NEW j \in TableIdx, table'[s][j] = b PROVE FALSE
      <4>1. j \notin need
        BY <3>4, <2>3, <1>3
      <4>2. table[s][j] = b
        BY <3>4, <4>1, <1>3
      <4>3. Full(s, j)
        BY <3>2, <4>2, <1>1
      <4>4. (j + 1) * BLOCK_SIZE <= known
        <5>1. (j + 1) * BLOCK_SIZE \in Nat
          BY KvAssumption DEF TableIdx
        <5> HIDE DEF known
        <5>. QED BY <4>3, <5>1, <1>1, <1>4 DEF Full
      <4>. QED BY <2>3, <3>4, <4>4
    <3>5. ASSUME NEW u \in active, NEW j \in TableIdx, table'[u][j] = b
          PROVE  /\ j = i /\ Full(u, i)'
                 /\ \A p \in Positions : InBlock(p, i) => text'[u][p] = hash'[b][p + 1]
      <4>1. u # s
        BY <3>4, <3>5
      <4>2. table[u][j] = b /\ text'[u] = text[u]
        BY <3>5, <4>1, <1>3
      <4>. QED BY <4>2, <3>1, <3>2, <1>5
    <3>. QED BY <3>1, <3>2, <3>3, <3>5
  <2>. QED BY <2>1, <2>2, <2>3
<1>13. SharingInv'
  BY <1>1, <1>10 DEF SharingInv, InBlock
<1>. QED BY <1>9, <1>11, <1>12, <1>13

LEMMA PreparePaged == ASSUME PInv, PrepareInputs PROVE PagedInv'
<1> USE DEF PInv, PagedInv
<1>1. /\ phase = "schedule" /\ phase' = "update"
      /\ UNCHANGED <<active, mode, len, query, text, table, hash, cache>>
  BY DEF PrepareInputs, exact
<1>2. /\ \A t : Fixed(t)' = Fixed(t) /\ Valid(t)' = Valid(t)
      /\ \A t, p : BlockOf(t, p)' = BlockOf(t, p)
      /\ \A t, i : Full(t, i)' = Full(t, i)
  BY <1>1 DEF Fixed, Valid, BlockOf, Full
<1>3. \A b, p, v : Holds(b, p, v)' = Holds(b, p, v)
  BY <1>1, <1>2 DEF Holds, Pending
<1>4. TableInv' /\ SharingInv'
  BY <1>1, <1>2 DEF TableInv, SharingInv, InBlock
<1>5. DataInv'
  BY <1>1, <1>2, <1>3 DEF DataInv
<1>6. HashInv'
  BY <1>1, <1>2, <1>3 DEF HashInv, InBlock
<1>. QED BY <1>4, <1>5, <1>6

(* The cache write leaves v in position p of block b, when v was there or to be
   written and every token that stores there stores v. *)
LEMMA WrittenRow ==
  ASSUME IInv, CacheUpdate, NEW b \in Blocks, NEW p \in Positions, NEW v, Holds(b, p, v),
         \A t \in CacheWriters(b, p % BLOCK_SIZE) : TextOf(t) = v
  PROVE  cache'[b][p % BLOCK_SIZE] = v
<1> DEFINE o == p % BLOCK_SIZE
<1>1. o \in Offsets /\ p \in Int
  BY BlockPos
<1>2. cache' = [c \in Blocks |-> [x \in Offsets |->
        IF CacheWriters(c, x) = {} THEN cache[c][x]
        ELSE TextOf(CHOOSE t \in CacheWriters(c, x) : TRUE)]]
  BY DEF CacheUpdate
<1>3. cache'[b][o] = IF CacheWriters(b, o) = {} THEN cache[b][o]
                     ELSE TextOf(CHOOSE t \in CacheWriters(b, o) : TRUE)
  <2> HIDE DEF o
  <2>. QED BY <1>1, <1>2
<1>4. CASE CacheWriters(b, o) = {}
  <2>1. ~Pending(b, p, v)
    <3> SUFFICES ASSUME NEW u \in active, BlockOf(u, p) = b, len[u] <= p, p < len[u] + query[u]
                 PROVE  FALSE
      BY DEF Pending
    <3>1. u \in Slots /\ query[u] > 0
      BY Types, Lengths, <1>1
    <3>2. PICK r \in 1 .. Len(batch) : batch[r] = u
      BY <3>1 DEF IInv, BatchInv
    <3>3. <<r, p>> \in Tokens
      BY <3>2, <1>1, TokenOf DEF SeqLen
    <3>4. <<r, p>> \in CacheWriters(b, o)
      BY <3>2, <3>3 DEF CacheWriters
    <3>. QED BY <3>4, <1>4
  <2>. QED BY <2>1, <1>3, <1>4 DEF Holds
<1>5. CASE CacheWriters(b, o) # {}
  <2>1. (CHOOSE t \in CacheWriters(b, o) : TRUE) \in CacheWriters(b, o)
    BY <1>5
  <2> HIDE DEF o
  <2>. QED BY <2>1, <1>3, <1>5 DEF o
<1>. QED BY <1>4, <1>5

(* Who stores to block b: a request that owns it, at its own position. *)
LEMMA Writer ==
  ASSUME IInv, NEW b \in Blocks, NEW p \in Positions, NEW t \in CacheWriters(b, p % BLOCK_SIZE)
  PROVE  /\ t[1] \in 1 .. Len(batch) /\ t[2] \in Positions
         /\ batch[t[1]] \in active /\ batch[t[1]] \in Slots
         /\ t[2] \div BLOCK_SIZE \in TableIdx
         /\ table[batch[t[1]]][t[2] \div BLOCK_SIZE] = b
         /\ t[2] % BLOCK_SIZE = p % BLOCK_SIZE
         /\ TextOf(t) = text[batch[t[1]]][t[2]]
<1>1. t \in Tokens /\ BlockOf(batch[t[1]], t[2]) = b /\ t[2] % BLOCK_SIZE = p % BLOCK_SIZE
  BY DEF CacheWriters
<1>2. t[1] \in 1 .. Len(batch) /\ t[2] \in Positions /\ batch[t[1]] \in Slots
  BY <1>1, TokenFacts
<1>3. batch[t[1]] \in active
  BY <1>2 DEF IInv, BatchInv
<1>. QED BY <1>1, <1>2, <1>3, BlockPos DEF BlockOf, TextOf

(* The cache write: every row about to be read is written, and only by requests
   that agree on it. *)
LEMMA UpdatePaged == ASSUME PInv, CacheUpdate PROVE PagedInv'
<1> USE DEF PInv, PagedInv
<1>1. /\ phase = "update" /\ phase' = "attend"
      /\ UNCHANGED <<active, mode, len, query, text, table, hash>>
  BY DEF CacheUpdate
<1>2. /\ \A t : Fixed(t)' = Fixed(t) /\ Valid(t)' = len[t] + query[t] /\ Valid(t) = len[t]
      /\ \A t, p : BlockOf(t, p)' = BlockOf(t, p)
      /\ \A t, i : Full(t, i)' = Full(t, i)
  BY <1>1 DEF Fixed, Valid, BlockOf, Full
<1>3. TableInv' /\ SharingInv'
  BY <1>1, <1>2 DEF TableInv, SharingInv, InBlock
<1>4. \A b, p, v : cache'[b][p % BLOCK_SIZE] = v => Holds(b, p, v)'
  BY DEF Holds
<1>5. DataInv'
  <2> SUFFICES ASSUME NEW t \in active, NEW p \in Positions, p < len[t] + query[t]
               PROVE  cache'[BlockOf(t, p)][p % BLOCK_SIZE] = text[t][p]
    BY <1>1, <1>2, <1>4 DEF DataInv
  <2> DEFINE i == p \div BLOCK_SIZE
             b == BlockOf(t, p)
  <2>1. t \in Slots /\ len[t] \in Nat /\ query[t] \in Nat
    BY Types, Lengths
  <2>2. p \in Int /\ i \in TableIdx /\ i * BLOCK_SIZE <= p /\ i * BLOCK_SIZE \in Int
    BY BlockPos, KvAssumption DEF TableIdx
  <2>3. b = table[t][i] /\ b \in Blocks
    BY <2>1, <2>2 DEF TableInv, BlockOf
  <2>4. Holds(b, p, text[t][p])
    <3>1. CASE p < len[t]
      BY <3>1, <1>2 DEF DataInv
    <3>2. CASE len[t] <= p
      BY <3>2, <1>1 DEF Holds, Pending
    <3>. QED BY <3>1, <3>2, <2>1, <2>2
  <2>5. ASSUME NEW w \in CacheWriters(b, p % BLOCK_SIZE) PROVE TextOf(w) = text[t][p]
    <3> DEFINE u == batch[w[1]]
               x == w[2]
    <3>1. /\ u \in active /\ x \in Positions /\ x \div BLOCK_SIZE \in TableIdx
          /\ table[u][x \div BLOCK_SIZE] = b /\ x % BLOCK_SIZE = p % BLOCK_SIZE
          /\ TextOf(w) = text[u][x]
      BY <2>3, Writer
    <3> HIDE DEF u, x, b, i
    <3>2. /\ i = x \div BLOCK_SIZE
          /\ t # u => \A y \in Positions : InBlock(y, i) => text[t][y] = text[u][y]
      BY <2>2, <2>3, <3>1 DEF SharingInv
    <3>3. x = p /\ InBlock(p, i)
      BY <3>1, <3>2, SamePos DEF i, InBlock
    <3>. QED BY <3>1, <3>2, <3>3
  <2> HIDE DEF b
  <2>6. cache'[b][p % BLOCK_SIZE] = text[t][p]
    BY <2>3, <2>4, <2>5, WrittenRow
  <2>. QED BY <2>6 DEF b
<1>6. HashInv'
  <2> SUFFICES ASSUME NEW b \in Blocks, hash[b] # <<>>
               PROVE  \E i \in TableIdx :
                        /\ Len(hash[b]) = (i + 1) * BLOCK_SIZE
                        /\ Len(hash[b]) <= MaxLen
                        /\ \A p \in Positions : InBlock(p, i) => Holds(b, p, hash[b][p + 1])'
                        /\ \A u \in active, j \in TableIdx : table[u][j] = b =>
                             /\ j = i /\ Full(u, i)
                             /\ \A p \in Positions : InBlock(p, i) => text[u][p] = hash[b][p + 1]
    BY <1>1, <1>2 DEF HashInv, InBlock
  <2>1. PICK i \in TableIdx :
          /\ Len(hash[b]) = (i + 1) * BLOCK_SIZE
          /\ Len(hash[b]) <= MaxLen
          /\ \A p \in Positions : InBlock(p, i) => Holds(b, p, hash[b][p + 1])
          /\ \A u \in active, j \in TableIdx : table[u][j] = b =>
               /\ j = i /\ Full(u, i)
               /\ \A p \in Positions : InBlock(p, i) => text[u][p] = hash[b][p + 1]
    BY DEF HashInv
  <2>2. ASSUME NEW p \in Positions, InBlock(p, i) PROVE Holds(b, p, hash[b][p + 1])'
    <3>1. ASSUME NEW w \in CacheWriters(b, p % BLOCK_SIZE) PROVE TextOf(w) = hash[b][p + 1]
      <4> DEFINE u == batch[w[1]]
                 x == w[2]
      <4>1. /\ u \in active /\ x \in Positions /\ x \div BLOCK_SIZE \in TableIdx
            /\ table[u][x \div BLOCK_SIZE] = b /\ x % BLOCK_SIZE = p % BLOCK_SIZE
            /\ TextOf(w) = text[u][x]
        BY Writer
      <4> HIDE DEF u, x
      <4>2. /\ x \div BLOCK_SIZE = i
            /\ \A y \in Positions : InBlock(y, i) => text[u][y] = hash[b][y + 1]
        BY <2>1, <4>1
      <4>3. x = p
        BY <2>2, <4>1, <4>2, SamePos DEF InBlock
      <4>. QED BY <2>2, <4>1, <4>2, <4>3
    <3>2. Holds(b, p, hash[b][p + 1])
      BY <2>1, <2>2
    <3>3. cache'[b][p % BLOCK_SIZE] = hash[b][p + 1]
      BY <3>1, <3>2, WrittenRow
    <3>. QED BY <3>3, <1>1 DEF Holds
  <2>. QED BY <2>1, <2>2
<1>. QED BY <1>3, <1>5, <1>6

(* Sampling: what it rejects lies above every position a block was shared or
   cached for. *)
LEMMA SamplePaged == ASSUME PInv, Sample PROVE PagedInv'
<1> USE DEF PInv, PagedInv
<1>1. /\ phase = "attend" /\ phase' = "schedule" /\ query' = [s \in Slots |-> 0]
      /\ UNCHANGED <<active, table, hash, cache>>
  BY DEF Sample, exact
<1>2. PICK kept \in [Slots -> 0 .. MaxQ] :
        /\ \A s \in Slots : /\ kept[s] <= query[s]
                            /\ query[s] > 0 => kept[s] > 0
                            /\ mode[s] = "prefill" => kept[s] = query[s]
        /\ len' = [s \in Slots |-> len[s] + kept[s]]
        /\ text' = [s \in Slots |-> [p \in Positions |->
                      IF p < len[s] + kept[s] THEN text[s][p] ELSE Blank]]
  BY DEF Sample
<1>3. \A t \in active : t \in Slots
  BY Types
<1>4. ASSUME NEW t \in active
      PROVE  /\ len'[t] \in Nat /\ query'[t] = 0 /\ len[t] <= len'[t] /\ len'[t] <= len[t] + query[t]
             /\ Fixed(t) <= len'[t] /\ Fixed(t)' = len'[t] /\ Valid(t)' = len'[t]
             /\ Valid(t) = len[t] + query[t]
             /\ \A p \in Positions : p < len'[t] => text'[t][p] = text[t][p]
  <2>1. kept[t] \in Nat /\ len[t] \in Nat /\ query[t] \in Nat /\ mode[t] \in {"prefill", "decode"}
    BY <1>2, <1>3, Lengths, Types, KvAssumption
  <2>2. len'[t] = len[t] + kept[t] /\ query'[t] = 0
    BY <1>1, <1>2, <1>3
  <2>3. kept[t] <= query[t] /\ (query[t] > 0 => kept[t] > 0) /\ (mode[t] = "prefill" => kept[t] = query[t])
    BY <1>2, <1>3
  <2>4. Fixed(t) <= len'[t]
    BY <2>1, <2>2, <2>3 DEF Fixed
  <2>5. Fixed(t)' = len'[t] /\ Valid(t)' = len'[t] /\ Valid(t) = len[t] + query[t]
    BY <1>1, <2>2 DEF Fixed, Valid
  <2>6. \A p \in Positions : p < len'[t] => text'[t][p] = text[t][p]
    BY <1>2, <1>3, <2>2
  <2>. QED BY <2>1, <2>2, <2>3, <2>4, <2>5, <2>6
<1>5. ASSUME NEW t \in active, NEW i \in TableIdx, Full(t, i)
      PROVE  /\ Full(t, i)'
             /\ \A p \in Positions : InBlock(p, i) => text'[t][p] = text[t][p]
  <2>1. (i + 1) * BLOCK_SIZE \in Nat /\ Fixed(t) \in Nat /\ (i + 1) * BLOCK_SIZE <= Fixed(t)
    BY <1>3, <1>5, Lengths, KvAssumption DEF Full, TableIdx
  <2>2. (i + 1) * BLOCK_SIZE <= len'[t] /\ len'[t] \in Nat
    BY <2>1, <1>4
  <2>3. \A p \in Positions : InBlock(p, i) => p < len'[t]
    BY <2>2, InBlockBelow
  <2>. QED BY <2>2, <2>3, <1>4 DEF Full
<1>6. \A b, p, v : Holds(b, p, v) => Holds(b, p, v)'
  BY <1>1 DEF Holds
<1>7. TableInv'
  <2> SUFFICES ASSUME NEW t \in active, NEW i \in TableIdx, i * BLOCK_SIZE < len'[t] + query'[t]
               PROVE  table[t][i] \in Blocks
    BY <1>1 DEF TableInv
  <2>1. len[t] \in Nat /\ query[t] \in Nat /\ i * BLOCK_SIZE \in Int
    BY <1>3, Lengths, KvAssumption DEF TableIdx
  <2>. QED BY <2>1, <1>4 DEF TableInv
<1>8. SharingInv'
  <2> SUFFICES ASSUME NEW t \in active, NEW u \in active, NEW i \in TableIdx, NEW j \in TableIdx,
                      table[t][i] \in Blocks, table[t][i] = table[u][j]
               PROVE  /\ i = j
                      /\ t # u => /\ Full(t, i)' /\ Full(u, i)'
                                  /\ (i + 1) * BLOCK_SIZE <= len'[t] \/ (i + 1) * BLOCK_SIZE <= len'[u]
                                  /\ \A p \in Positions : InBlock(p, i) => text'[t][p] = text'[u][p]
    BY <1>1 DEF SharingInv, InBlock
  <2>1. /\ i = j
        /\ t # u => /\ Full(t, i) /\ Full(u, i)
                    /\ (i + 1) * BLOCK_SIZE <= len[t] \/ (i + 1) * BLOCK_SIZE <= len[u]
                    /\ \A p \in Positions : InBlock(p, i) => text[t][p] = text[u][p]
    BY DEF SharingInv
  <2>2. /\ (i + 1) * BLOCK_SIZE \in Nat /\ len[t] \in Nat /\ len[u] \in Nat
    BY <1>3, Lengths, KvAssumption DEF TableIdx
  <2>3. ASSUME t # u
        PROVE  (i + 1) * BLOCK_SIZE <= len'[t] \/ (i + 1) * BLOCK_SIZE <= len'[u]
    BY <2>1, <2>2, <2>3, <1>4
  <2>4. ASSUME t # u
        PROVE  /\ Full(t, i)' /\ Full(u, i)'
               /\ \A p \in Positions : InBlock(p, i) => text'[t][p] = text'[u][p]
    BY <2>1, <2>4, <1>5
  <2>. QED BY <2>1, <2>3, <2>4
<1>9. DataInv'
  <2> SUFFICES ASSUME NEW t \in active, NEW p \in Positions, p < len'[t]
               PROVE  Holds(BlockOf(t, p), p, text[t][p])'
    BY <1>1, <1>4 DEF DataInv
  <2>1. p \in Int /\ p < Valid(t) /\ text'[t][p] = text[t][p]
    BY <1>3, <1>4, BlockPos, Lengths
  <2>2. Holds(BlockOf(t, p), p, text[t][p])
    BY <2>1 DEF DataInv
  <2>3. BlockOf(t, p)' = BlockOf(t, p)
    BY <1>1 DEF BlockOf
  <2>. QED BY <2>1, <2>2, <2>3, <1>6
<1>10. HashInv'
  <2> SUFFICES ASSUME NEW b \in Blocks, hash[b] # <<>>
               PROVE  \E i \in TableIdx :
                        /\ Len(hash[b]) = (i + 1) * BLOCK_SIZE
                        /\ Len(hash[b]) <= MaxLen
                        /\ \A p \in Positions : InBlock(p, i) => Holds(b, p, hash[b][p + 1])'
                        /\ \A u \in active, j \in TableIdx : table[u][j] = b =>
                             /\ j = i /\ Full(u, i)'
                             /\ \A p \in Positions : InBlock(p, i) => text'[u][p] = hash[b][p + 1]
    BY <1>1 DEF HashInv, InBlock
  <2>1. PICK i \in TableIdx :
          /\ Len(hash[b]) = (i + 1) * BLOCK_SIZE
          /\ Len(hash[b]) <= MaxLen
          /\ \A p \in Positions : InBlock(p, i) => Holds(b, p, hash[b][p + 1])
          /\ \A u \in active, j \in TableIdx : table[u][j] = b =>
               /\ j = i /\ Full(u, i)
               /\ \A p \in Positions : InBlock(p, i) => text[u][p] = hash[b][p + 1]
    BY DEF HashInv
  <2>2. \A p \in Positions : InBlock(p, i) => Holds(b, p, hash[b][p + 1])'
    <3>1. \A p \in Positions : hash'[b][p + 1] = hash[b][p + 1]
      BY <1>1
    <3>. QED BY <2>1, <3>1, <1>1, <1>6 DEF Holds
  <2>3. \A u \in active, j \in TableIdx : table[u][j] = b =>
          /\ j = i /\ Full(u, i)'
          /\ \A p \in Positions : InBlock(p, i) => text'[u][p] = hash[b][p + 1]
    BY <2>1, <1>5
  <2>. QED BY <2>1, <2>2, <2>3
<1>. QED BY <1>7, <1>8, <1>9, <1>10
-----------------------------------------------------------------------------
(* Theorems *)

LEMMA StepPaged == ASSUME PInv, [Next]_vars PROVE PagedInv'
<1>1. ASSUME NEW s \in Slots, AddRequest(s) PROVE PagedInv'
  BY <1>1, AddPaged
<1>2. ASSUME NEW s \in Slots, RemoveRequest(s) PROVE PagedInv'
  BY <1>2, RemovePaged
<1>3. ASSUME NEW s \in Slots, NEW q \in 1 .. MaxQ, ScheduleRequest(s, q) PROVE PagedInv'
  BY <1>3, SchedulePaged
<1>4. CASE PrepareInputs
  BY <1>4, PreparePaged
<1>5. CASE CacheUpdate
  BY <1>5, UpdatePaged
<1>6. CASE Sample
  BY <1>6, SamplePaged
<1>7. CASE UNCHANGED vars
  BY <1>7 DEF vars, engine, exact, PInv, PagedInv, TableInv, SharingInv, DataInv, HashInv,
              Holds, Pending, Full, Fixed, Valid, BlockOf, InBlock
<1>. QED BY <1>1, <1>2, <1>3, <1>4, <1>5, <1>6, <1>7 DEF Next

LEMMA PagedHolds == Spec => []PInv
<1>1. Init => PInv
  BY InitIInv, InitPaged DEF PInv
<1>2. PInv /\ [Next]_vars => PInv'
  BY StepIInv, StepPaged DEF PInv
<1>. QED BY <1>1, <1>2, PTL DEF Spec

(* Two tokens of a step never store to one cache row: the requests that own a
   block in common have computed it, all but one. *)
LEMMA PInvCacheWrites == PInv => CacheWritesDoNotRace
<1> SUFFICES ASSUME PInv, phase = "update", NEW t \in Tokens, NEW w \in Tokens, t # w,
                    BlockOf(batch[t[1]], t[2]) = BlockOf(batch[w[1]], w[2]),
                    t[2] % BLOCK_SIZE = w[2] % BLOCK_SIZE
             PROVE  FALSE
  BY DEF CacheWritesDoNotRace
<1> USE DEF PInv
<1> DEFINE s == batch[t[1]]
           u == batch[w[1]]
           p == t[2]
           q == w[2]
           i == p \div BLOCK_SIZE
           j == q \div BLOCK_SIZE
<1>1. /\ t[1] \in 1 .. Len(batch) /\ w[1] \in 1 .. Len(batch) /\ p \in Positions /\ q \in Positions
      /\ s \in Slots /\ u \in Slots
      /\ len[s] <= p /\ p < len[s] + query[s] /\ len[u] <= q /\ q < len[u] + query[u]
  BY TokenFacts DEF SeqLen
<1>2. s \in active /\ u \in active /\ t = <<t[1], p>> /\ w = <<w[1], q>>
  <2>1. s \in active /\ u \in active
    BY <1>1 DEF IInv, BatchInv
  <2>2. t = <<t[1], t[2]>> /\ w = <<w[1], w[2]>>
    BY DEF Tokens
  <2>. QED BY <2>1, <2>2
<1>3. /\ i \in TableIdx /\ j \in TableIdx /\ p \in Int /\ q \in Int
      /\ i * BLOCK_SIZE <= p /\ p < (i + 1) * BLOCK_SIZE /\ q < (j + 1) * BLOCK_SIZE
      /\ i * BLOCK_SIZE \in Int /\ (i + 1) * BLOCK_SIZE \in Int
  <2>1. /\ i \in TableIdx /\ j \in TableIdx /\ p \in Int /\ q \in Int
        /\ i * BLOCK_SIZE <= p /\ p < (i + 1) * BLOCK_SIZE /\ q < (j + 1) * BLOCK_SIZE
    BY <1>1, BlockPos
  <2> HIDE DEF i, j
  <2>2. i * BLOCK_SIZE \in Int /\ (i + 1) * BLOCK_SIZE \in Int
    BY <2>1, KvAssumption DEF TableIdx
  <2>. QED BY <2>1, <2>2
<1>4. table[s][i] \in Blocks /\ table[s][i] = table[u][j]
  <2>1. len[s] \in Nat /\ query[s] \in Nat
    BY <1>1, Lengths
  <2>2. table[s][i] = table[u][j]
    BY DEF BlockOf
  <2> HIDE DEF s, u, i, j, p, q
  <2>3. i * BLOCK_SIZE < len[s] + query[s]
    BY <2>1, <1>1, <1>3
  <2>. QED BY <2>2, <2>3, <1>2, <1>3 DEF PagedInv, TableInv
<1>5. /\ i = j
      /\ s # u => (i + 1) * BLOCK_SIZE <= len[s] \/ (i + 1) * BLOCK_SIZE <= len[u]
  <2> HIDE DEF s, u, i, j
  <2>. QED BY <1>2, <1>3, <1>4 DEF PagedInv, SharingInv
<1>6. s = u
  <2>1. len[s] \in Nat /\ len[u] \in Nat
    BY <1>1, Lengths
  <2> HIDE DEF s, u, i, j, p, q
  <2>. QED BY <2>1, <1>1, <1>3, <1>5
<1>7. p = q
  BY <1>1, <1>5, SamePos
<1>8. t[1] = w[1]
  BY <1>1, <1>6 DEF IInv, BatchInv
<1>. QED BY <1>2, <1>7, <1>8

(* The programs of one cache write never store to the same place, whatever
   blocks the requests of the batch share (kv_int4.py:_quant_pack). *)
THEOREM WritesSafe == Spec => []WritesDoNotRace
<1>1. PInv => WritesDoNotRace
  BY PInvCacheWrites, RingWritesFree DEF WritesDoNotRace, PInv
<1>. QED BY <1>1, PagedHolds, PTL

(* What attention reads for a position is the request's own row, from the ring,
   the sink or the paged cache (_attn_int4, gather_dequant_int4 and
   _tail_overlay). *)
THEOREM AttentionSafe == Spec => []AttentionReadsOwnText
<1>1. PInv /\ SinksMirrorCache => AttentionReadsOwnText
  <2> SUFFICES ASSUME PInv, SinksMirrorCache, phase = "attend",
                      NEW r \in 1 .. Len(batch), NEW p \in 0 .. SeqLen(batch[r]) - 1,
                      NEW side \in {ringK, ringV}
               PROVE  /\ DecodeRead(r, p, side) = text[batch[r]][p]
                      /\ PrefillRead(r, p, side) = text[batch[r]][p]
    BY DEF AttentionReadsOwnText
  <2> USE DEF PInv
  <2> DEFINE s == batch[r]
             b == BlockOf(s, p)
             o == p % BLOCK_SIZE
  <2>1. s \in active /\ s \in Slots
    <3>1. s \in active
      BY DEF IInv, BatchInv
    <3>. QED BY <3>1, Types
  <2>2. /\ len[s] \in Nat /\ query[s] \in Nat /\ len[s] + query[s] <= MaxLen
        /\ MaxLen \in Nat /\ p \in Int /\ p >= 0 /\ p < len[s] + query[s]
    <3>1. len[s] \in Nat /\ query[s] \in Nat /\ len[s] + query[s] <= MaxLen
      BY <2>1, Lengths
    <3> HIDE DEF s
    <3>2. SeqLen(s) = len[s] + query[s]
      BY DEF SeqLen
    <3>. QED BY <3>1, <3>2, KvAssumption DEF s
  <2>3. p \in Positions
    BY <2>2 DEF Positions
  <2>4. p \div BLOCK_SIZE \in TableIdx /\ o \in Offsets /\ (p < SINKS => o < SINKS)
        /\ (p \div BLOCK_SIZE) * BLOCK_SIZE <= p /\ (p \div BLOCK_SIZE) * BLOCK_SIZE \in Int
    <3>1. /\ p \div BLOCK_SIZE \in TableIdx /\ o \in Offsets /\ (p \div BLOCK_SIZE) * BLOCK_SIZE <= p
          /\ p = (p \div BLOCK_SIZE) * BLOCK_SIZE + o
      BY <2>3, BlockPos
    <3>2. /\ (p \div BLOCK_SIZE) * BLOCK_SIZE \in Nat /\ o \in Nat /\ SINKS \in Nat
      BY <3>1, KvAssumption DEF TableIdx, Offsets
    <3>. QED BY <3>1, <3>2
  <2>5. b \in Blocks
    BY <2>1, <2>2, <2>4 DEF PagedInv, TableInv, BlockOf
  <2>6. cache[b][o] = text[s][p]
    <3>1. Holds(BlockOf(s, p), p, text[s][p])
      BY <2>1, <2>2, <2>3 DEF PagedInv, DataInv, Valid
    <3>. QED BY <3>1 DEF Holds
  <2>7. o < SINKS => sink[b][o] = text[s][p]
    BY <2>4, <2>5, <2>6 DEF SinksMirrorCache
  <2>8. TagHit(r, p) => side[buf[r]][p % TAIL] = text[s][p]
    <3>1. TailReadsOwnText
      BY TaggedRows
    <3>. QED BY <3>1 DEF TailReadsOwnText
  <2> HIDE DEF b, o, s
  <2>9. ASSUME NEW useSink \in BOOLEAN, useSink => o < SINKS
        PROVE  Pick(r, p, side, useSink) = text[s][p]
    BY <2>6, <2>7, <2>8, <2>9 DEF Pick, b, o, s
  <2>10. DecodeRead(r, p, side) = text[s][p]
    <3>1. (p < SINKS) \in BOOLEAN /\ (p < SINKS => o < SINKS)
      BY <2>4
    <3>. QED BY <2>9, <3>1, Zenon DEF DecodeRead
  <2>11. PrefillRead(r, p, side) = text[s][p]
    BY <2>9 DEF PrefillRead, o
  <2>. QED BY <2>10, <2>11 DEF s
<1>. QED BY <1>1, PagedHolds, SinksSafe, PTL
=============================================================================
