--------------------------- MODULE HadCountersProofs ---------------------------
(***************************************************************************)
(* The promises of HadCounters for every size of group, every width and any *)
(* number of launches.  What makes them inductive is what a counter means:  *)
(* it is the number of tiles of its group that have added to it, until the  *)
(* group is finished and the counter is zero again (CountInv).  So exactly  *)
(* one program completes a group, after all others, and by then every tile  *)
(* was released (DataInv).  The rest says that a launch stays inside the    *)
(* buffer it was recorded with, however the map has grown (BufferInv).      *)
(***************************************************************************)
EXTENDS HadCounters, FiniteSetTheorems, TLAPS

Launches == [width : Widths, buf : Nat, fused : BOOLEAN]

FusedPcs == {"dot", "release", "add", "acquire", "transform", "reset", "done"}
UnfusedPcs == {"dot", "stored", "done"}

TypeInv ==
  /\ counters \in Seq(Seq(Nat))
  /\ graph \subseteq Launches /\ queue \in Seq(Launches)
  /\ call \in Launches \cup {NoCall}
  /\ DOMAIN pc = Programs(call.width) /\ DOMAIN mem = Programs(call.width)
  /\ DOMAIN seen = 1 .. call.width
  /\ \A p \in DOMAIN pc : pc[p] \in IF call.fused THEN FusedPcs ELSE UnfusedPcs

(* The buffer of a fused launch exists and is wide enough.                  *)
Fits(launch, bufs) ==
  launch.fused => launch.buf \in 1 .. Len(bufs) /\ launch.width <= Len(bufs[launch.buf])

BufferInv ==
  /\ \A launch \in graph : Fits(launch, counters)
  /\ \A i \in 1 .. Len(queue) : Fits(queue[i], counters)
  /\ Fits(call, counters)

Adding == {"acquire", "transform", "reset", "done"}
Completing == {"acquire", "transform", "reset"}

Added(g) == {t \in Tiles : pc[<<g, t>>] \in Adding}
GroupDone(g) == \A t \in Tiles : pc[<<g, t>>] = "done"

CountOf(g) == IF GroupDone(g) THEN 0 ELSE Cardinality(Added(g))

(* The counter of a group, and who completes it.                            *)
GroupCounted(g) ==
  /\ counters[call.buf][g] = CountOf(g)
  /\ \A t \in Tiles : pc[<<g, t>>] \in Completing => Added(g) = Tiles
  /\ \A t, u \in Tiles :
       pc[<<g, t>>] \in Completing /\ pc[<<g, u>>] \in Completing => t = u

CountInv == call.fused => \A g \in 1 .. call.width : GroupCounted(g)

Transformed(g) == GroupDone(g) \/ \E t \in Tiles : pc[<<g, t>>] = "reset"

(* What memory holds of a group.                                            *)
GroupData(g) ==
  /\ Transformed(g) => \A t \in Tiles : mem[<<g, t>>] = "had"
  /\ ~Transformed(g) => \A t \in Tiles :
       pc[<<g, t>>] \in Adding \cup {"add"} => mem[<<g, t>>] = "dot"
  /\ \A t \in Tiles : pc[<<g, t>>] = "transform" => seen[g] = Group(g)

DataInv ==
  /\ call.fused => \A g \in 1 .. call.width : GroupData(g)
  /\ ~call.fused => \A p \in DOMAIN pc : pc[p] = "done" => mem[p] = "had"

IInv == TypeInv /\ BufferInv /\ CountersRest /\ CountInv /\ DataInv
-----------------------------------------------------------------------------
(* Programs and their groups.                                               *)
LEMMA WidthPositive ==
  ASSUME NEW launch \in Launches
  PROVE  launch.width \in Nat \ {0}
<1>1. launch.width \in Widths
  BY DEF Launches
<1>. QED BY <1>1, HadAssumption

LEMMA ProgramParts ==
  ASSUME NEW width, NEW p \in Programs(width)
  PROVE  p[1] \in 1 .. width /\ p[2] \in Tiles /\ p = <<p[1], p[2]>>
BY DEF Programs

LEMMA PartsProgram ==
  ASSUME NEW width, NEW g \in 1 .. width, NEW t \in Tiles
  PROVE  <<g, t>> \in Programs(width)
BY DEF Programs

LEMMA AddedFinite ==
  ASSUME NEW g
  PROVE  /\ IsFiniteSet(Added(g)) /\ Cardinality(Added(g)) \in Nat
         /\ Cardinality(Tiles) \in Nat /\ Added(g) \subseteq Tiles
<1>1. Added(g) \in SUBSET Tiles
  BY DEF Added
<1>. QED BY <1>1, FS_Subset, FS_CardinalityType, HadAssumption

(* One more tile has added: the counter's next value, and whether the group *)
(* is now complete.                                                         *)
LEMMA OneMoreAdded ==
  ASSUME NEW g, NEW S, NEW t \in Tiles, t \notin Added(g), S = Added(g) \cup {t}
  PROVE  /\ Cardinality(S) = Cardinality(Added(g)) + 1
         /\ Cardinality(S) = Cardinality(Tiles) <=> S = Tiles
<1>1. S \in SUBSET Tiles /\ Cardinality(S) = Cardinality(Added(g)) + 1
  BY AddedFinite, FS_AddElement
<1>2. Cardinality(S) = Cardinality(Tiles) => S = Tiles
  BY <1>1, FS_Subset, HadAssumption
<1>. QED BY <1>1, <1>2

(* One counter is assigned.                                                 *)
LEMMA CounterAssigned ==
  ASSUME counters \in Seq(Seq(Nat)), NEW b \in 1 .. Len(counters),
         NEW g \in 1 .. Len(counters[b]), NEW n \in Nat,
         counters' = [counters EXCEPT ![b][g] = n]
  PROVE  /\ counters' \in Seq(Seq(Nat)) /\ Len(counters') = Len(counters)
         /\ \A c \in 1 .. Len(counters) : Len(counters'[c]) = Len(counters[c])
         /\ counters'[b][g] = n
         /\ \A c \in 1 .. Len(counters) : \A h \in 1 .. Len(counters[c]) :
              c # b \/ h # g => counters'[c][h] = counters[c][h]
<1>1. counters[b] \in Seq(Nat)
  OBVIOUS
<1>2. [counters[b] EXCEPT ![g] = n] \in Seq(Nat) /\ Len([counters[b] EXCEPT ![g] = n]) = Len(counters[b])
  BY <1>1
<1>3. counters' = [counters EXCEPT ![b] = [counters[b] EXCEPT ![g] = n]]
  OBVIOUS
<1>. QED BY <1>1, <1>2, <1>3

(* A buffer is appended.                                                    *)
LEMMA CountersGrown ==
  ASSUME counters \in Seq(Seq(Nat)), NEW width \in Widths, counters' = Grown(width)
  PROVE  /\ counters' \in Seq(Seq(Nat)) /\ Len(counters') = Len(counters) + 1
         /\ \A b \in 1 .. Len(counters) : counters'[b] = counters[b]
         /\ \A g \in 1 .. Len(counters'[Len(counters')]) : counters'[Len(counters')][g] = 0
         /\ Len(counters'[Len(counters')]) >= width
<1> DEFINE n == Larger(width, MinGroups)
<1>1. width \in Nat /\ n \in Nat /\ n >= width
  BY HadAssumption DEF Larger
<1>2. Zeros(n) \in Seq(Nat) /\ Len(Zeros(n)) = n /\ \A i \in 1 .. n : Zeros(n)[i] = 0
  BY <1>1 DEF Zeros
<1>3. counters' = Append(counters, Zeros(n))
  BY DEF Grown
<1> HIDE DEF n
<1>. QED BY <1>1, <1>2, <1>3
-----------------------------------------------------------------------------
(* Steps of the host.                                                       *)

(* The host leaves the running launch and its counters alone.               *)
LEMMA HostFrame ==
  ASSUME IInv, UNCHANGED <<call, pc, mem, seen>>,
         Len(counters') >= Len(counters), Len(counters') \in Nat,
         \A b \in 1 .. Len(counters) : counters'[b] = counters[b],
         \A b \in 1 .. Len(counters') : b > Len(counters) =>
           \A g \in 1 .. Len(counters'[b]) : counters'[b][g] = 0
  PROVE  CountersRest' /\ CountInv' /\ DataInv'
<1> USE DEF IInv
<1>1. Len(counters) \in Nat
  BY DEF TypeInv
<1>2. CountersRest'
  BY <1>1 DEF CountersRest
<1>3. CountInv'
  <2>1. \A g : Added(g)' = Added(g) /\ CountOf(g)' = CountOf(g)
    BY DEF Added, CountOf, GroupDone
  <2>2. ASSUME call.fused, NEW g \in 1 .. call.width
        PROVE  counters'[call.buf][g] = counters[call.buf][g]
    <3>1. call.buf \in 1 .. Len(counters)
      BY <2>2 DEF BufferInv, Fits
    <3>. QED BY <3>1
  <2>. QED BY <2>1, <2>2 DEF CountInv, GroupCounted
<1>4. DataInv'
  <2>1. \A g : Transformed(g)' = Transformed(g) /\ Group(g)' = Group(g)
    BY DEF Transformed, GroupDone, Group
  <2>. QED BY <2>1 DEF DataInv, GroupData
<1>. QED BY <1>2, <1>3, <1>4

LEMMA FitsStays ==
  ASSUME NEW launch, Fits(launch, counters), Len(counters) \in Nat,
         Len(counters') \in Nat, Len(counters') >= Len(counters),
         \A b \in 1 .. Len(counters) : counters'[b] = counters[b]
  PROVE  Fits(launch, counters')
BY DEF Fits

LEMMA Queued ==
  ASSUME TypeInv, NEW launch \in Launches, queue' = Append(queue, launch),
         \A i \in 1 .. Len(queue) : Fits(queue[i], counters'), Fits(launch, counters')
  PROVE  queue' \in Seq(Launches) /\ \A i \in 1 .. Len(queue') : Fits(queue'[i], counters')
<1>1. queue' \in Seq(Launches) /\ Len(queue') = Len(queue) + 1 /\ Len(queue) \in Nat
  BY DEF TypeInv
<1>2. \A i \in 1 .. Len(queue') :
        (i \in 1 .. Len(queue) /\ queue'[i] = queue[i]) \/ queue'[i] = launch
  BY <1>1 DEF TypeInv
<1>. QED BY <1>1, <1>2

LEMMA FusedLaunch ==
  ASSUME NEW width \in Widths, NEW buf \in Nat
  PROVE  /\ Fused(width, buf) \in Launches /\ Unfused(width) \in Launches
         /\ \A bufs : Fits(Unfused(width), bufs)
         /\ \A bufs : buf \in 1 .. Len(bufs) /\ width <= Len(bufs[buf]) => Fits(Fused(width, buf), bufs)
BY DEF Fused, Unfused, Launches, Fits

LEMMA LaunchStep ==
  ASSUME IInv, NEW width \in Widths, NEW fuse \in BOOLEAN, Launch(width, fuse)
  PROVE  IInv'
<1>1. counters \in Seq(Seq(Nat)) /\ Len(counters) \in Nat /\ width \in Nat
  BY HadAssumption DEF IInv, TypeInv
<1>2. \/ /\ counters' = counters
         /\ \/ queue' = Append(queue, Unfused(width))
            \/ Enough(width) /\ queue' = Append(queue, Fused(width, Len(counters)))
      \/ /\ counters' = Grown(width)
         /\ queue' = Append(queue, Fused(width, Len(counters')))
  BY DEF Launch, Latest
<1>3. /\ counters' \in Seq(Seq(Nat)) /\ Len(counters') \in Nat
      /\ Len(counters') >= Len(counters)
      /\ \A b \in 1 .. Len(counters) : counters'[b] = counters[b]
      /\ \A b \in 1 .. Len(counters') : b > Len(counters) =>
           \A g \in 1 .. Len(counters'[b]) : counters'[b][g] = 0
  <2>1. CASE counters' = counters
    BY <1>1, <2>1
  <2>2. CASE counters' = Grown(width)
    <3>1. /\ counters' \in Seq(Seq(Nat)) /\ Len(counters') = Len(counters) + 1
          /\ \A b \in 1 .. Len(counters) : counters'[b] = counters[b]
          /\ \A g \in 1 .. Len(counters'[Len(counters')]) : counters'[Len(counters')][g] = 0
      BY <1>1, <2>2, CountersGrown
    <3>2. Len(counters') \in Nat /\ Len(counters') >= Len(counters)
      BY <1>1, <3>1
    <3>3. ASSUME NEW b \in 1 .. Len(counters'), b > Len(counters)
          PROVE  \A g \in 1 .. Len(counters'[b]) : counters'[b][g] = 0
      <4>1. b = Len(counters')
        BY <1>1, <3>1, <3>3
      <4>. QED BY <3>1, <4>1
    <3>. QED BY <3>1, <3>2, <3>3
  <2>. QED BY <1>2, <2>1, <2>2
<1>4. \E launch \in Launches : queue' = Append(queue, launch) /\ Fits(launch, counters')
  <2>1. CASE queue' = Append(queue, Unfused(width))
    BY <2>1, FusedLaunch, <1>1
  <2>2. CASE counters' = counters /\ Enough(width) /\ queue' = Append(queue, Fused(width, Len(counters)))
    BY <2>2, FusedLaunch, <1>1 DEF Enough, Latest
  <2>3. CASE counters' = Grown(width) /\ queue' = Append(queue, Fused(width, Len(counters')))
    <3>1. Len(counters') = Len(counters) + 1 /\ Len(counters'[Len(counters')]) >= width
      BY <1>1, <2>3, CountersGrown
    <3>2. Len(counters') \in Nat /\ Len(counters') \in 1 .. Len(counters')
      BY <1>1, <3>1
    <3>. QED BY <2>3, <3>1, <3>2, FusedLaunch
  <2>. QED BY <1>2, <2>1, <2>2, <2>3
<1>5. UNCHANGED <<graph, call, pc, mem, seen>>
  BY DEF Launch
<1>6. CountersRest' /\ CountInv' /\ DataInv'
  BY <1>3, <1>5, HostFrame
<1>7. BufferInv' /\ queue' \in Seq(Launches)
  <2>1. \A i \in 1 .. Len(queue) : Fits(queue[i], counters')
    BY <1>1, <1>3, FitsStays DEF IInv, BufferInv
  <2>2. \A launch \in graph : Fits(launch, counters')
    BY <1>1, <1>3, FitsStays DEF IInv, BufferInv
  <2>3. Fits(call, counters')
    BY <1>1, <1>3, FitsStays DEF IInv, BufferInv
  <2>4. queue' \in Seq(Launches) /\ \A i \in 1 .. Len(queue') : Fits(queue'[i], counters')
    BY <1>4, <2>1, Queued DEF IInv
  <2>. QED BY <1>5, <2>2, <2>3, <2>4 DEF BufferInv
<1>8. TypeInv'
  BY <1>3, <1>5, <1>7 DEF IInv, TypeInv
<1>. QED BY <1>6, <1>7, <1>8 DEF IInv

LEMMA CaptureStep ==
  ASSUME IInv, NEW width \in Widths, NEW fuse \in BOOLEAN, Capture(width, fuse)
  PROVE  IInv'
<1>1. counters \in Seq(Seq(Nat)) /\ Len(counters) \in Nat /\ width \in Nat
  BY HadAssumption DEF IInv, TypeInv
<1>2. UNCHANGED <<counters, queue, call, pc, mem, seen>>
  BY DEF Capture
<1>3. CountersRest' /\ CountInv' /\ DataInv'
  BY <1>1, <1>2, HostFrame
<1>4. \E launch \in Launches : graph' = graph \cup {launch} /\ Fits(launch, counters)
  <2>1. CASE fuse /\ Enough(width)
    BY <1>1, <2>1, FusedLaunch DEF Capture, Enough, Latest
  <2>2. CASE ~(fuse /\ Enough(width))
    BY <1>1, <2>2, FusedLaunch DEF Capture
  <2>. QED BY <2>1, <2>2
<1>5. BufferInv' /\ TypeInv'
  BY <1>2, <1>4 DEF IInv, BufferInv, TypeInv
<1>. QED BY <1>3, <1>5 DEF IInv

LEMMA ReplayStep ==
  ASSUME IInv, NEW launch \in graph, Replay(launch)
  PROVE  IInv'
<1>1. Len(counters) \in Nat /\ launch \in Launches /\ Fits(launch, counters)
  BY DEF IInv, TypeInv, BufferInv
<1>2. UNCHANGED <<counters, graph, call, pc, mem, seen>> /\ queue' = Append(queue, launch)
  BY DEF Replay
<1>3. CountersRest' /\ CountInv' /\ DataInv'
  BY <1>1, <1>2, HostFrame
<1>4. queue' \in Seq(Launches) /\ \A i \in 1 .. Len(queue') : Fits(queue'[i], counters')
  BY <1>1, <1>2, Queued DEF IInv, BufferInv
<1>5. BufferInv' /\ TypeInv'
  BY <1>2, <1>4 DEF IInv, BufferInv, TypeInv
<1>. QED BY <1>3, <1>5 DEF IInv

-----------------------------------------------------------------------------
(* Steps of a program of a fused launch.                                    *)

(* A program's step is one of its own place.                                *)
LEMMA Moved ==
  ASSUME TypeInv, NEW p \in DOMAIN pc, NEW w, Goto(p, w)
  PROVE  /\ DOMAIN pc' = DOMAIN pc
         /\ p[1] \in 1 .. call.width /\ p[2] \in Tiles /\ p = <<p[1], p[2]>>
         /\ \A q \in DOMAIN pc : pc'[q] = IF q = p THEN w ELSE pc[q]
         /\ \A g \in 1 .. call.width : \A t \in Tiles :
              pc'[<<g, t>>] = IF g = p[1] /\ t = p[2] THEN w ELSE pc[<<g, t>>]
<1>1. DOMAIN pc = Programs(call.width)
  BY DEF TypeInv
<1>2. p[1] \in 1 .. call.width /\ p[2] \in Tiles /\ p = <<p[1], p[2]>>
  BY <1>1, ProgramParts
<1>3. DOMAIN pc' = DOMAIN pc /\ \A q \in DOMAIN pc : pc'[q] = IF q = p THEN w ELSE pc[q]
  BY DEF Goto
<1>4. ASSUME NEW g \in 1 .. call.width, NEW t \in Tiles
      PROVE  pc'[<<g, t>>] = IF g = p[1] /\ t = p[2] THEN w ELSE pc[<<g, t>>]
  <2>1. <<g, t>> \in DOMAIN pc
    BY <1>1, PartsProgram
  <2>2. <<g, t>> = p <=> g = p[1] /\ t = p[2]
    BY <1>2
  <2>. QED BY <1>3, <2>1, <2>2
<1>. QED BY <1>2, <1>3, <1>4

(* Other groups see nothing of it.                                          *)
LEMMA OtherGroups ==
  ASSUME TypeInv, NEW p \in DOMAIN pc, NEW w, Goto(p, w),
         NEW g \in 1 .. call.width, g # p[1]
  PROVE  /\ \A t \in Tiles : pc'[<<g, t>>] = pc[<<g, t>>]
         /\ Added(g)' = Added(g) /\ CountOf(g)' = CountOf(g)
         /\ Transformed(g)' = Transformed(g)
<1>1. \A t \in Tiles : pc'[<<g, t>>] = pc[<<g, t>>]
  BY Moved
<1>2. Added(g)' = Added(g) /\ GroupDone(g)' = GroupDone(g)
  BY <1>1 DEF Added, GroupDone
<1>. QED BY <1>1, <1>2 DEF CountOf, Transformed

LEMMA DeviceType ==
  ASSUME TypeInv, BufferInv, UNCHANGED <<graph, queue, call>>,
         counters' \in Seq(Seq(Nat)), Len(counters') = Len(counters),
         \A b \in 1 .. Len(counters) : Len(counters'[b]) = Len(counters[b]),
         DOMAIN pc' = DOMAIN pc, DOMAIN mem' = DOMAIN mem, DOMAIN seen' = DOMAIN seen,
         \A p \in DOMAIN pc : pc'[p] \in IF call.fused THEN FusedPcs ELSE UnfusedPcs
  PROVE  TypeInv' /\ BufferInv'
<1>1. TypeInv'
  BY DEF TypeInv
<1>2. \A launch : Fits(launch, counters) => Fits(launch, counters')
  BY DEF Fits
<1>3. BufferInv'
  BY <1>2 DEF BufferInv
<1>. QED BY <1>1, <1>3

(* The counters of the running launch exist.                                *)
LEMMA InBuffer ==
  ASSUME IInv, call.fused, NEW g \in 1 .. call.width
  PROVE  call.buf \in 1 .. Len(counters) /\ g \in 1 .. Len(counters[call.buf])
<1>1. call.width \in Nat /\ counters \in Seq(Seq(Nat))
  <2>1. counters \in Seq(Seq(Nat)) /\ call \in Launches \cup {NoCall}
    BY DEF IInv, TypeInv
  <2>2. call \in Launches
    BY <2>1 DEF NoCall
  <2>. QED BY <2>1, <2>2, WidthPositive
<1>2. call.buf \in 1 .. Len(counters) /\ call.width <= Len(counters[call.buf])
  BY DEF IInv, BufferInv, Fits
<1>. QED BY <1>1, <1>2

(* What is left to show of a step: its own group.                           *)
LEMMA FusedStep ==
  ASSUME IInv, NEW p \in DOMAIN pc, NEW w \in FusedPcs, Goto(p, w), call.fused,
         UNCHANGED <<graph, queue, call>>,
         counters' = counters
           \/ \E n \in Nat : counters' = [counters EXCEPT ![call.buf][p[1]] = n],
         DOMAIN mem' = DOMAIN mem, DOMAIN seen' = DOMAIN seen,
         \A g \in 1 .. call.width : g # p[1] =>
           seen'[g] = seen[g] /\ \A t \in Tiles : mem'[<<g, t>>] = mem[<<g, t>>],
         GroupCounted(p[1])', GroupData(p[1])'
  PROVE  IInv'
<1>1. TypeInv /\ BufferInv /\ CountersRest /\ CountInv /\ DataInv
  BY DEF IInv
<1>2. p[1] \in 1 .. call.width
  BY <1>1, Moved
<1>3. call.buf \in 1 .. Len(counters) /\ p[1] \in 1 .. Len(counters[call.buf])
  BY <1>2, InBuffer
<1>4. /\ counters' \in Seq(Seq(Nat)) /\ Len(counters') = Len(counters)
      /\ \A b \in 1 .. Len(counters) : Len(counters'[b]) = Len(counters[b])
      /\ \A b \in 1 .. Len(counters) : \A h \in 1 .. Len(counters[b]) :
           b # call.buf \/ h # p[1] => counters'[b][h] = counters[b][h]
  <2>1. counters \in Seq(Seq(Nat))
    BY <1>1 DEF TypeInv
  <2>2. CASE counters' = counters
    BY <2>1, <2>2
  <2>3. ASSUME NEW n \in Nat, counters' = [counters EXCEPT ![call.buf][p[1]] = n]
        PROVE  <1>4!1 /\ <1>4!2 /\ <1>4!3
    BY <1>3, <2>1, <2>3, CounterAssigned, SMTT(30)
  <2>. QED BY <2>2, <2>3
<1>5. TypeInv' /\ BufferInv'
  <2>1. DOMAIN pc' = DOMAIN pc
    BY <1>1, Moved
  <2>2. \A q \in DOMAIN pc : pc'[q] = IF q = p THEN w ELSE pc[q]
    BY DEF Goto
  <2>3. \A q \in DOMAIN pc : pc'[q] \in IF call.fused THEN FusedPcs ELSE UnfusedPcs
    BY <1>1, <2>2 DEF TypeInv
  <2>. QED BY <1>1, <1>4, <2>1, <2>3, DeviceType
<1>6. CountersRest'
  BY <1>1, <1>2, <1>4 DEF CountersRest
<1>7. ASSUME NEW g \in 1 .. call.width, g # p[1]
      PROVE  GroupCounted(g)' /\ GroupData(g)'
  <2>1. GroupCounted(g) /\ GroupData(g)
    BY <1>1 DEF CountInv, DataInv
  <2>2. counters'[call.buf][g] = counters[call.buf][g]
    <3>1. g \in 1 .. Len(counters[call.buf])
      BY <1>1, <1>7, HadAssumption, SMTT(20) DEF BufferInv, Fits, TypeInv, Launches, NoCall
    <3>. QED BY <1>3, <1>4, <1>7, <3>1
  <2>3. /\ \A t \in Tiles : pc'[<<g, t>>] = pc[<<g, t>>]
        /\ Added(g)' = Added(g) /\ CountOf(g)' = CountOf(g)
        /\ Transformed(g)' = Transformed(g)
    BY <1>1, <1>7, OtherGroups
  <2>4. GroupCounted(g)'
    BY <2>1, <2>2, <2>3 DEF GroupCounted
  <2>5. GroupData(g)'
    BY <1>7, <2>1, <2>3 DEF GroupData, Group
  <2>. QED BY <2>4, <2>5
<1>8. CountInv' /\ DataInv'
  <2>1. \A g \in 1 .. call.width : GroupCounted(g)' /\ GroupData(g)'
    BY <1>7
  <2>. QED BY <2>1 DEF CountInv, DataInv
<1>. QED BY <1>5, <1>6, <1>8 DEF IInv

(* The running program and its group before the step.                       *)
LEMMA Own ==
  ASSUME IInv, NEW p \in DOMAIN pc, NEW w, Goto(p, w), call.fused
  PROVE  /\ p[1] \in 1 .. call.width /\ p[2] \in Tiles /\ p = <<p[1], p[2]>>
         /\ pc[<<p[1], p[2]>>] = pc[p] /\ pc'[<<p[1], p[2]>>] = w
         /\ \A t \in Tiles : t # p[2] => pc'[<<p[1], t>>] = pc[<<p[1], t>>]
         /\ GroupCounted(p[1]) /\ GroupData(p[1])
<1>1. TypeInv /\ CountInv /\ DataInv
  BY DEF IInv
<1>2. p[1] \in 1 .. call.width /\ p[2] \in Tiles /\ p = <<p[1], p[2]>>
  BY <1>1, Moved
<1>3. ASSUME NEW t \in Tiles
      PROVE  pc'[<<p[1], t>>] = IF t = p[2] THEN w ELSE pc[<<p[1], t>>]
  BY <1>1, <1>2, Moved
<1>4. GroupCounted(p[1]) /\ GroupData(p[1])
  BY <1>1, <1>2 DEF CountInv, DataInv
<1>. QED BY <1>2, <1>3, <1>4

(* A step that neither adds nor completes nor finishes.                     *)
LEMMA CountStays ==
  ASSUME IInv, call.fused, UNCHANGED <<call, counters>>,
         NEW p \in DOMAIN pc, NEW w, Goto(p, w), pc[p] # "done", w # "done",
         pc[p] \in Adding <=> w \in Adding,
         pc[p] \in Completing <=> w \in Completing
  PROVE  /\ GroupCounted(p[1])' /\ Added(p[1])' = Added(p[1])
         /\ ~GroupDone(p[1]) /\ ~GroupDone(p[1])'
<1> DEFINE g == p[1]
<1>1. /\ p[2] \in Tiles /\ pc[<<g, p[2]>>] = pc[p] /\ pc'[<<g, p[2]>>] = w
      /\ \A t \in Tiles : t # p[2] => pc'[<<g, t>>] = pc[<<g, t>>]
      /\ GroupCounted(g)
  BY Own
<1>2. Added(g)' = Added(g)
  BY <1>1 DEF Added
<1>3. ~GroupDone(g) /\ ~GroupDone(g)'
  BY <1>1 DEF GroupDone
<1>4. CountOf(g)' = CountOf(g)
  BY <1>2, <1>3 DEF CountOf
<1>5. \A t \in Tiles : pc'[<<g, t>>] \in Completing <=> pc[<<g, t>>] \in Completing
  BY <1>1
<1>. QED BY <1>1, <1>2, <1>3, <1>4, <1>5 DEF GroupCounted

(* Nobody transforms a group before all its tiles were added.               *)
LEMMA NotTransformed ==
  ASSUME IInv, call.fused, NEW g \in 1 .. call.width, NEW t \in Tiles,
         pc[<<g, t>>] \notin Adding
  PROVE  ~Transformed(g) /\ \A u \in Tiles : pc[<<g, u>>] \notin Completing
<1>1. Added(g) # Tiles /\ ~GroupDone(g)
  BY DEF Added, GroupDone, Adding
<1>2. \A u \in Tiles : pc[<<g, u>>] \notin Completing
  BY <1>1 DEF IInv, CountInv, GroupCounted
<1>. QED BY <1>1, <1>2 DEF Transformed, Completing

LEMMA DotStep ==
  ASSUME IInv, NEW p \in DOMAIN pc, Dot(p)
  PROVE  IInv'
<1> DEFINE g == p[1]
<1>1. /\ call.fused /\ pc[p] = "dot" /\ Goto(p, "release")
      /\ UNCHANGED <<counters, graph, queue, call, mem, seen>>
  BY DEF Dot, At
<1>2. /\ g \in 1 .. call.width /\ p[2] \in Tiles
      /\ pc[<<g, p[2]>>] = "dot" /\ pc'[<<g, p[2]>>] = "release"
      /\ \A t \in Tiles : t # p[2] => pc'[<<g, t>>] = pc[<<g, t>>]
      /\ GroupData(g)
  BY <1>1, Own
<1>3. GroupCounted(g)' /\ ~GroupDone(g)'
  BY <1>1, CountStays DEF Adding, Completing
<1>4. ~Transformed(g)
  BY <1>1, <1>2, NotTransformed DEF Adding
<1>5. ~Transformed(g)'
  BY <1>2, <1>3, <1>4 DEF Transformed
<1>6. GroupData(g)'
  BY <1>1, <1>2, <1>4, <1>5 DEF GroupData, Adding, Group
<1>. QED BY <1>1, <1>3, <1>6, FusedStep DEF FusedPcs

LEMMA ReleaseStep ==
  ASSUME IInv, NEW p \in DOMAIN pc, call.fused, Release(p)
  PROVE  IInv'
<1> DEFINE g == p[1]
<1>1. /\ pc[p] = "release" /\ Goto(p, "add")
      /\ mem' = [mem EXCEPT ![p] = "dot"]
      /\ UNCHANGED <<counters, graph, queue, call, seen>>
  BY DEF Release, At
<1>2. /\ g \in 1 .. call.width /\ p[2] \in Tiles /\ p = <<g, p[2]>>
      /\ pc[<<g, p[2]>>] = "release" /\ pc'[<<g, p[2]>>] = "add"
      /\ \A t \in Tiles : t # p[2] => pc'[<<g, t>>] = pc[<<g, t>>]
      /\ GroupData(g)
  BY <1>1, Own
<1>3. GroupCounted(g)' /\ ~GroupDone(g)'
  BY <1>1, CountStays DEF Adding, Completing
<1>4. ~Transformed(g)
  BY <1>1, <1>2, NotTransformed DEF Adding
<1>5. ~Transformed(g)'
  BY <1>2, <1>3, <1>4 DEF Transformed
<1>6. /\ DOMAIN mem' = DOMAIN mem
      /\ \A h \in 1 .. call.width : \A t \in Tiles :
           mem'[<<h, t>>] = IF h = g /\ t = p[2] THEN "dot" ELSE mem[<<h, t>>]
  <2>1. DOMAIN mem = Programs(call.width)
    BY DEF IInv, TypeInv
  <2>2. ASSUME NEW h \in 1 .. call.width, NEW t \in Tiles
        PROVE  mem'[<<h, t>>] = IF h = g /\ t = p[2] THEN "dot" ELSE mem[<<h, t>>]
    <3>1. <<h, t>> \in DOMAIN mem
      BY <2>1, PartsProgram
    <3>2. <<h, t>> = p <=> h = g /\ t = p[2]
      BY <1>2
    <3>. QED BY <1>1, <3>1, <3>2
  <2>. QED BY <1>1, <2>2
<1>7. GroupData(g)'
  BY <1>1, <1>2, <1>4, <1>5, <1>6 DEF GroupData, Adding, Group
<1>8. \A h \in 1 .. call.width : h # g =>
        seen'[h] = seen[h] /\ \A t \in Tiles : mem'[<<h, t>>] = mem[<<h, t>>]
  BY <1>1, <1>6
<1>. QED BY <1>1, <1>3, <1>6, <1>7, <1>8, FusedStep DEF FusedPcs

LEMMA AddStep ==
  ASSUME IInv, NEW p \in DOMAIN pc, call.fused, Add(p)
  PROVE  IInv'
<1> DEFINE g == p[1]
           w == IF Completes(counters[call.buf][g]) THEN "acquire" ELSE "done"
<1>1. /\ pc[p] = "add" /\ Goto(p, w) /\ w \in {"acquire", "done"}
      /\ counters' = [counters EXCEPT ![call.buf][g] = @ + 1]
      /\ UNCHANGED <<graph, queue, call, mem, seen>>
  BY DEF Add, At
<1> HIDE DEF w
<1>2. /\ g \in 1 .. call.width /\ p[2] \in Tiles
      /\ pc[<<g, p[2]>>] = "add" /\ pc'[<<g, p[2]>>] = w
      /\ \A t \in Tiles : t # p[2] => pc'[<<g, t>>] = pc[<<g, t>>]
      /\ GroupCounted(g) /\ GroupData(g)
  BY <1>1, Own
<1>3. ~Transformed(g) /\ \A t \in Tiles : pc[<<g, t>>] \notin Completing
  BY <1>1, <1>2, NotTransformed DEF Adding
<1>4. Added(g)' = Added(g) \cup {p[2]} /\ p[2] \notin Added(g)
  BY <1>1, <1>2 DEF Added, Adding
<1>5. /\ Cardinality(Added(g)) \in Nat /\ Cardinality(Tiles) \in Nat
      /\ Cardinality(Added(g)') = Cardinality(Added(g)) + 1
      /\ Cardinality(Added(g)') = Cardinality(Tiles) <=> Added(g)' = Tiles
  BY <1>2, <1>4, AddedFinite, OneMoreAdded
<1>6. counters[call.buf][g] = Cardinality(Added(g))
  BY <1>2 DEF GroupCounted, CountOf, GroupDone
<1>7. w = "acquire" <=> Added(g)' = Tiles
  BY <1>1, <1>5, <1>6 DEF w, Completes
<1>8. ~GroupDone(g)'
  <2>1. CASE w = "acquire"
    BY <1>2, <2>1 DEF GroupDone
  <2>2. CASE Added(g)' # Tiles
    BY <2>2 DEF GroupDone, Added, Adding
  <2>. QED BY <1>7, <2>1, <2>2
<1>9. \E n \in Nat : /\ counters' = [counters EXCEPT ![call.buf][g] = n]
                     /\ counters'[call.buf][g] = n /\ n = Cardinality(Added(g)')
  <2>1. call.buf \in 1 .. Len(counters) /\ g \in 1 .. Len(counters[call.buf])
    BY <1>2, InBuffer
  <2>2. counters \in Seq(Seq(Nat))
    BY DEF IInv, TypeInv
  <2>3. Cardinality(Added(g)) + 1 \in Nat
    BY <1>5
  <2>4. counters' = [counters EXCEPT ![call.buf][g] = Cardinality(Added(g)) + 1]
    BY <1>1, <1>6
  <2>5. counters'[call.buf][g] = Cardinality(Added(g)) + 1
    BY <2>1, <2>2, <2>3, <2>4, CounterAssigned
  <2>. QED BY <1>5, <2>3, <2>4, <2>5
<1>10. GroupCounted(g)'
  <2>1. counters'[call.buf][g] = CountOf(g)'
    BY <1>8, <1>9 DEF CountOf
  <2>2. \A t \in Tiles : pc'[<<g, t>>] \in Completing => t = p[2] /\ w = "acquire"
    BY <1>1, <1>2, <1>3 DEF Completing
  <2>. QED BY <1>1, <1>7, <2>1, <2>2 DEF GroupCounted
<1>11. ~Transformed(g)'
  BY <1>1, <1>2, <1>3, <1>8 DEF Transformed, Completing
<1>12. GroupData(g)'
  BY <1>1, <1>2, <1>3, <1>11 DEF GroupData, Adding, Group
<1>13. w \in FusedPcs
  BY <1>1 DEF FusedPcs
<1>. QED BY <1>1, <1>9, <1>10, <1>12, <1>13, FusedStep

(* A completing program is alone in its group.                              *)
LEMMA Completer ==
  ASSUME IInv, call.fused, NEW g \in 1 .. call.width, NEW t \in Tiles,
         pc[<<g, t>>] \in Completing
  PROVE  /\ \A u \in Tiles : pc[<<g, u>>] \in Adding
         /\ \A u \in Tiles : u # t => pc[<<g, u>>] = "done"
<1>1. GroupCounted(g)
  BY DEF IInv, CountInv
<1>2. \A u \in Tiles : pc[<<g, u>>] \in Adding
  BY <1>1 DEF GroupCounted, Added
<1>3. \A u \in Tiles : u # t => pc[<<g, u>>] \notin Completing
  BY <1>1 DEF GroupCounted
<1>. QED BY <1>2, <1>3 DEF Adding, Completing

LEMMA AcquireStep ==
  ASSUME IInv, NEW p \in DOMAIN pc, call.fused, Acquire(p)
  PROVE  IInv'
<1> DEFINE g == p[1]
<1>1. /\ pc[p] = "acquire" /\ Goto(p, "transform")
      /\ seen' = [seen EXCEPT ![g] = {q \in Group(g) : mem[q] # "stale"}]
      /\ UNCHANGED <<counters, graph, queue, call, mem>>
  BY DEF Acquire, At
<1>2. /\ g \in 1 .. call.width /\ p[2] \in Tiles
      /\ pc[<<g, p[2]>>] = "acquire" /\ pc'[<<g, p[2]>>] = "transform"
      /\ \A t \in Tiles : t # p[2] => pc'[<<g, t>>] = pc[<<g, t>>]
      /\ GroupData(g)
  BY <1>1, Own
<1>3. GroupCounted(g)' /\ ~GroupDone(g) /\ ~GroupDone(g)'
  BY <1>1, CountStays DEF Adding, Completing
<1>4. /\ \A t \in Tiles : pc[<<g, t>>] \in Adding
      /\ \A t \in Tiles : t # p[2] => pc[<<g, t>>] = "done"
  BY <1>2, Completer DEF Completing
<1>5. ~Transformed(g) /\ ~Transformed(g)'
  BY <1>2, <1>3, <1>4 DEF Transformed
<1>6. \A t \in Tiles : mem[<<g, t>>] = "dot"
  BY <1>2, <1>4, <1>5 DEF GroupData
<1>7. seen'[g] = Group(g) /\ DOMAIN seen' = DOMAIN seen
      /\ \A h \in 1 .. call.width : h # g => seen'[h] = seen[h]
  <2>1. DOMAIN seen = 1 .. call.width
    BY DEF IInv, TypeInv
  <2>2. \A q \in Group(g) : mem[q] = "dot"
    BY <1>6 DEF Group
  <2>3. {q \in Group(g) : mem[q] # "stale"} = Group(g)
    BY <2>2
  <2>. QED BY <1>1, <1>2, <2>1, <2>3
<1>8. GroupData(g)'
  BY <1>1, <1>2, <1>5, <1>6, <1>7 DEF GroupData, Group
<1>. QED BY <1>1, <1>3, <1>7, <1>8, FusedStep DEF FusedPcs

LEMMA TransformStep ==
  ASSUME IInv, NEW p \in DOMAIN pc, call.fused, Transform(p)
  PROVE  IInv'
<1> DEFINE g == p[1]
<1>1. /\ pc[p] = "transform" /\ Goto(p, "reset")
      /\ UNCHANGED <<counters, graph, queue, call, seen>>
  BY DEF Transform, At
<1>2. /\ g \in 1 .. call.width /\ p[2] \in Tiles
      /\ pc[<<g, p[2]>>] = "transform" /\ pc'[<<g, p[2]>>] = "reset"
      /\ \A t \in Tiles : t # p[2] => pc'[<<g, t>>] = pc[<<g, t>>]
      /\ GroupData(g)
  BY <1>1, Own
<1>3. GroupCounted(g)' /\ ~GroupDone(g)
  BY <1>1, CountStays DEF Adding, Completing
<1>4. /\ \A t \in Tiles : pc[<<g, t>>] \in Adding
      /\ \A t \in Tiles : t # p[2] => pc[<<g, t>>] = "done"
  BY <1>2, Completer DEF Completing
<1>5. ~Transformed(g)
  BY <1>2, <1>3, <1>4 DEF Transformed
<1>6. \A t \in Tiles : mem[<<g, t>>] = "dot"
  BY <1>2, <1>4, <1>5 DEF GroupData
<1>7. \A q \in Group(g) : q \in Reads(p) /\ mem[q] = "dot"
  BY <1>2, <1>6 DEF Reads, Group, GroupData
<1>8. mem' = [q \in DOMAIN mem |-> IF q \in Group(g) THEN "had" ELSE mem[q]]
  BY <1>7 DEF Transform
<1>9. /\ DOMAIN mem' = DOMAIN mem
      /\ \A h \in 1 .. call.width : \A t \in Tiles :
           mem'[<<h, t>>] = IF h = g THEN "had" ELSE mem[<<h, t>>]
  <2>1. DOMAIN mem = Programs(call.width)
    BY DEF IInv, TypeInv
  <2>2. ASSUME NEW h \in 1 .. call.width, NEW t \in Tiles
        PROVE  mem'[<<h, t>>] = IF h = g THEN "had" ELSE mem[<<h, t>>]
    <3>1. <<h, t>> \in DOMAIN mem
      BY <2>1, PartsProgram
    <3>2. <<h, t>> \in Group(g) <=> h = g
      BY DEF Group
    <3>. QED BY <1>8, <3>1, <3>2
  <2>. QED BY <1>8, <2>2
<1>10. Transformed(g)' /\ \A t \in Tiles : pc'[<<g, t>>] # "transform"
  BY <1>2, <1>4 DEF Transformed
<1>11. GroupData(g)'
  BY <1>1, <1>2, <1>9, <1>10 DEF GroupData
<1>12. \A h \in 1 .. call.width : h # g =>
        seen'[h] = seen[h] /\ \A t \in Tiles : mem'[<<h, t>>] = mem[<<h, t>>]
  BY <1>1, <1>9
<1>. QED BY <1>1, <1>3, <1>9, <1>11, <1>12, FusedStep DEF FusedPcs

LEMMA ResetStep ==
  ASSUME IInv, NEW p \in DOMAIN pc, call.fused, Reset(p)
  PROVE  IInv'
<1> DEFINE g == p[1]
<1>1. /\ pc[p] = "reset" /\ Goto(p, "done")
      /\ counters' = [counters EXCEPT ![call.buf][g] = 0]
      /\ UNCHANGED <<graph, queue, call, mem, seen>>
  BY DEF Reset, At
<1>2. /\ g \in 1 .. call.width /\ p[2] \in Tiles
      /\ pc[<<g, p[2]>>] = "reset" /\ pc'[<<g, p[2]>>] = "done"
      /\ \A t \in Tiles : t # p[2] => pc'[<<g, t>>] = pc[<<g, t>>]
      /\ GroupData(g)
  BY <1>1, Own
<1>3. \A t \in Tiles : t # p[2] => pc[<<g, t>>] = "done"
  BY <1>2, Completer DEF Completing
<1>4. \A t \in Tiles : pc'[<<g, t>>] = "done"
  BY <1>2, <1>3
<1>5. GroupDone(g)' /\ Transformed(g) /\ Transformed(g)'
  BY <1>2, <1>4 DEF GroupDone, Transformed
<1>6. counters'[call.buf][g] = 0
  <2>1. call.buf \in 1 .. Len(counters) /\ g \in 1 .. Len(counters[call.buf])
    BY <1>2, InBuffer
  <2>2. counters \in Seq(Seq(Nat))
    BY DEF IInv, TypeInv
  <2>. QED BY <1>1, <2>1, <2>2, CounterAssigned
<1>7. GroupCounted(g)'
  <2>1. CountOf(g)' = 0
    BY <1>5 DEF CountOf
  <2>2. \A t \in Tiles : pc'[<<g, t>>] \notin Completing
    BY <1>4 DEF Completing
  <2>. QED BY <1>1, <1>6, <2>1, <2>2 DEF GroupCounted
<1>8. GroupData(g)'
  BY <1>1, <1>2, <1>4, <1>5 DEF GroupData
<1>. QED BY <1>1, <1>7, <1>8, FusedStep DEF FusedPcs

(* Only a fused launch is ever at these places.                             *)
LEMMA FusedPlaces ==
  ASSUME IInv, NEW p \in DOMAIN pc,
         pc[p] \in {"release", "add", "acquire", "transform", "reset"}
  PROVE  call.fused
BY DEF IInv, TypeInv, UnfusedPcs
-----------------------------------------------------------------------------
(* Steps of a launch of the three-launch form, and of the stream.           *)

LEMMA UnfusedCounts ==
  ASSUME IInv, ~call.fused, UNCHANGED <<call, counters>>
  PROVE  CountersRest' /\ CountInv'
BY DEF IInv, CountersRest, CountInv

LEMMA DotOnlyStep ==
  ASSUME IInv, NEW p \in DOMAIN pc, DotOnly(p)
  PROVE  IInv'
<1>1. /\ ~call.fused /\ Goto(p, "stored") /\ mem' = [mem EXCEPT ![p] = "dot"]
      /\ UNCHANGED <<counters, graph, queue, call, seen>>
  BY DEF DotOnly
<1>2. TypeInv /\ BufferInv /\ DataInv /\ counters \in Seq(Seq(Nat))
  BY DEF IInv, TypeInv
<1>3. DOMAIN pc' = DOMAIN pc /\ \A q \in DOMAIN pc : pc'[q] = IF q = p THEN "stored" ELSE pc[q]
  BY <1>1 DEF Goto
<1>4. \A q \in DOMAIN pc : pc'[q] \in UnfusedPcs
  BY <1>1, <1>2, <1>3 DEF TypeInv, UnfusedPcs
<1>5. TypeInv' /\ BufferInv'
  BY <1>1, <1>2, <1>3, <1>4, DeviceType
<1>6. DataInv'
  <2>1. DOMAIN mem = DOMAIN pc
    BY <1>2 DEF TypeInv
  <2>2. \A q \in DOMAIN pc : pc'[q] = "done" => mem'[q] = "had"
    BY <1>1, <1>2, <1>3, <2>1 DEF DataInv
  <2>. QED BY <1>1, <1>3, <2>2 DEF DataInv
<1>. QED BY <1>1, <1>5, <1>6, UnfusedCounts DEF IInv

(* A running launch has programs.                                           *)
LEMMA SomeProgram ==
  ASSUME IInv, call # NoCall
  PROVE  call \in Launches /\ DOMAIN pc # {}
<1>1. call \in Launches
  BY DEF IInv, TypeInv
<1>2. 1 \in 1 .. call.width
  BY <1>1, WidthPositive
<1>3. PICK t \in Tiles : TRUE
  BY HadAssumption
<1>4. <<1, t>> \in DOMAIN pc
  BY <1>2, PartsProgram DEF IInv, TypeInv
<1>. QED BY <1>1, <1>4

LEMMA HadKernelStep ==
  ASSUME IInv, HadKernel
  PROVE  IInv'
<1>1. /\ call # NoCall /\ \A p \in DOMAIN pc : pc[p] = "stored"
      /\ mem' = [p \in DOMAIN mem |-> "had"] /\ pc' = [p \in DOMAIN pc |-> "done"]
      /\ UNCHANGED <<counters, graph, queue, call, seen>>
  BY DEF HadKernel
<1>2. TypeInv /\ BufferInv /\ counters \in Seq(Seq(Nat))
  BY DEF IInv, TypeInv
<1>3. ~call.fused
  BY <1>1, <1>2, SomeProgram DEF TypeInv, FusedPcs
<1>4. TypeInv' /\ BufferInv'
  <2>1. \A p \in DOMAIN pc : pc'[p] \in UnfusedPcs
    BY <1>1 DEF UnfusedPcs
  <2>. QED BY <1>1, <1>2, <1>3, <2>1, DeviceType
<1>5. DataInv'
  BY <1>1, <1>2, <1>3 DEF DataInv, TypeInv
<1>. QED BY <1>1, <1>3, <1>4, <1>5, UnfusedCounts DEF IInv

LEMMA BeginStep ==
  ASSUME IInv, Begin
  PROVE  IInv'
<1>1. /\ call = NoCall /\ queue # <<>> /\ call' = Head(queue) /\ queue' = Tail(queue)
      /\ pc' = [p \in Programs(call'.width) |-> "dot"]
      /\ mem' = [p \in Programs(call'.width) |-> "stale"]
      /\ seen' = [g \in 1 .. call'.width |-> {}]
      /\ UNCHANGED <<counters, graph>>
  BY DEF Begin
<1>2. TypeInv /\ BufferInv /\ CountersRest
  BY DEF IInv
<1>3. /\ Len(queue) \in Nat \ {0} /\ call' = queue[1] /\ call' \in Launches
      /\ queue' \in Seq(Launches) /\ Len(queue') = Len(queue) - 1
      /\ \A i \in 1 .. Len(queue') : i + 1 \in 1 .. Len(queue) /\ queue'[i] = queue[i + 1]
  BY <1>1, <1>2 DEF TypeInv
<1>4. TypeInv'
  <2>1. \A p \in DOMAIN pc' : pc'[p] \in IF call'.fused THEN FusedPcs ELSE UnfusedPcs
    BY <1>1 DEF FusedPcs, UnfusedPcs
  <2>. QED BY <1>1, <1>2, <1>3, <2>1 DEF TypeInv
<1>5. BufferInv'
  <2>1. 1 \in 1 .. Len(queue)
    BY <1>3
  <2>2. Fits(call', counters') /\ \A i \in 1 .. Len(queue') : Fits(queue'[i], counters')
    BY <1>1, <1>2, <1>3, <2>1 DEF BufferInv
  <2>. QED BY <1>1, <1>2, <2>2 DEF BufferInv
<1>6. \A b \in 1 .. Len(counters) : \A g \in 1 .. Len(counters[b]) : counters[b][g] = 0
  BY <1>1, <1>2 DEF CountersRest, NoCall
<1>7. CountersRest'
  BY <1>1, <1>6 DEF CountersRest
<1>8. ASSUME call'.fused, NEW g \in 1 .. call'.width
      PROVE  GroupCounted(g)' /\ GroupData(g)'
  <2>1. \A t \in Tiles : pc'[<<g, t>>] = "dot"
    BY <1>1, PartsProgram
  <2>2. ~GroupDone(g)' /\ Added(g)' = {}
    BY <2>1, HadAssumption DEF GroupDone, Added, Adding
  <2>3. CountOf(g)' = 0
    BY <2>2, FS_EmptySet DEF CountOf
  <2>4. counters'[call'.buf][g] = 0
    <3>1. call'.buf \in 1 .. Len(counters) /\ g \in 1 .. Len(counters[call'.buf])
      <4>1. call'.buf \in 1 .. Len(counters) /\ call'.width <= Len(counters[call'.buf])
        BY <1>1, <1>5, <1>8 DEF BufferInv, Fits
      <4>2. call'.width \in Nat /\ Len(counters[call'.buf]) \in Nat
        BY <1>2, <1>3, <4>1, WidthPositive DEF TypeInv
      <4>. QED BY <4>1, <4>2
    <3>. QED BY <1>1, <1>6, <3>1
  <2>5. \A t \in Tiles : pc'[<<g, t>>] \notin Completing
    BY <2>1 DEF Completing
  <2>6. GroupCounted(g)'
    BY <2>3, <2>4, <2>5 DEF GroupCounted
  <2>7. ~Transformed(g)'
    BY <2>1, <2>2 DEF Transformed
  <2>8. GroupData(g)'
    BY <2>1, <2>7 DEF GroupData, Adding
  <2>. QED BY <2>6, <2>8
<1>9. CountInv'
  BY <1>8 DEF CountInv
<1>10. DataInv'
  BY <1>1, <1>8 DEF DataInv
<1>. QED BY <1>4, <1>5, <1>7, <1>9, <1>10 DEF IInv

(* Nothing runs: what the invariant says of no launch.                      *)
LEMMA Nothing ==
  /\ DOMAIN <<>> = Programs(NoCall.width) /\ DOMAIN <<>> = 1 .. NoCall.width
  /\ ~NoCall.fused
BY DEF Programs, NoCall

LEMMA EndStep ==
  ASSUME IInv, End
  PROVE  IInv'
<1>1. /\ \A p \in DOMAIN pc : pc[p] = "done"
      /\ call' = NoCall /\ pc' = <<>> /\ mem' = <<>> /\ seen' = <<>>
      /\ UNCHANGED <<counters, graph, queue>>
  BY DEF End, AllDone
<1>2. TypeInv /\ BufferInv /\ CountersRest /\ CountInv
  BY DEF IInv
<1>3. TypeInv'
  BY <1>1, <1>2, Nothing DEF TypeInv
<1>4. BufferInv'
  BY <1>1, <1>2, Nothing DEF BufferInv, Fits
<1>5. CountersRest'
  <2>1. ASSUME call.fused, NEW g \in 1 .. call.width PROVE counters[call.buf][g] = 0
    <3>1. \A t \in Tiles : pc[<<g, t>>] = "done"
      BY <1>1, <1>2, PartsProgram DEF TypeInv
    <3>2. CountOf(g) = 0
      BY <3>1 DEF CountOf, GroupDone
    <3>. QED BY <1>2, <2>1, <3>2 DEF CountInv, GroupCounted
  <2>2. ASSUME NEW b \in 1 .. Len(counters), NEW g \in 1 .. Len(counters[b])
        PROVE  counters[b][g] = 0
    <3>1. CASE call.fused /\ b = call.buf /\ g <= call.width
      <4>1. call.width \in Nat
        <5>1. call \in Launches
          BY <1>2, <3>1 DEF TypeInv, NoCall
        <5>. QED BY <5>1, WidthPositive
      <4>2. g \in 1 .. call.width
        BY <3>1, <4>1
      <4>. QED BY <2>1, <3>1, <4>2
    <3>2. CASE ~(call.fused /\ b = call.buf /\ g <= call.width)
      BY <1>2, <3>2 DEF CountersRest
    <3>. QED BY <3>1, <3>2
  <2>. QED BY <1>1, <2>2 DEF CountersRest
<1>6. CountInv' /\ DataInv'
  BY <1>1, Nothing DEF CountInv, DataInv
<1>. QED BY <1>3, <1>4, <1>5, <1>6 DEF IInv
-----------------------------------------------------------------------------
LEMMA InitIInv == Init => IInv
<1> SUFFICES ASSUME Init PROVE IInv
  OBVIOUS
<1>1. /\ counters = <<>> /\ graph = {} /\ queue = <<>>
      /\ call = NoCall /\ pc = <<>> /\ mem = <<>> /\ seen = <<>>
  BY DEF Init
<1>2. TypeInv /\ BufferInv
  BY <1>1, Nothing DEF TypeInv, BufferInv, Fits
<1>3. CountersRest /\ CountInv /\ DataInv
  BY <1>1, Nothing DEF CountersRest, CountInv, DataInv
<1>. QED BY <1>2, <1>3 DEF IInv

LEMMA StepIInv == IInv /\ [Next]_vars => IInv'
<1> SUFFICES ASSUME IInv, [Next]_vars PROVE IInv'
  OBVIOUS
<1>1. ASSUME NEW width \in Widths, NEW fuse \in BOOLEAN, Launch(width, fuse) PROVE IInv'
  BY <1>1, LaunchStep
<1>2. ASSUME NEW width \in Widths, NEW fuse \in BOOLEAN, Capture(width, fuse) PROVE IInv'
  BY <1>2, CaptureStep
<1>3. ASSUME NEW launch \in graph, Replay(launch) PROVE IInv'
  BY <1>3, ReplayStep
<1>4. CASE Begin
  BY <1>4, BeginStep
<1>5. CASE HadKernel
  BY <1>5, HadKernelStep
<1>6. CASE End
  BY <1>6, EndStep
<1>7. ASSUME NEW p \in DOMAIN pc, Program(p) PROVE IInv'
  <2>1. CASE Dot(p)
    BY <2>1, DotStep
  <2>2. CASE Release(p)
    BY <2>2, FusedPlaces, ReleaseStep DEF Release, At
  <2>3. CASE Add(p)
    BY <2>3, FusedPlaces, AddStep DEF Add, At
  <2>4. CASE Acquire(p)
    BY <2>4, FusedPlaces, AcquireStep DEF Acquire, At
  <2>5. CASE Transform(p)
    BY <2>5, FusedPlaces, TransformStep DEF Transform, At
  <2>6. CASE Reset(p)
    BY <2>6, FusedPlaces, ResetStep DEF Reset, At
  <2>7. CASE DotOnly(p)
    BY <2>7, DotOnlyStep
  <2>. QED BY <1>7, <2>1, <2>2, <2>3, <2>4, <2>5, <2>6, <2>7 DEF Program
<1>8. CASE UNCHANGED vars
  <2>1. UNCHANGED <<call, pc, mem, seen>> /\ counters' = counters /\ Len(counters) \in Nat
    BY <1>8 DEF vars, IInv, TypeInv
  <2>2. CountersRest' /\ CountInv' /\ DataInv'
    BY <2>1, HostFrame
  <2>3. TypeInv' /\ BufferInv'
    BY <1>8 DEF vars, IInv, TypeInv, BufferInv
  <2>. QED BY <2>2, <2>3 DEF IInv
<1>. QED BY <1>1, <1>2, <1>3, <1>4, <1>5, <1>6, <1>7, <1>8 DEF Next

(* What a counter means holds in every reachable state.                     *)
THEOREM Invariance == Spec => []IInv
BY InitIInv, StepIInv, PTL DEF Spec

(* A finished launch transformed every group once, from finished products.  *)
THEOREM EveryOutputTransformed == Spec => []OutputTransformed
<1>1. IInv => OutputTransformed
  <2> SUFFICES ASSUME IInv, AllDone, NEW p \in DOMAIN mem PROVE mem[p] = "had"
    BY DEF OutputTransformed
  <2>1. DOMAIN mem = Programs(call.width) /\ DOMAIN pc = Programs(call.width)
    BY DEF IInv, TypeInv
  <2>2. pc[p] = "done"
    BY <2>1 DEF AllDone
  <2>3. CASE ~call.fused
    BY <2>1, <2>2, <2>3 DEF IInv, DataInv
  <2>4. CASE call.fused
    <3>1. p[1] \in 1 .. call.width /\ p[2] \in Tiles /\ p = <<p[1], p[2]>>
      BY <2>1, ProgramParts
    <3>2. \A t \in Tiles : pc[<<p[1], t>>] = "done"
      BY <2>1, <3>1, PartsProgram DEF AllDone
    <3>3. GroupData(p[1]) /\ Transformed(p[1])
      BY <2>4, <3>1, <3>2 DEF IInv, DataInv, Transformed, GroupDone
    <3>. QED BY <3>1, <3>3 DEF GroupData
  <2>. QED BY <2>3, <2>4
<1>. QED BY <1>1, Invariance, PTL

(* Between launches every counter of every buffer is zero.                  *)
THEOREM CountersAtRest == Spec => []CountersRest
<1>1. IInv => CountersRest
  BY DEF IInv
<1>. QED BY <1>1, Invariance, PTL
=============================================================================
