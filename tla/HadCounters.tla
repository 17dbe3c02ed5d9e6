------------------------------ MODULE HadCounters ------------------------------
(***************************************************************************)
(* The fused-output GEMV of the exllamav3 fork (candidate 0008 in           *)
(* patches/experimental-full.patch, made replayable by the plugin's         *)
(* 0003-fused-had-graph-capture.patch).  One program per 16-column tile     *)
(* computes its dot products; the program whose atomicAdd completes a group *)
(* of 128 columns transforms the group in place and resets the group's      *)
(* counter.  The counters belong to the device: every fused launch and      *)
(* every replay of a captured one uses them, so each launch has to leave    *)
(* them as it found them.                                                   *)
(*                                                                          *)
(* The host calls ahead of the device: launches wait in the one compute     *)
(* stream and run one after the other, and their programs run in any order. *)
(* A program's stores are certain to be in device memory once it released   *)
(* them, and certain to be seen by another program once that one acquired.  *)
(* Groups count from 1.                                                     *)
(***************************************************************************)
EXTENDS Integers, Sequences, FiniteSets

CONSTANTS
  Tiles,      \* the tiles of a 128-column group: eight
  Widths,     \* groups of the matrices that are multiplied
  MinGroups,  \* counters of the first allocation: 2048
  MaxQueue    \* bound: launches waiting in the stream

ASSUME HadAssumption ==
  /\ IsFiniteSet(Tiles) /\ Tiles # {}
  /\ Widths \subseteq Nat \ {0} /\ MinGroups \in Nat /\ MaxQueue \in Nat

VARIABLES
  counters,  \* counter buffers in the order of their allocation: the map holds
             \* the last one, the others are never freed
  graph,     \* launches recorded in captured graphs
  queue,     \* launches waiting in the stream: [width, buf, fused]
  call,      \* the running launch
  pc,        \* program <<group, tile>> -> where it is
  mem,       \* tile <<group, tile>> -> what device memory holds of its 16 outputs:
             \* "stale", "dot", "had" (transformed) or "mixed" (transformed too early)
  seen       \* group -> tiles whose stores its completing program has acquired

vars == <<counters, graph, queue, call, pc, mem, seen>>

NoCall == [width |-> 0, buf |-> 0, fused |-> FALSE]
Programs(width) == (1 .. width) \X Tiles
Zeros(n) == [i \in 1 .. n |-> 0]
Larger(a, b) == IF a >= b THEN a ELSE b
-----------------------------------------------------------------------------
(* The host: exl3_gemv_rdna_launch and exl3_gemv_had_counters.              *)

Latest == Len(counters)
Enough(width) == Latest > 0 /\ Len(counters[Latest]) >= width

Fused(width, buf) == [width |-> width, buf |-> buf, fused |-> TRUE]
Unfused(width) == [width |-> width, buf |-> 0, fused |-> FALSE]

(* Mutant: the buffer grows in place, and is zeroed under a running launch. *)
GrownInPlace(width) ==
  LET new == Zeros(Larger(width, MinGroups))
  IN IF Latest = 0 THEN <<new>> ELSE [counters EXCEPT ![Latest] = new]

(* A larger buffer takes the old one's place in the map.                    *)
Grown(width) == Append(counters, Zeros(Larger(width, MinGroups)))

(* An eager call; EXL3_GEMV_FUSED_HAD is read each time (fuse).             *)
Launch(width, fuse) ==
  /\ Len(queue) < MaxQueue
  /\ \/ ~fuse /\ queue' = Append(queue, Unfused(width)) /\ UNCHANGED counters
     \/ /\ fuse /\ Enough(width)
        /\ queue' = Append(queue, Fused(width, Latest)) /\ UNCHANGED counters
     \/ /\ fuse /\ ~Enough(width)
        /\ counters' = Grown(width)
        /\ queue' = Append(queue, Fused(width, Len(counters')))
     \/ /\ fuse /\ ~Enough(width)  \* the allocation fails
        /\ queue' = Append(queue, Unfused(width)) /\ UNCHANGED counters
  /\ UNCHANGED <<graph, call, pc, mem, seen>>

(* A call that a capture records allocates nothing.                         *)
Capture(width, fuse) ==
  /\ graph' = graph \cup {IF fuse /\ Enough(width) THEN Fused(width, Latest) ELSE Unfused(width)}
  /\ UNCHANGED <<counters, queue, call, pc, mem, seen>>

Replay(launch) ==
  /\ Len(queue) < MaxQueue
  /\ queue' = Append(queue, launch)
  /\ UNCHANGED <<counters, graph, call, pc, mem, seen>>
-----------------------------------------------------------------------------
(* The device: launches in stream order.                                    *)

Begin ==
  /\ call = NoCall /\ queue # <<>>
  /\ call' = Head(queue) /\ queue' = Tail(queue)
  /\ pc' = [p \in Programs(call'.width) |-> "dot"]
  /\ mem' = [p \in Programs(call'.width) |-> "stale"]
  /\ seen' = [g \in 1 .. call'.width |-> {}]
  /\ UNCHANGED <<counters, graph>>

(* Programs of exl3_gemv_dot_had_kernel and exl3_gemv_dot_had_kernel_splitk. *)
At(p, where) == p \in DOMAIN pc /\ pc[p] = where
Goto(p, where) == pc' = [pc EXCEPT ![p] = where]
Group(g) == {g} \X Tiles

(* The dot products, stored but not yet released.                           *)
Dot(p) ==
  /\ call.fused /\ At(p, "dot")
  /\ Goto(p, "release")
  /\ UNCHANGED <<counters, graph, queue, call, mem, seen>>

Release(p) ==
  /\ At(p, "release")
  /\ mem' = [mem EXCEPT ![p] = "dot"]
  /\ Goto(p, "add")
  /\ UNCHANGED <<counters, graph, queue, call, seen>>

(* Mutant: one tile too early.                                              *)
CompletesEarly(count) == count >= Cardinality(Tiles) - 2

(* atomicAdd(&counters[tile_n >> 3], 1) == 7                                *)
Completes(count) == count = Cardinality(Tiles) - 1

Add(p) ==
  /\ At(p, "add")
  /\ counters' = [counters EXCEPT ![call.buf][p[1]] = @ + 1]
  /\ Goto(p, IF Completes(counters[call.buf][p[1]]) THEN "acquire" ELSE "done")
  /\ UNCHANGED <<graph, queue, call, mem, seen>>

Acquire(p) ==
  /\ At(p, "acquire")
  /\ seen' = [seen EXCEPT ![p[1]] = {q \in Group(p[1]) : mem[q] # "stale"}]
  /\ Goto(p, "transform")
  /\ UNCHANGED <<counters, graph, queue, call, mem>>

(* Mutant: without the acquire only the program's own tile is certain.      *)
ReadsUnacquired(p) == {p}

Reads(p) == {p} \cup seen[p[1]]

(* exl3_gemv_had_out_1warp: the whole group, in place.                      *)
Transform(p) ==
  /\ At(p, "transform")
  /\ LET whole == \A q \in Group(p[1]) : q \in Reads(p) /\ mem[q] = "dot"
     IN mem' = [q \in DOMAIN mem |->
                  IF q \in Group(p[1]) THEN IF whole THEN "had" ELSE "mixed" ELSE mem[q]]
  /\ Goto(p, "reset")
  /\ UNCHANGED <<counters, graph, queue, call, seen>>

(* Mutant: the counters are zeroed once, at their allocation.               *)
NotReset(p) ==
  /\ At(p, "reset")
  /\ Goto(p, "done")
  /\ UNCHANGED <<counters, graph, queue, call, mem, seen>>

Reset(p) ==
  /\ At(p, "reset")
  /\ counters' = [counters EXCEPT ![call.buf][p[1]] = 0]
  /\ Goto(p, "done")
  /\ UNCHANGED <<graph, queue, call, mem, seen>>

(* Three launches: the dot kernel's end publishes its stores, and the       *)
(* transform is a kernel of its own.                                        *)
DotOnly(p) ==
  /\ call # NoCall /\ ~call.fused /\ At(p, "dot")
  /\ mem' = [mem EXCEPT ![p] = "dot"]
  /\ Goto(p, "stored")
  /\ UNCHANGED <<counters, graph, queue, call, seen>>

HadKernel ==
  /\ call # NoCall /\ \A p \in DOMAIN pc : pc[p] = "stored"
  /\ mem' = [p \in DOMAIN mem |-> "had"]
  /\ pc' = [p \in DOMAIN pc |-> "done"]
  /\ UNCHANGED <<counters, graph, queue, call, seen>>

AllDone == call # NoCall /\ \A p \in DOMAIN pc : pc[p] = "done"

End ==
  /\ AllDone
  /\ call' = NoCall /\ pc' = <<>> /\ mem' = <<>> /\ seen' = <<>>
  /\ UNCHANGED <<counters, graph, queue>>

Program(p) ==
  \/ Dot(p) \/ Release(p) \/ Add(p) \/ Acquire(p) \/ Transform(p) \/ Reset(p)
  \/ DotOnly(p)

Init ==
  /\ counters = <<>> /\ graph = {} /\ queue = <<>>
  /\ call = NoCall /\ pc = <<>> /\ mem = <<>> /\ seen = <<>>

Next ==
  \/ \E width \in Widths, fuse \in BOOLEAN : Launch(width, fuse) \/ Capture(width, fuse)
  \/ \E launch \in graph : Replay(launch)
  \/ Begin \/ HadKernel \/ End
  \/ \E p \in DOMAIN pc : Program(p)

Spec == Init /\ [][Next]_vars
-----------------------------------------------------------------------------
(* Properties                                                               *)

(* When a launch has finished, every output was transformed once, from the  *)
(* finished dot products of all tiles of its group, in whatever order the   *)
(* programs ran: what the three-launch form computes                        *)
(* (exl3_gemv_dot_had_kernel, tests/test_fused_had.py).                     *)
OutputTransformed == AllDone => \A p \in DOMAIN mem : mem[p] = "had"

(* Every counter that the running launch does not use is zero, in the       *)
(* buffer of the map and in those that captured graphs still hold: any      *)
(* launch may be next (exl3_gemv_had_counters).                             *)
CountersRest ==
  \A b \in 1 .. Len(counters) : \A g \in 1 .. Len(counters[b]) :
    counters[b][g] # 0 => call.fused /\ b = call.buf /\ g <= call.width
=============================================================================
