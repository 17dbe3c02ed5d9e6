------------------------------ MODULE WriteOnce ------------------------------
(***************************************************************************)
(* What "frozen" promises: named artifacts, each absent until it is         *)
(* written, whole, and the same ever after.                                 *)
(***************************************************************************)
CONSTANTS Names, Contents, Absent

VARIABLE artifact

Init == artifact = [n \in Names |-> Absent]

Freeze(n) ==
  /\ artifact[n] = Absent
  /\ \E v \in Contents : artifact' = [artifact EXCEPT ![n] = v]

Next == \E n \in Names : Freeze(n)

Spec == Init /\ [][Next]_artifact
=============================================================================
