------------------------ MODULE ExperimentController ------------------------
(***************************************************************************)
(* tools/run_candidate.py: runners that take experiments through their     *)
(* stages under a host-wide GPU lock, and what tools/compare.py reads from *)
(* the ledger (results.jsonl) they share.                                  *)
(*                                                                         *)
(* A runner is one invocation of the controller.  It starts each stage as  *)
(* a process of its own; that process, or one it started, may outlive the  *)
(* stage, its timeout or the runner itself.  Whoever rebuilds a binary, and  *)
(* an operator who wraps commands in the same lock, are not controlled.    *)
(*                                                                         *)
(* Of the frozen inputs only the binary can change here; of a metrics file *)
(* the model keeps who wrote it and whether run_stage finds fault with it. *)
(***************************************************************************)
EXTENDS Integers, Sequences, FiniteSets, SequencesExt

CONSTANTS
  Runners,      \* invocations of the controller
  Experiments,  \* experiment directories
  Versions,     \* contents of a binary
  Recorded,     \* source.binary_sha256 of the experiment records
  Operator,     \* someone else who may hold the GPU lock
  Nobody,       \* no holder, no writer
  Defined,      \* experiment -> the stages its record has
  Forking,      \* the stages that may leave a process behind when they exit
  MaxRebuilds   \* bound: times a binary is replaced

STAGE_ORDER == <<"build", "correctness", "microbench", "model_correct", "generation">>
STATE_AFTER == [build |-> "BUILT", correctness |-> "CORRECT", microbench |-> "MICROBENCH_PASSED",
                model_correct |-> "MODEL_CORRECT", generation |-> "GENERATION_COMPLETE"]
StageIds == {"build", "correctness", "microbench", "model_correct", "generation"}

ASSUME ControllerAssumption ==
  /\ Recorded \in Versions /\ Forking \subseteq StageIds /\ MaxRebuilds \in Nat
  /\ Operator \notin Runners /\ Nobody \notin Runners \union {Operator}
  /\ Defined \in [Experiments -> SUBSET StageIds]

VARIABLES
  binary,    \* experiment -> content of source.binary
  rebuilds,  \* bound: rebuilds so far
  ledger,    \* experiment -> the records of results.jsonl
  metrics,   \* experiment -> stage -> its metrics file
  lock,      \* who holds the GPU lock
  pc,        \* runner -> where main() is
  job,       \* runner -> its experiment
  at,        \* runner -> index of its stage
  pre,       \* runner -> pre_binary_hash of its stage
  child,     \* runner -> the state of its stage process
  used,      \* runner -> the binary its stage process loaded
  outcome,   \* runner -> what run_stage returned
  orphans,   \* stage processes nobody waits for any more
  orphaned   \* history: experiments that ever had one

ghosts == <<orphans, orphaned>>
local == <<job, at, pre, child, used, outcome>>
vars == <<binary, rebuilds, ledger, metrics, lock, pc, local, ghosts>>

NoFile == [by |-> Nobody, val |-> "absent"]
NoOutcome == [ok |-> TRUE, reason |-> "none"]

Init ==
  /\ binary = [x \in Experiments |-> Recorded] /\ rebuilds = 0
  /\ ledger = [x \in Experiments |-> <<>>]
  /\ metrics = [x \in Experiments |-> [sid \in StageIds |-> NoFile]]
  /\ lock \in {Nobody, Operator}
  /\ pc = [r \in Runners |-> "idle"]
  /\ job \in [Runners -> Experiments]
  /\ at = [r \in Runners |-> 1]
  /\ pre = [r \in Runners |-> Recorded] /\ used = [r \in Runners |-> Recorded]
  /\ child = [r \in Runners |-> "none"]
  /\ outcome = [r \in Runners |-> NoOutcome]
  /\ orphans = {} /\ orphaned = {}

Stage(r) == STAGE_ORDER[at[r]]

StateRecord(r, state) == [run |-> r, stage |-> "state", state |-> state]

(* append_record: under the file's own lock, whole. *)
AppendTo(x, rec) == ledger' = [ledger EXCEPT ![x] = Append(@, rec)]

Goto(r, label) == pc' = [pc EXCEPT ![r] = label]

(* The runner leaves "with lock" and returns. *)
Finish(r) == Goto(r, "done") /\ lock' = IF lock = r THEN Nobody ELSE lock
-----------------------------------------------------------------------------
(* The runner *)

(* validate and verify_identities; drift is recorded and ends the run. *)
Load(r) ==
  /\ pc[r] = "idle"
  /\ \/ binary[job[r]] = Recorded /\ Goto(r, "lock") /\ UNCHANGED ledger
     \/ /\ binary[job[r]] # Recorded
        /\ AppendTo(job[r], StateRecord(r, "BLOCKED")) /\ Goto(r, "done")
  /\ UNCHANGED <<binary, rebuilds, metrics, lock, local, ghosts>>

(* Mutant: the stages start whether or not the lock was free. *)
AcquireUnlocked(r) == TRUE

(* flock(LOCK_EX | LOCK_NB) succeeds. *)
LockFree(r) == lock = Nobody

(* acquire_gpu_lock, then set_state("RUNNING"). *)
Acquire(r) ==
  /\ pc[r] = "lock" /\ LockFree(r)
  /\ lock' = r /\ Goto(r, "stage")
  /\ AppendTo(job[r], StateRecord(r, "RUNNING"))
  /\ UNCHANGED <<binary, rebuilds, metrics, local, ghosts>>

(* Mutant: a blocking flock. *)
NoDeadline(r) == FALSE

(* The budget of acquire_gpu_lock is spent at a failed attempt. *)
DeadlinePassed(r) == lock # Nobody

LastAttemptFails(r) ==
  /\ pc[r] = "lock" /\ DeadlinePassed(r)
  /\ Goto(r, "busy")
  /\ UNCHANGED <<binary, rebuilds, ledger, metrics, lock, local, ghosts>>

(* main records the contention; the lock may have been released since. *)
GiveUp(r) ==
  /\ pc[r] = "busy"
  /\ AppendTo(job[r], StateRecord(r, "ENVIRONMENT_INVALID")) /\ Goto(r, "done")
  /\ UNCHANGED <<binary, rebuilds, metrics, lock, local, ghosts>>

(* Mutant: a metrics file left by an earlier run stays. *)
KeptMetrics(x, sid) == metrics

(* run_stage unlinks the metrics file of the stage. *)
UnlinkedMetrics(x, sid) == [metrics EXCEPT ![x][sid] = NoFile]

(* main's loop and run_stage up to subprocess.run. *)
StartStage(r) ==
  /\ pc[r] = "stage"
  /\ \/ /\ Stage(r) \notin Defined[job[r]]
        /\ AppendTo(job[r], StateRecord(r, "BLOCKED")) /\ Finish(r)
        /\ UNCHANGED <<metrics, local>>
     \/ /\ Stage(r) \in Defined[job[r]]
        /\ metrics' = UnlinkedMetrics(job[r], Stage(r))
        /\ pre' = [pre EXCEPT ![r] = binary[job[r]]]
        /\ child' = [child EXCEPT ![r] = "up"]
        /\ Goto(r, "exec")
        /\ UNCHANGED <<ledger, lock, job, at, used, outcome>>
  /\ UNCHANGED <<binary, rebuilds, ghosts>>

(* A process of r's stage stays behind. *)
LeaveOrphan(r) ==
  /\ orphans' = orphans \union {[run |-> r, exp |-> job[r], stage |-> Stage(r)]}
  /\ orphaned' = orphaned \union {job[r]}

(* subprocess.run's timeout kills the stage process, not what it started. *)
Timeout(r) ==
  /\ child[r] = "up"
  /\ child' = [child EXCEPT ![r] = "killed"]
  /\ UNCHANGED ghosts \/ LeaveOrphan(r)
  /\ UNCHANGED <<binary, rebuilds, ledger, metrics, lock, pc, job, at, pre, used, outcome>>

(* fail_reason, in the order run_stage decides it. *)
StageResult(r) ==
  LET file == metrics[job[r]][Stage(r)]
      exited == child[r] = "exit0"
      reason == CASE exited /\ file.val = "absent" /\ Stage(r) # "build" -> "missing"
                  [] exited /\ file.val = "bad" -> "bad"
                  [] child[r] = "killed" -> "TIMEOUT"
                  [] child[r] = "exit1" -> "exit"
                  [] OTHER -> "none"
  IN IF binary[job[r]] # pre[r] THEN [ok |-> FALSE, reason |-> "binary"]
     ELSE [ok |-> reason = "none", reason |-> reason]

(* The rest of run_stage: the stage's record. *)
Collect(r) ==
  /\ pc[r] = "exec" /\ child[r] \in {"exit0", "exit1", "killed"}
  /\ outcome' = [outcome EXCEPT ![r] = StageResult(r)]
  /\ AppendTo(job[r], [run |-> r, stage |-> Stage(r), ok |-> StageResult(r).ok,
                       by |-> metrics[job[r]][Stage(r)].by, bin |-> used[r]])
  /\ child' = [child EXCEPT ![r] = "none"]
  /\ Goto(r, "state")
  /\ UNCHANGED <<binary, rebuilds, metrics, lock, job, at, pre, used, ghosts>>

classify_failure(sid, reason) ==
  IF reason = "TIMEOUT" THEN "TIMEOUT" ELSE IF sid = "build" THEN "BUILD_FAILED" ELSE "INCORRECT"

(* Mutant: a failed stage does not stop the run. *)
PassedAnyway(r) == TRUE

Passed(r) == outcome[r].ok

(* The loop over STAGE_ORDER is at its last stage. *)
AtEnd(r) == at[r] = Len(STAGE_ORDER)

(* main after run_stage: the next stage, or the end of the run. *)
SetState(r) ==
  /\ pc[r] = "state"
  /\ \/ /\ Passed(r)
        /\ AppendTo(job[r], StateRecord(r, STATE_AFTER[Stage(r)]))
        /\ \/ AtEnd(r) /\ Finish(r) /\ UNCHANGED at
           \/ /\ ~AtEnd(r) /\ at' = [at EXCEPT ![r] = @ + 1]
              /\ Goto(r, "stage") /\ UNCHANGED lock
     \/ /\ ~Passed(r)
        /\ AppendTo(job[r], StateRecord(r, classify_failure(Stage(r), outcome[r].reason)))
        /\ Finish(r) /\ UNCHANGED at
  /\ outcome' = [outcome EXCEPT ![r] = NoOutcome]
  /\ UNCHANGED <<binary, rebuilds, metrics, job, pre, child, used, ghosts>>

(* The runner dies; the kernel drops its lock, and its stage goes on alone. *)
Crash(r) ==
  /\ pc[r] \in {"lock", "busy", "stage", "exec", "state"}
  /\ Finish(r)
  /\ child' = [child EXCEPT ![r] = "none"]
  /\ outcome' = [outcome EXCEPT ![r] = NoOutcome]
  /\ IF child[r] = "up" THEN LeaveOrphan(r) ELSE UNCHANGED ghosts
  /\ UNCHANGED <<binary, rebuilds, ledger, metrics, job, at, pre, used>>
-----------------------------------------------------------------------------
(* Stage processes and the world around them *)

(* What a stage process may leave in its metrics file.  "good" is an object that
   does not report failure and, of the build stage, any other JSON value. *)
Files(r) == {[by |-> r, val |-> v] : v \in {"good", "bad"}}

(* A stage process loads the binary, may write its metrics, and exits; what it
   started may go on. *)
RunChild(r) ==
  /\ child[r] = "up"
  /\ used' = [used EXCEPT ![r] = binary[job[r]]]
  /\ \E status \in {"exit0", "exit1"} : child' = [child EXCEPT ![r] = status]
  /\ \/ UNCHANGED metrics
     \/ \E file \in Files(r) : metrics' = [metrics EXCEPT ![job[r]][Stage(r)] = file]
  /\ \/ UNCHANGED ghosts
     \/ Stage(r) \in Forking /\ LeaveOrphan(r)
  /\ UNCHANGED <<binary, rebuilds, ledger, lock, pc, job, at, pre, outcome>>

(* So does one that nobody waits for. *)
RunOrphan(o) ==
  /\ orphans' = orphans \ {o}
  /\ \/ UNCHANGED metrics
     \/ \E file \in Files(o.run) : metrics' = [metrics EXCEPT ![o.exp][o.stage] = file]
  /\ UNCHANGED <<binary, rebuilds, ledger, lock, pc, local, orphaned>>

(* Someone rebuilds or restores a binary. *)
Rebuild(x) ==
  /\ rebuilds < MaxRebuilds /\ rebuilds' = rebuilds + 1
  /\ \E v \in Versions \ {binary[x]} : binary' = [binary EXCEPT ![x] = v]
  /\ UNCHANGED <<ledger, metrics, lock, pc, local, ghosts>>

OperatorReleases ==
  /\ lock = Operator /\ lock' = Nobody
  /\ UNCHANGED <<binary, rebuilds, ledger, metrics, pc, local, ghosts>>

Runner(r) == Acquire(r) \/ LastAttemptFails(r) \/ GiveUp(r) \/ StartStage(r) \/ Collect(r) \/ SetState(r)

Next ==
  \/ \E r \in Runners : Load(r) \/ Runner(r) \/ Timeout(r) \/ RunChild(r) \/ Crash(r)
  \/ \E o \in orphans : RunOrphan(o)
  \/ \E x \in Experiments : Rebuild(x)
  \/ OperatorReleases

(* A runner that was started goes on; a stage ends or its timeout fires. *)
Fairness == \A r \in Runners : WF_vars(Runner(r)) /\ WF_vars(Timeout(r) \/ RunChild(r))

Spec == Init /\ [][Next]_vars

FairSpec == Spec /\ Fairness
-----------------------------------------------------------------------------
(* What compare.py concludes from a ledger *)

StageRecords(recs, sid) == {i \in DOMAIN recs : recs[i].stage = sid}

(* last_metrics: those of the stage's last record, when it passed. *)
LastPassed(recs, sid) == \E i \in StageRecords(recs, sid) :
                            recs[i].ok /\ \A j \in StageRecords(recs, sid) : j <= i

(* Mutant: any completed run will do. *)
CompletedOnce(recs) == \E i \in DOMAIN recs : recs[i].stage = "state"
                                              /\ recs[i].state = "GENERATION_COMPLETE"

(* The ledger ends with a completed run. *)
Completed(recs) ==
  recs # <<>> /\ Last(recs).stage = "state" /\ Last(recs).state = "GENERATION_COMPLETE"

(* The verdict is not INCORRECT, when the metrics meet the frozen gates. *)
Scored(recs) ==
  /\ \A sid \in StageIds : \E i \in StageRecords(recs, sid) : recs[i].ok
  /\ Completed(recs)
  /\ LastPassed(recs, "correctness") /\ LastPassed(recs, "model_correct")
-----------------------------------------------------------------------------
(* Properties *)

(* A score rests on one run: the last one started, which recorded every stage
   it is judged by.  Records of crashed, contending and earlier runs around
   it never make up a chain between them (compare.py:131-135). *)
OneRunQualifies ==
  \A x \in Experiments : LET recs == ledger[x] IN
    Scored(recs) =>
      /\ \A sid \in StageIds : \E i \in StageRecords(recs, sid) :
           /\ recs[i].ok /\ recs[i].run = Last(recs).run
           /\ \A j \in StageRecords(recs, sid) : j <= i
      /\ \A i \in DOMAIN recs : recs[i] = StateRecord(recs[i].run, "RUNNING") =>
           \E j \in i .. Len(recs) : recs[j] = StateRecord(Last(recs).run, "RUNNING")

(* "Correctness failures cannot receive a performance score": a stage's record
   follows passing records of all earlier stages, of the same run. *)
StagesGated ==
  \A x \in Experiments : \A j \in DOMAIN ledger[x] : \A k \in 1 .. 5 :
    ledger[x][j].stage = STAGE_ORDER[k] =>
      \A m \in 1 .. k - 1 : \E i \in 1 .. j - 1 :
        /\ ledger[x][i].run = ledger[x][j].run
        /\ ledger[x][i].stage = STAGE_ORDER[m] /\ ledger[x][i].ok

(* A stage passes on the metrics its own process wrote, or on none: as long as
   no process of the experiment was left behind, no earlier file is read. *)
OwnMetrics ==
  \A x \in Experiments \ orphaned : \A i \in DOMAIN ledger[x] :
    ledger[x][i].stage # "state" => ledger[x][i].by \in {ledger[x][i].run, Nobody}

(* No two runners have a stage on the GPU: what else runs there was left behind
   by a stage that ended, a timeout or a crash. *)
SupervisedSerially == Cardinality({r \in Runners : child[r] = "up"}) <= 1

(* A started runner returns, even when the lock is held for ever: "Never blocks
   forever" (run_candidate.py:250). *)
RunsEnd == \A r \in Runners : pc[r] = "lock" ~> pc[r] = "done"
=============================================================================
