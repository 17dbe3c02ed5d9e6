--------------------- MODULE ExperimentControllerProofs ---------------------
(***************************************************************************)
(* The promises of ExperimentController for any number of runners and of   *)
(* experiments, any contents of a binary and any stages that a record may  *)
(* have.  They rest on the lock: a runner has a stage exactly while it     *)
(* holds the lock (LockInv), so while it runs nobody else appends a stage  *)
(* or a start to a ledger.  What the ledger says of the holder (RunInv) is *)
(* then what it did, and what a completed ledger says of its last run      *)
(* (CompleteInv) is what the score rests on.                               *)
(***************************************************************************)
EXTENDS ExperimentController, Comparison, FiniteSetTheorems, TLAPS

Pcs == {"idle", "lock", "busy", "stage", "exec", "state", "done"}
HoldingPcs == {"stage", "exec", "state"}
Children == {"none", "up", "exit0", "exit1", "killed"}
Reasons == {"none", "missing", "bad", "TIMEOUT", "exit", "binary"}
States == {"RUNNING", "BLOCKED", "ENVIRONMENT_INVALID", "TIMEOUT", "BUILD_FAILED", "INCORRECT",
           "BUILT", "CORRECT", "MICROBENCH_PASSED", "MODEL_CORRECT", "GENERATION_COMPLETE"}
Writers == Runners \cup {Nobody}
FileSet == [by : Writers, val : {"absent", "good", "bad"}]
OrphanSet == [run : Runners, exp : Experiments, stage : StageIds]
StateRecordSet == [run : Runners, stage : {"state"}, state : States]
StageRecordSet == [run : Runners, stage : StageIds, ok : BOOLEAN, by : Writers, bin : Versions]
Records == StateRecordSet \cup StageRecordSet

TypeInv ==
  /\ binary \in [Experiments -> Versions] /\ rebuilds \in 0 .. MaxRebuilds
  /\ ledger \in [Experiments -> Seq(Records)]
  /\ metrics \in [Experiments -> [StageIds -> FileSet]]
  /\ lock \in Writers \cup {Operator}
  /\ pc \in [Runners -> Pcs] /\ job \in [Runners -> Experiments] /\ at \in [Runners -> 1 .. 5]
  /\ pre \in [Runners -> Versions] /\ used \in [Runners -> Versions]
  /\ child \in [Runners -> Children]
  /\ outcome \in [Runners -> [ok : BOOLEAN, reason : Reasons]]
  /\ orphans \in SUBSET OrphanSet /\ orphaned \in SUBSET Experiments

(* The lock is what a runner between its start and its end holds; only it
   has a stage process, and only for the stage it waits for.               *)
LockInv ==
  /\ \A r \in Runners : pc[r] \in HoldingPcs <=> lock = r
  /\ \A r \in Runners : child[r] # "none" => pc[r] = "exec"
  /\ \A r \in Runners : pc[r] \in {"idle", "lock", "busy"} => at[r] = 1

(* No run started in recs after r did.                                     *)
LatestRun(recs, r) ==
  \A i \in DOMAIN recs : recs[i] = StateRecord(recs[i].run, "RUNNING") =>
    \E j \in i .. Len(recs) : recs[j] = StateRecord(r, "RUNNING")

(* The last record of a stage is r's, and passed.                          *)
LastIs(recs, sid, r) ==
  \E i \in StageRecords(recs, sid) :
    /\ recs[i].ok /\ recs[i].run = r
    /\ \A j \in StageRecords(recs, sid) : j <= i

(* r is the latest run, and passed its first n stages.                     *)
RunOk(recs, r, n) ==
  LatestRun(recs, r) /\ \A m \in 1 .. n : LastIs(recs, STAGE_ORDER[m], r)

Behind(r) == IF pc[r] = "state" /\ outcome[r].ok THEN at[r] ELSE at[r] - 1

RunInv == \A r \in Runners : pc[r] \in HoldingPcs => RunOk(ledger[job[r]], r, Behind(r))

CompleteInv ==
  \A x \in Experiments : Completed(ledger[x]) => RunOk(ledger[x], Last(ledger[x]).run, 5)

(* The metrics file of a running stage is its own; what was left behind is
   known.                                                                  *)
MetricsInv ==
  /\ \A r \in Runners : pc[r] = "exec" /\ job[r] \notin orphaned =>
       metrics[job[r]][Stage(r)].by \in {r, Nobody}
  /\ \A o \in orphans : o.exp \in orphaned

-----------------------------------------------------------------------------
(* Stages and records *)

LEMMA StageOrder ==
  /\ \A k \in 1 .. 5 : STAGE_ORDER[k] \in StageIds
  /\ \A k, m \in 1 .. 5 : STAGE_ORDER[k] = STAGE_ORDER[m] => k = m
  /\ \A sid \in StageIds : \E k \in 1 .. 5 : STAGE_ORDER[k] = sid
  /\ "state" \notin StageIds /\ Len(STAGE_ORDER) = 5
<1>1. \A k \in 1 .. 5 : STAGE_ORDER[k] \in StageIds BY DEF STAGE_ORDER, StageIds
<1>2. \A k, m \in 1 .. 5 : STAGE_ORDER[k] = STAGE_ORDER[m] => k = m BY DEF STAGE_ORDER
<1>3. \A sid \in StageIds : \E k \in 1 .. 5 : STAGE_ORDER[k] = sid
  <2>1. /\ STAGE_ORDER[1] = "build" /\ STAGE_ORDER[2] = "correctness"
        /\ STAGE_ORDER[3] = "microbench" /\ STAGE_ORDER[4] = "model_correct"
        /\ STAGE_ORDER[5] = "generation"
    BY DEF STAGE_ORDER
  <2> QED BY <2>1 DEF StageIds
<1>4. "state" \notin StageIds /\ Len(STAGE_ORDER) = 5 BY DEF STAGE_ORDER, StageIds
<1> QED BY <1>1, <1>2, <1>3, <1>4

(* A stage's state is never RUNNING, and a failure has a state of its own. *)
LEMMA StateNames ==
  /\ \A k \in 1 .. 5 : STATE_AFTER[STAGE_ORDER[k]] \in States \ {"RUNNING"}
  /\ \A k \in 1 .. 4 : STATE_AFTER[STAGE_ORDER[k]] # "GENERATION_COMPLETE"
  /\ \A sid, reason : classify_failure(sid, reason) \in
                        States \ {"RUNNING", "GENERATION_COMPLETE"}
<1>1. /\ STAGE_ORDER[1] = "build" /\ STAGE_ORDER[2] = "correctness"
      /\ STAGE_ORDER[3] = "microbench" /\ STAGE_ORDER[4] = "model_correct"
      /\ STAGE_ORDER[5] = "generation"
  BY DEF STAGE_ORDER
<1>2. /\ STATE_AFTER["build"] = "BUILT" /\ STATE_AFTER["correctness"] = "CORRECT"
      /\ STATE_AFTER["microbench"] = "MICROBENCH_PASSED"
      /\ STATE_AFTER["model_correct"] = "MODEL_CORRECT"
      /\ STATE_AFTER["generation"] = "GENERATION_COMPLETE"
  BY DEF STATE_AFTER
<1>3. \A k \in 1 .. 4 : STATE_AFTER[STAGE_ORDER[k]] \in States \ {"RUNNING", "GENERATION_COMPLETE"}
  <2> SUFFICES ASSUME NEW k \in 1 .. 4
               PROVE STATE_AFTER[STAGE_ORDER[k]] \in States \ {"RUNNING", "GENERATION_COMPLETE"}
    OBVIOUS
  <2>1. k = 1 \/ k = 2 \/ k = 3 \/ k = 4 OBVIOUS
  <2> QED BY <2>1, <1>1, <1>2 DEF States
<1>4. STATE_AFTER[STAGE_ORDER[5]] \in States \ {"RUNNING"} BY <1>1, <1>2 DEF States
<1>5. \A k \in 1 .. 5 : k = 5 \/ k \in 1 .. 4 OBVIOUS
<1>6. \A sid, reason : classify_failure(sid, reason) \in States \ {"RUNNING", "GENERATION_COMPLETE"}
  BY DEF classify_failure, States
<1> QED BY <1>3, <1>4, <1>5, <1>6

LEMMA StateRecordTyped ==
  ASSUME NEW r \in Runners, NEW s \in States
  PROVE  /\ StateRecord(r, s) \in Records
         /\ StateRecord(r, s).stage = "state" /\ StateRecord(r, s).state = s
         /\ StateRecord(r, s).run = r
BY DEF StateRecord, Records, StateRecordSet

(* What a record appended to a ledger changes.                             *)
LEMMA Appended ==
  ASSUME NEW recs \in Seq(Records), NEW rec \in Records
  PROVE  /\ Append(recs, rec) \in Seq(Records)
         /\ Len(recs) \in Nat /\ Len(Append(recs, rec)) = Len(recs) + 1
         /\ DOMAIN recs = 1 .. Len(recs) /\ DOMAIN Append(recs, rec) = 1 .. Len(recs) + 1
         /\ \A i \in 1 .. Len(recs) : Append(recs, rec)[i] = recs[i]
         /\ Append(recs, rec)[Len(recs) + 1] = rec
OBVIOUS

-----------------------------------------------------------------------------
(* Typing *)

LEMMA AppendToTyped ==
  ASSUME ledger \in [Experiments -> Seq(Records)], NEW x \in Experiments, NEW rec \in Records,
         AppendTo(x, rec)
  PROVE  ledger' \in [Experiments -> Seq(Records)]
<1>1. Append(ledger[x], rec) \in Seq(Records) BY Appended
<1> QED BY <1>1 DEF AppendTo

LEMMA FileTyped ==
  ASSUME metrics \in [Experiments -> [StageIds -> FileSet]],
         NEW x \in Experiments, NEW sid \in StageIds, NEW file \in FileSet
  PROVE  [metrics EXCEPT ![x][sid] = file] \in [Experiments -> [StageIds -> FileSet]]
OBVIOUS

LEMMA StageTyped ==
  ASSUME TypeInv, NEW r \in Runners
  PROVE  /\ Stage(r) \in StageIds /\ STATE_AFTER[Stage(r)] \in States
         /\ StageResult(r) \in [ok : BOOLEAN, reason : Reasons]
<1>1. at[r] \in 1 .. 5 BY DEF TypeInv
<1>2. Stage(r) \in StageIds /\ STATE_AFTER[Stage(r)] \in States
  BY <1>1, StageOrder, StateNames DEF Stage
<1>3. StageResult(r) \in [ok : BOOLEAN, reason : Reasons]
  BY DEF StageResult, Reasons
<1> QED BY <1>2, <1>3

LEMMA FinishTyped ==
  ASSUME TypeInv, NEW r \in Runners, Finish(r)
  PROVE  pc' \in [Runners -> Pcs] /\ lock' \in Writers \cup {Operator}
BY DEF Finish, Goto, TypeInv, Pcs, Writers

LEMMA RunnerTyped ==
  ASSUME TypeInv, NEW r \in Runners, Load(r) \/ Runner(r) \/ Timeout(r) \/ RunChild(r) \/ Crash(r)
  PROVE  TypeInv'
<1> USE ControllerAssumption
<1>s. job[r] \in Experiments /\ Stage(r) \in StageIds BY StageTyped DEF TypeInv
<1>r. \A s \in States : StateRecord(r, s) \in Records BY StateRecordTyped
<1>1. CASE Load(r)
  <2>1. pc' \in [Runners -> Pcs] BY <1>1, ZenonT(30) DEF Load, Goto, TypeInv, Pcs
  <2>2. ledger' \in [Experiments -> Seq(Records)]
    <3>1. "BLOCKED" \in States BY DEF States
    <3>2. CASE UNCHANGED ledger BY <3>2 DEF TypeInv
    <3>3. CASE AppendTo(job[r], StateRecord(r, "BLOCKED"))
      BY <3>1, <3>3, <1>s, <1>r, AppendToTyped DEF TypeInv
    <3> QED BY <1>1, <3>2, <3>3 DEF Load
  <2> QED BY <1>1, <2>1, <2>2 DEF Load, TypeInv, local, ghosts
<1>2. CASE Acquire(r)
  <2>1. pc' \in [Runners -> Pcs] BY <1>2 DEF Acquire, Goto, TypeInv, Pcs
  <2>2. "RUNNING" \in States BY DEF States
  <2>3. ledger' \in [Experiments -> Seq(Records)]
    BY <2>2, <1>2, <1>s, <1>r, AppendToTyped DEF TypeInv, Acquire
  <2>4. lock' \in Writers \cup {Operator} BY <1>2 DEF Acquire, Writers
  <2> QED BY <1>2, <2>1, <2>3, <2>4 DEF Acquire, TypeInv, local, ghosts
<1>3. CASE LastAttemptFails(r)
  BY <1>3 DEF LastAttemptFails, Goto, TypeInv, Pcs, local, ghosts
<1>4. CASE GiveUp(r)
  <2>1. pc' \in [Runners -> Pcs] BY <1>4 DEF GiveUp, Goto, TypeInv, Pcs
  <2>2. "ENVIRONMENT_INVALID" \in States BY DEF States
  <2>3. ledger' \in [Experiments -> Seq(Records)]
    BY <2>2, <1>4, <1>s, <1>r, AppendToTyped DEF TypeInv, GiveUp
  <2> QED BY <1>4, <2>1, <2>3 DEF GiveUp, TypeInv, local, ghosts
<1>5. CASE StartStage(r)
  <2>1. CASE AppendTo(job[r], StateRecord(r, "BLOCKED")) /\ Finish(r) /\ UNCHANGED <<metrics, local>>
    <3>1. "BLOCKED" \in States BY DEF States
    <3>2. ledger' \in [Experiments -> Seq(Records)]
      BY <3>1, <2>1, <1>s, <1>r, AppendToTyped DEF TypeInv
    <3> QED BY <1>5, <2>1, <3>2, FinishTyped DEF StartStage, TypeInv, local, ghosts
  <2>2. CASE /\ metrics' = UnlinkedMetrics(job[r], Stage(r))
             /\ pre' = [pre EXCEPT ![r] = binary[job[r]]]
             /\ child' = [child EXCEPT ![r] = "up"]
             /\ Goto(r, "exec")
             /\ UNCHANGED <<ledger, lock, job, at, used, outcome>>
    <3>1. NoFile \in FileSet BY DEF NoFile, FileSet, Writers
    <3>2. metrics' \in [Experiments -> [StageIds -> FileSet]]
      BY <2>2, <3>1, <1>s DEF UnlinkedMetrics, TypeInv
    <3>3. pc' \in [Runners -> Pcs] BY <2>2 DEF Goto, TypeInv, Pcs
    <3>4. child' \in [Runners -> Children] BY <2>2 DEF TypeInv, Children
    <3> QED BY <1>5, <2>2, <3>2, <3>3, <3>4, <1>s DEF StartStage, TypeInv, ghosts
  <2> QED BY <1>5, <2>1, <2>2 DEF StartStage
<1>6. CASE Collect(r)
  <2> DEFINE rec == [run |-> r, stage |-> Stage(r), ok |-> StageResult(r).ok,
                     by |-> metrics[job[r]][Stage(r)].by, bin |-> used[r]]
  <2>1. StageResult(r) \in [ok : BOOLEAN, reason : Reasons] BY StageTyped
  <2>2. rec \in Records
    <3>1. metrics[job[r]][Stage(r)] \in FileSet BY <1>s DEF TypeInv
    <3>2. used[r] \in Versions BY DEF TypeInv
    <3> QED BY <2>1, <3>1, <3>2, <1>s DEF Records, StageRecordSet, FileSet
  <2>3. AppendTo(job[r], rec) BY <1>6 DEF Collect
  <2> HIDE DEF rec
  <2>4. ledger' \in [Experiments -> Seq(Records)]
    BY <2>2, <2>3, <1>s, AppendToTyped DEF TypeInv
  <2>5. outcome' \in [Runners -> [ok : BOOLEAN, reason : Reasons]]
    BY <1>6, <2>1 DEF Collect, TypeInv
  <2>6. child' \in [Runners -> Children] /\ pc' \in [Runners -> Pcs]
    BY <1>6 DEF Collect, Goto, TypeInv, Children, Pcs
  <2> QED BY <1>6, <2>4, <2>5, <2>6 DEF Collect, TypeInv, ghosts
<1>7. CASE SetState(r)
  <2>1. ledger' \in [Experiments -> Seq(Records)]
    <3>1. CASE AppendTo(job[r], StateRecord(r, STATE_AFTER[Stage(r)]))
      BY <3>1, <1>s, <1>r, StageTyped, AppendToTyped DEF TypeInv
    <3>2. CASE AppendTo(job[r], StateRecord(r, classify_failure(Stage(r), outcome[r].reason)))
      <4>1. classify_failure(Stage(r), outcome[r].reason) \in States BY StateNames
      <4> QED BY <3>2, <4>1, <1>s, <1>r, AppendToTyped DEF TypeInv
    <3> QED BY <1>7, <3>1, <3>2 DEF SetState
  <2>2. pc' \in [Runners -> Pcs] /\ lock' \in Writers \cup {Operator}
    <3>1. CASE Finish(r) BY <3>1, FinishTyped
    <3>2. CASE Goto(r, "stage") /\ UNCHANGED lock BY <3>2 DEF Goto, TypeInv, Pcs
    <3> QED BY <1>7, <3>1, <3>2 DEF SetState
  <2>3. at' \in [Runners -> 1 .. 5]
    <3>1. CASE UNCHANGED at BY <3>1 DEF TypeInv
    <3>2. CASE ~AtEnd(r) /\ at' = [at EXCEPT ![r] = @ + 1]
      <4>1. at[r] \in 1 .. 5 /\ at[r] # 5 BY <3>2, StageOrder DEF AtEnd, TypeInv
      <4>2. at[r] + 1 \in 1 .. 5 BY <4>1
      <4> QED BY <3>2, <4>2 DEF TypeInv
    <3> QED BY <1>7, <3>1, <3>2 DEF SetState
  <2>4. outcome' \in [Runners -> [ok : BOOLEAN, reason : Reasons]]
    BY <1>7 DEF SetState, NoOutcome, TypeInv, Reasons
  <2> QED BY <1>7, <2>1, <2>2, <2>3, <2>4 DEF SetState, TypeInv, ghosts
<1>8. CASE Timeout(r)
  <2>1. child' \in [Runners -> Children] BY <1>8 DEF Timeout, TypeInv, Children
  <2>2. orphans' \in SUBSET OrphanSet /\ orphaned' \in SUBSET Experiments
    BY <1>8, <1>s DEF Timeout, LeaveOrphan, TypeInv, OrphanSet, ghosts
  <2> QED BY <1>8, <2>1, <2>2 DEF Timeout, TypeInv
<1>9. CASE RunChild(r)
  <2>1. child' \in [Runners -> Children] BY <1>9 DEF RunChild, TypeInv, Children
  <2>2. metrics' \in [Experiments -> [StageIds -> FileSet]]
    <3>1. \A f \in Files(r) : f \in FileSet BY DEF Files, FileSet, Writers
    <3>2. UNCHANGED metrics \/ \E f \in Files(r) : metrics' = [metrics EXCEPT ![job[r]][Stage(r)] = f]
      BY <1>9 DEF RunChild
    <3>3. ASSUME NEW f \in Files(r), metrics' = [metrics EXCEPT ![job[r]][Stage(r)] = f]
          PROVE  metrics' \in [Experiments -> [StageIds -> FileSet]]
      <4>1. metrics \in [Experiments -> [StageIds -> FileSet]] /\ f \in FileSet
        BY <3>1 DEF TypeInv
      <4> QED BY <3>3, <4>1, <1>s, FileTyped
    <3> QED BY <3>2, <3>3 DEF TypeInv
  <2>3. used' \in [Runners -> Versions] BY <1>9, <1>s DEF RunChild, TypeInv
  <2>4. orphans' \in SUBSET OrphanSet /\ orphaned' \in SUBSET Experiments
    BY <1>9, <1>s DEF RunChild, LeaveOrphan, TypeInv, OrphanSet, ghosts
  <2> QED BY <1>9, <2>1, <2>2, <2>3, <2>4 DEF RunChild, TypeInv
<1>10. CASE Crash(r)
  <2>1. child' \in [Runners -> Children] BY <1>10 DEF Crash, TypeInv, Children
  <2>2. outcome' \in [Runners -> [ok : BOOLEAN, reason : Reasons]]
    BY <1>10 DEF Crash, NoOutcome, TypeInv, Reasons
  <2>3. orphans' \in SUBSET OrphanSet /\ orphaned' \in SUBSET Experiments
    BY <1>10, <1>s DEF Crash, LeaveOrphan, TypeInv, OrphanSet, ghosts
  <2>4. Finish(r) BY <1>10 DEF Crash
  <2> QED BY <1>10, <2>1, <2>2, <2>3, <2>4, FinishTyped DEF Crash, TypeInv
<1> QED BY <1>1, <1>2, <1>3, <1>4, <1>5, <1>6, <1>7, <1>8, <1>9, <1>10 DEF Runner

LEMMA WorldTyped ==
  ASSUME TypeInv,
         \/ \E o \in orphans : RunOrphan(o)
         \/ \E x \in Experiments : Rebuild(x)
         \/ OperatorReleases
  PROVE  TypeInv'
<1>1. CASE \E o \in orphans : RunOrphan(o)
  <2>1. PICK o \in orphans : RunOrphan(o) BY <1>1
  <2>2. o \in OrphanSet BY DEF TypeInv
  <2>3. o.run \in Runners /\ o.exp \in Experiments /\ o.stage \in StageIds BY <2>2 DEF OrphanSet
  <2>4. \A f \in Files(o.run) : f \in FileSet BY <2>3 DEF Files, FileSet, Writers
  <2>5. metrics' \in [Experiments -> [StageIds -> FileSet]]
    <3>1. UNCHANGED metrics \/ \E f \in Files(o.run) : metrics' = [metrics EXCEPT ![o.exp][o.stage] = f]
      BY <2>1 DEF RunOrphan
    <3>2. ASSUME NEW f \in Files(o.run), metrics' = [metrics EXCEPT ![o.exp][o.stage] = f]
          PROVE  metrics' \in [Experiments -> [StageIds -> FileSet]]
      <4>1. metrics \in [Experiments -> [StageIds -> FileSet]] /\ f \in FileSet
        BY <2>4 DEF TypeInv
      <4> QED BY <3>2, <4>1, <2>3, FileTyped
    <3> QED BY <3>1, <3>2 DEF TypeInv
  <2>6. orphans' \in SUBSET OrphanSet BY <2>1 DEF RunOrphan, TypeInv
  <2> QED BY <2>1, <2>5, <2>6 DEF RunOrphan, TypeInv, local
<1>2. CASE \E x \in Experiments : Rebuild(x)
  <2>1. PICK x \in Experiments : Rebuild(x) BY <1>2
  <2>2. binary' \in [Experiments -> Versions] BY <2>1 DEF Rebuild, TypeInv
  <2>3. rebuilds' \in 0 .. MaxRebuilds BY <2>1, ControllerAssumption DEF Rebuild, TypeInv
  <2> QED BY <2>1, <2>2, <2>3 DEF Rebuild, TypeInv, local, ghosts
<1>3. CASE OperatorReleases
  BY <1>3 DEF OperatorReleases, TypeInv, Writers, local, ghosts
<1> QED BY <1>1, <1>2, <1>3

LEMMA InitTyped == Init => TypeInv
<1> SUFFICES ASSUME Init PROVE TypeInv OBVIOUS
<1> USE ControllerAssumption
<1>1. ledger \in [Experiments -> Seq(Records)] BY DEF Init
<1>2. NoFile \in FileSet BY DEF NoFile, FileSet, Writers
<1>3. metrics \in [Experiments -> [StageIds -> FileSet]] BY <1>2 DEF Init
<1>4. outcome \in [Runners -> [ok : BOOLEAN, reason : Reasons]] BY DEF Init, NoOutcome, Reasons
<1>5. pc \in [Runners -> Pcs] /\ child \in [Runners -> Children] BY DEF Init, Pcs, Children
<1> QED BY <1>1, <1>3, <1>4, <1>5 DEF Init, TypeInv, Writers

(* A step that changes nothing the runners keep.                           *)
LEMMA StutterTyped == TypeInv /\ UNCHANGED vars => TypeInv'
BY DEF TypeInv, vars, local, ghosts

LEMMA TypeStep == TypeInv /\ [Next]_vars => TypeInv'
BY RunnerTyped, WorldTyped, StutterTyped DEF Next

(* Whatever runs, fails or is rebuilt, the state has its type: a ledger is
   a sequence of whole records of the two kinds run_candidate.py writes.   *)
THEOREM ControllerTyped == Spec => []TypeInv
<1>1. Init => TypeInv BY InitTyped
<1>2. TypeInv /\ [Next]_vars => TypeInv'
  BY TypeStep
<1> QED BY <1>1, <1>2, PTL DEF Spec

-----------------------------------------------------------------------------
(* The lock *)

(* Only r moves: at a label of its choice.                                 *)
LEMMA GotoMoves ==
  ASSUME TypeInv, NEW r \in Runners, NEW label \in Pcs, Goto(r, label)
  PROVE  pc'[r] = label /\ \A s \in Runners \ {r} : pc'[s] = pc[s]
BY DEF Goto, TypeInv

LEMMA FinishMoves ==
  ASSUME TypeInv, NEW r \in Runners, Finish(r)
  PROVE  /\ pc'[r] = "done" /\ \A s \in Runners \ {r} : pc'[s] = pc[s]
         /\ lock = r => lock' = Nobody
         /\ lock # r => lock' = lock
BY GotoMoves DEF Finish, Pcs

LEMMA RunnerLock ==
  ASSUME TypeInv, LockInv, NEW r \in Runners,
         Load(r) \/ Runner(r) \/ Timeout(r) \/ RunChild(r) \/ Crash(r)
  PROVE  LockInv'
<1> USE ControllerAssumption
<1>p. \A label \in Pcs : Goto(r, label) => pc'[r] = label /\ \A s \in Runners \ {r} : pc'[s] = pc[s]
  BY GotoMoves
<1>f. Finish(r) => /\ pc'[r] = "done" /\ \A s \in Runners \ {r} : pc'[s] = pc[s]
                   /\ lock = r => lock' = Nobody
                   /\ lock # r => lock' = lock
  BY FinishMoves
<1>n. \A s \in Runners : s # Nobody /\ s # Operator OBVIOUS
<1>1. CASE Load(r)
  BY <1>1, <1>p DEF Load, LockInv, HoldingPcs, Pcs, local
<1>2. CASE Acquire(r)
  BY <1>2, <1>p, <1>n DEF Acquire, LockFree, LockInv, HoldingPcs, Pcs, local
<1>3. CASE LastAttemptFails(r)
  BY <1>3, <1>p DEF LastAttemptFails, LockInv, HoldingPcs, Pcs, local
<1>4. CASE GiveUp(r)
  BY <1>4, <1>p DEF GiveUp, LockInv, HoldingPcs, Pcs, local
<1>5. CASE StartStage(r)
  <2>1. CASE Finish(r) /\ UNCHANGED <<metrics, local>>
    BY <1>5, <2>1, <1>f, <1>n DEF StartStage, LockInv, HoldingPcs, local
  <2>2. CASE /\ child' = [child EXCEPT ![r] = "up"]
             /\ Goto(r, "exec")
             /\ UNCHANGED <<ledger, lock, job, at, used, outcome>>
    BY <1>5, <2>2, <1>p DEF StartStage, LockInv, HoldingPcs, Pcs, TypeInv
  <2> QED BY <1>5, <2>1, <2>2 DEF StartStage
<1>6. CASE Collect(r)
  BY <1>6, <1>p DEF Collect, LockInv, HoldingPcs, Pcs, TypeInv
<1>7. CASE SetState(r)
  <2>1. /\ pc[r] = "state" /\ child' = child
        /\ \/ Finish(r) /\ UNCHANGED at
           \/ /\ at' = [at EXCEPT ![r] = @ + 1]
              /\ Goto(r, "stage") /\ UNCHANGED lock
    BY <1>7 DEF SetState
  <2>2. lock = r BY <2>1 DEF LockInv, HoldingPcs
  <2>3. CASE Finish(r) /\ UNCHANGED at
    BY <2>1, <2>2, <2>3, <1>f, <1>n DEF LockInv, HoldingPcs
  <2>4. CASE at' = [at EXCEPT ![r] = @ + 1] /\ Goto(r, "stage") /\ UNCHANGED lock
    BY <2>1, <2>2, <2>4, <1>p, <1>n DEF LockInv, HoldingPcs, Pcs, TypeInv
  <2> QED BY <2>1, <2>3, <2>4
<1>8. CASE Timeout(r)
  BY <1>8 DEF Timeout, LockInv, TypeInv
<1>9. CASE RunChild(r)
  BY <1>9 DEF RunChild, LockInv, TypeInv
<1>10. CASE Crash(r)
  BY <1>10, <1>f, <1>n DEF Crash, LockInv, HoldingPcs, TypeInv
<1> QED BY <1>1, <1>2, <1>3, <1>4, <1>5, <1>6, <1>7, <1>8, <1>9, <1>10 DEF Runner

LEMMA WorldLock ==
  ASSUME LockInv,
         \/ \E o \in orphans : RunOrphan(o)
         \/ \E x \in Experiments : Rebuild(x)
         \/ OperatorReleases
         \/ UNCHANGED vars
  PROVE  LockInv'
BY ControllerAssumption DEF LockInv, RunOrphan, Rebuild, OperatorReleases, vars, local

LEMMA LockStep == TypeInv /\ LockInv /\ [Next]_vars => LockInv'
BY RunnerLock, WorldLock DEF Next

LEMMA InitLock == Init => LockInv
BY ControllerAssumption DEF Init, LockInv, HoldingPcs

LEMMA OneHolder ==
  ASSUME LockInv, NEW r \in Runners, NEW s \in Runners,
         pc[r] \in HoldingPcs, pc[s] \in HoldingPcs
  PROVE  r = s
BY DEF LockInv

LEMMA ChildHolds ==
  ASSUME LockInv, NEW r \in Runners, child[r] # "none"
  PROVE  pc[r] = "exec" /\ pc[r] \in HoldingPcs
BY DEF LockInv, HoldingPcs

(* No two runners have a stage on the GPU at once.                         *)
LEMMA Serial == LockInv => SupervisedSerially
<1> SUFFICES ASSUME LockInv PROVE SupervisedSerially OBVIOUS
<1> DEFINE up == {r \in Runners : child[r] = "up"}
<1>1. \A r, s \in up : r = s BY ChildHolds, OneHolder
<1>2. CASE up = {} BY <1>2, FS_EmptySet DEF SupervisedSerially
<1>3. CASE up # {}
  <2>1. PICK r \in up : TRUE BY <1>3
  <2>2. up = {r} BY <1>1, <2>1
  <2>3. Cardinality({r}) = 1 BY FS_Singleton
  <2>4. Cardinality(up) <= 1 BY <2>2, <2>3
  <2> QED BY <2>4 DEF SupervisedSerially
<1> QED BY <1>2, <1>3

(* Whatever the runners' timeouts and crashes, and whatever they leave
   behind: at most one supervised stage runs (acquire_gpu_lock).           *)
THEOREM OneSupervisedStage == Spec => []SupervisedSerially
<1>1. Spec => [](TypeInv /\ LockInv)
  <2>1. Init => TypeInv /\ LockInv BY InitTyped, InitLock
  <2>2. TypeInv /\ LockInv /\ [Next]_vars => TypeInv' /\ LockInv'
    BY LockStep, TypeStep
  <2> QED BY <2>1, <2>2, PTL DEF Spec
<1> QED BY <1>1, Serial, PTL

-----------------------------------------------------------------------------
(* The ledger *)

(* A record of another stage, or of none, leaves the last one of a stage.  *)
LEMMA LastKept ==
  ASSUME NEW recs \in Seq(Records), NEW rec \in Records, NEW sid, rec.stage # sid,
         NEW r, LastIs(recs, sid, r)
  PROVE  LastIs(Append(recs, rec), sid, r)
<1> DEFINE new == Append(recs, rec)
<1>1. PICK i \in StageRecords(recs, sid) :
        recs[i].ok /\ recs[i].run = r /\ \A j \in StageRecords(recs, sid) : j <= i
  BY DEF LastIs
<1>2. StageRecords(new, sid) = StageRecords(recs, sid)
  BY Appended DEF StageRecords
<1>3. new[i] = recs[i] BY Appended DEF StageRecords
<1> HIDE DEF new
<1>4. LastIs(new, sid, r) BY <1>1, <1>2, <1>3 DEF LastIs
<1> QED BY <1>4 DEF new

LEMMA LastNew ==
  ASSUME NEW recs \in Seq(Records), NEW rec \in Records, rec.ok
  PROVE  LastIs(Append(recs, rec), rec.stage, rec.run)
<1> DEFINE new == Append(recs, rec)
           n == Len(recs) + 1
<1>1. n \in StageRecords(new, rec.stage) /\ new[n] = rec BY Appended DEF StageRecords
<1>2. \A j \in StageRecords(new, rec.stage) : j <= n BY Appended DEF StageRecords
<1> HIDE DEF new, n
<1>3. LastIs(new, rec.stage, rec.run) BY <1>1, <1>2 DEF LastIs
<1> QED BY <1>3 DEF new

(* Only a record of a start makes another run the latest.                  *)
LEMMA LatestKept ==
  ASSUME NEW recs \in Seq(Records), NEW rec \in Records, NEW r, LatestRun(recs, r),
         rec # StateRecord(rec.run, "RUNNING")
  PROVE  LatestRun(Append(recs, rec), r)
<1> DEFINE new == Append(recs, rec)
<1>1. SUFFICES ASSUME NEW i \in DOMAIN new, new[i] = StateRecord(new[i].run, "RUNNING")
               PROVE  \E j \in i .. Len(new) : new[j] = StateRecord(r, "RUNNING")
  BY DEF LatestRun
<1>2. i \in 1 .. Len(recs) BY <1>1, Appended
<1>3. new[i] = recs[i] BY <1>2, Appended
<1>4. PICK j \in i .. Len(recs) : recs[j] = StateRecord(r, "RUNNING")
  BY <1>1, <1>2, <1>3, Appended DEF LatestRun
<1>5. j \in 1 .. Len(recs) /\ j \in i .. Len(new) BY <1>2, Appended
<1> QED BY <1>4, <1>5, Appended

LEMMA LatestNew ==
  ASSUME NEW recs \in Seq(Records), NEW r \in Runners, StateRecord(r, "RUNNING") \in Records
  PROVE  LatestRun(Append(recs, StateRecord(r, "RUNNING")), r)
<1> DEFINE new == Append(recs, StateRecord(r, "RUNNING"))
<1>1. /\ \A i \in DOMAIN new : Len(new) \in i .. Len(new)
      /\ new[Len(new)] = StateRecord(r, "RUNNING")
  BY Appended
<1> QED BY <1>1 DEF LatestRun

(* A state other than RUNNING keeps what is said of a run.                 *)
LEMMA RunKept ==
  ASSUME NEW recs \in Seq(Records), NEW q \in Runners, NEW s \in States \ {"RUNNING"},
         NEW r, NEW n \in 0 .. 5, RunOk(recs, r, n)
  PROVE  RunOk(Append(recs, StateRecord(q, s)), r, n)
<1> DEFINE rec == StateRecord(q, s)
<1>1. rec \in Records /\ rec.stage = "state" /\ rec.state = s /\ rec.run = q
  BY StateRecordTyped
<1>2. rec # StateRecord(rec.run, "RUNNING")
  <2>1. "RUNNING" \in States BY DEF States
  <2>2. StateRecord(q, "RUNNING").state = "RUNNING" BY <2>1, StateRecordTyped
  <2> QED BY <1>1, <2>2
<1> HIDE DEF rec
<1>3. LatestRun(Append(recs, rec), r) BY <1>1, <1>2, LatestKept DEF RunOk
<1>4. \A m \in 1 .. n : LastIs(Append(recs, rec), STAGE_ORDER[m], r)
  <2> SUFFICES ASSUME NEW m \in 1 .. n PROVE LastIs(Append(recs, rec), STAGE_ORDER[m], r)
    OBVIOUS
  <2>1. m \in 1 .. 5 OBVIOUS
  <2>2. rec.stage # STAGE_ORDER[m] BY <1>1, <2>1, StageOrder
  <2> QED BY <1>1, <2>2, LastKept DEF RunOk
<1>5. RunOk(Append(recs, rec), r, n) BY <1>3, <1>4 DEF RunOk
<1> QED BY <1>5 DEF rec

(* The record of stage k keeps what is said of the stages before it, and
   adds k when it passed.                                                  *)
LEMMA RunGrows ==
  ASSUME NEW recs \in Seq(Records), NEW rec \in Records, NEW k \in 1 .. 5,
         rec.stage = STAGE_ORDER[k], RunOk(recs, rec.run, k - 1)
  PROVE  RunOk(Append(recs, rec), rec.run, IF rec.ok THEN k ELSE k - 1)
<1> DEFINE new == Append(recs, rec)
<1>1. LatestRun(new, rec.run)
  <2>1. \A q : StateRecord(q, "RUNNING").stage = "state" BY DEF StateRecord
  <2>2. rec # StateRecord(rec.run, "RUNNING") BY <2>1, StageOrder
  <2> QED BY <2>2, LatestKept DEF RunOk
<1>2. ASSUME NEW m \in 1 .. k - 1 PROVE LastIs(new, STAGE_ORDER[m], rec.run)
  <2>1. m \in 1 .. 5 /\ m # k OBVIOUS
  <2>2. rec.stage # STAGE_ORDER[m] BY <2>1, StageOrder
  <2> QED BY <2>2, LastKept DEF RunOk
<1>3. rec.ok => LastIs(new, STAGE_ORDER[k], rec.run) BY LastNew
<1> HIDE DEF new
<1>4. CASE rec.ok
  <2>1. \A m \in 1 .. k : m = k \/ m \in 1 .. k - 1 OBVIOUS
  <2> QED BY <1>1, <1>2, <1>3, <1>4, <2>1 DEF RunOk, new
<1>5. CASE ~rec.ok BY <1>1, <1>2, <1>5 DEF RunOk, new
<1> QED BY <1>4, <1>5

LEMMA AppendToAt ==
  ASSUME TypeInv, NEW x \in Experiments, NEW rec \in Records, AppendTo(x, rec)
  PROVE  /\ ledger[x] \in Seq(Records) /\ ledger'[x] = Append(ledger[x], rec)
         /\ \A y \in Experiments \ {x} : ledger'[y] = ledger[y]
BY DEF TypeInv, AppendTo

(* What an appended record must bring along.                               *)
LEMMA CompleteAppend ==
  ASSUME TypeInv, CompleteInv, NEW x \in Experiments, NEW rec \in Records, AppendTo(x, rec),
         rec.stage = "state" /\ rec.state = "GENERATION_COMPLETE" =>
           RunOk(Append(ledger[x], rec), rec.run, 5)
  PROVE  CompleteInv'
<1>1. Last(ledger'[x]) = rec BY AppendToAt, Appended DEF Last
<1>2. Completed(ledger[x])' => RunOk(ledger'[x], Last(ledger'[x]).run, 5)
  BY <1>1, AppendToAt DEF Completed
<1>3. \A y \in Experiments \ {x} : ledger'[y] = ledger[y] BY AppendToAt
<1>4. \A y \in Experiments : Completed(ledger'[y]) => RunOk(ledger'[y], Last(ledger'[y]).run, 5)
  <2> SUFFICES ASSUME NEW y \in Experiments, Completed(ledger'[y])
               PROVE  RunOk(ledger'[y], Last(ledger'[y]).run, 5)
    OBVIOUS
  <2>1. CASE y = x BY <2>1, <1>2
  <2>2. CASE y # x
    <3>1. ledger'[y] = ledger[y] BY <2>2, <1>3
    <3> QED BY <3>1 DEF CompleteInv
  <2> QED BY <2>1, <2>2
<1> QED BY <1>4 DEF CompleteInv

PassBefore(recs, j, m) ==
  \E i \in 1 .. j - 1 : /\ recs[i].run = recs[j].run
                        /\ recs[i].stage = STAGE_ORDER[m] /\ recs[i].ok

Gated(recs) ==
  \A j \in DOMAIN recs : \A k \in 1 .. 5 :
    recs[j].stage = STAGE_ORDER[k] => \A m \in 1 .. k - 1 : PassBefore(recs, j, m)

LEMMA GatedAll == StagesGated <=> \A x \in Experiments : Gated(ledger[x])
BY DEF StagesGated, Gated, PassBefore

LEMMA GatedAllNext == StagesGated' <=> \A x \in Experiments : Gated(ledger'[x])
BY DEF StagesGated, Gated, PassBefore

LEMMA GatedSeq ==
  ASSUME NEW recs \in Seq(Records), Gated(recs), NEW rec \in Records,
         \A k \in 1 .. 5 : rec.stage = STAGE_ORDER[k] =>
           \A m \in 1 .. k - 1 : LastIs(recs, STAGE_ORDER[m], rec.run)
  PROVE  Gated(Append(recs, rec))
<1> DEFINE new == Append(recs, rec)
<1>1. \A i \in 1 .. Len(recs) : new[i] = recs[i] BY Appended
<1>2. DOMAIN new = 1 .. Len(recs) + 1 /\ DOMAIN recs = 1 .. Len(recs) /\ Len(recs) \in Nat
  BY Appended
<1>3. new[Len(recs) + 1] = rec BY Appended
<1> HIDE DEF new
<1>4. ASSUME NEW j \in DOMAIN new, NEW k \in 1 .. 5, new[j].stage = STAGE_ORDER[k],
             NEW m \in 1 .. k - 1
      PROVE  PassBefore(new, j, m)
  <2>1. CASE j \in 1 .. Len(recs)
    <3>1. new[j] = recs[j] /\ j \in DOMAIN recs BY <2>1, <1>1, <1>2
    <3>2. PassBefore(recs, j, m) BY <1>4, <3>1 DEF Gated
    <3>3. \A i \in 1 .. j - 1 : new[i] = recs[i] BY <2>1, <1>1, <1>2
    <3> QED BY <3>1, <3>2, <3>3 DEF PassBefore
  <2>2. CASE j = Len(recs) + 1
    <3>1. new[j] = rec BY <2>2, <1>3
    <3>2. LastIs(recs, STAGE_ORDER[m], rec.run) BY <1>4, <3>1
    <3>3. PICK i \in StageRecords(recs, STAGE_ORDER[m]) : recs[i].ok /\ recs[i].run = rec.run
      BY <3>2 DEF LastIs
    <3>4. i \in 1 .. Len(recs) /\ recs[i].stage = STAGE_ORDER[m] BY <1>2 DEF StageRecords
    <3>5. i \in 1 .. j - 1 /\ new[i] = recs[i] BY <2>2, <3>4, <1>1, <1>2
    <3> QED BY <3>1, <3>3, <3>4, <3>5 DEF PassBefore
  <2> QED BY <2>1, <2>2, <1>2
<1>5. Gated(new) BY <1>4 DEF Gated
<1> QED BY <1>5 DEF new

LEMMA GatedAppend ==
  ASSUME TypeInv, StagesGated, NEW x \in Experiments, NEW rec \in Records, AppendTo(x, rec),
         \A k \in 1 .. 5 : rec.stage = STAGE_ORDER[k] =>
           \A m \in 1 .. k - 1 : LastIs(ledger[x], STAGE_ORDER[m], rec.run)
  PROVE  StagesGated'
<1>1. \A y \in Experiments : Gated(ledger[y]) BY GatedAll
<1>2. Gated(ledger'[x])
  <2>1. ledger[x] \in Seq(Records) /\ ledger'[x] = Append(ledger[x], rec) BY AppendToAt
  <2> QED BY <1>1, <2>1, GatedSeq
<1>3. ASSUME NEW y \in Experiments PROVE Gated(ledger'[y])
  <2>1. CASE y = x BY <2>1, <1>2
  <2>2. CASE y # x
    <3>1. ledger'[y] = ledger[y] BY <2>2, AppendToAt
    <3> QED BY <3>1, <1>1
  <2> QED BY <2>1, <2>2
<1> QED BY <1>3, GatedAllNext

LedgerInv == RunInv /\ CompleteInv /\ StagesGated

(* A state that is not that of a start nor of an end may be added by anyone. *)
LEMMA StateAppend ==
  ASSUME TypeInv, LedgerInv, NEW x \in Experiments, NEW r \in Runners,
         NEW s \in States \ {"RUNNING", "GENERATION_COMPLETE"},
         AppendTo(x, StateRecord(r, s))
  PROVE  CompleteInv' /\ StagesGated'
<1> DEFINE rec == StateRecord(r, s)
<1>1. rec \in Records /\ rec.stage = "state" /\ rec.state = s BY StateRecordTyped
<1>2. \A k \in 1 .. 5 : rec.stage # STAGE_ORDER[k] BY <1>1, StageOrder
<1>3. AppendTo(x, rec) OBVIOUS
<1> HIDE DEF rec
<1>4. CompleteInv' BY <1>1, <1>3, CompleteAppend DEF LedgerInv
<1>5. StagesGated' BY <1>1, <1>2, <1>3, GatedAppend DEF LedgerInv
<1> QED BY <1>4, <1>5

LEMMA LedgerSame ==
  ASSUME LedgerInv, UNCHANGED ledger
  PROVE  CompleteInv' /\ StagesGated'
<1>1. CompleteInv' BY DEF LedgerInv, CompleteInv, Completed
<1>2. \A x \in Experiments : Gated(ledger[x]) BY GatedAll DEF LedgerInv
<1>3. StagesGated' BY <1>2, GatedAllNext
<1> QED BY <1>1, <1>3

LEMMA BehindTyped ==
  ASSUME TypeInv, NEW r \in Runners
  PROVE  Behind(r) \in 0 .. 5
BY DEF TypeInv, Behind

(* What the ledger says of a runner that does not move.                    *)
LEMMA OtherKept ==
  ASSUME TypeInv, RunInv, NEW s \in Runners, pc[s] \in HoldingPcs, UNCHANGED job,
         pc'[s] = pc[s], at'[s] = at[s], outcome'[s] = outcome[s],
         \/ UNCHANGED ledger
         \/ \E x \in Experiments, q \in Runners, st \in States \ {"RUNNING"} :
              AppendTo(x, StateRecord(q, st))
  PROVE  RunOk(ledger'[job'[s]], s, Behind(s)')
<1>1. Behind(s)' = Behind(s) /\ job'[s] = job[s] BY DEF Behind
<1>2. RunOk(ledger[job[s]], s, Behind(s)) BY DEF RunInv
<1>3. CASE UNCHANGED ledger BY <1>1, <1>2, <1>3
<1>4. CASE \E x \in Experiments, q \in Runners, st \in States \ {"RUNNING"} :
             AppendTo(x, StateRecord(q, st))
  <2>1. PICK x \in Experiments, q \in Runners, st \in States \ {"RUNNING"} :
          AppendTo(x, StateRecord(q, st))
    BY <1>4
  <2>2. StateRecord(q, st) \in Records BY StateRecordTyped
  <2>3. CASE x = job[s]
    <3>1. ledger[x] \in Seq(Records) /\ ledger'[x] = Append(ledger[x], StateRecord(q, st))
      BY <2>1, <2>2, AppendToAt
    <3>2. RunOk(Append(ledger[x], StateRecord(q, st)), s, Behind(s))
      BY <1>2, <2>3, <3>1, BehindTyped, RunKept
    <3> QED BY <1>1, <2>3, <3>1, <3>2
  <2>4. CASE x # job[s]
    <3>1. job[s] \in Experiments BY DEF TypeInv
    <3>2. ledger'[job[s]] = ledger[job[s]] BY <2>1, <2>2, <2>4, <3>1, AppendToAt
    <3> QED BY <1>1, <1>2, <3>2
  <2> QED BY <2>3, <2>4
<1> QED BY <1>3, <1>4

(* A runner that is not between its start and its end says nothing new.    *)
LEMMA RunOthers ==
  ASSUME TypeInv, RunInv, NEW r \in Runners, UNCHANGED job,
         \A s \in Runners \ {r} : pc'[s] = pc[s] /\ at'[s] = at[s] /\ outcome'[s] = outcome[s],
         \A s \in Runners \ {r} : pc[s] \in HoldingPcs =>
           \/ UNCHANGED ledger
           \/ \E x \in Experiments, q \in Runners, st \in States \ {"RUNNING"} :
                AppendTo(x, StateRecord(q, st)),
         pc'[r] \in HoldingPcs => RunOk(ledger'[job'[r]], r, Behind(r)')
  PROVE  RunInv'
<1> SUFFICES ASSUME NEW s \in Runners, pc'[s] \in HoldingPcs
             PROVE  RunOk(ledger'[job'[s]], s, Behind(s)')
  BY DEF RunInv
<1>1. CASE s = r BY <1>1
<1>2. CASE s # r BY <1>2, OtherKept
<1> QED BY <1>1, <1>2

LEMMA LoadLedger ==
  ASSUME TypeInv, LockInv, LedgerInv, NEW r \in Runners, Load(r)
  PROVE  LedgerInv'
<1>0. "BLOCKED" \in States \ {"RUNNING", "GENERATION_COMPLETE"} /\ job[r] \in Experiments
  BY DEF States, TypeInv
<1>1. UNCHANGED <<job, at, outcome>> /\ pc[r] = "idle" BY DEF Load, local
<1>2. pc'[r] \notin HoldingPcs /\ \A s \in Runners \ {r} : pc'[s] = pc[s]
  BY GotoMoves DEF Load, Pcs, HoldingPcs
<1>3. UNCHANGED ledger \/ AppendTo(job[r], StateRecord(r, "BLOCKED")) BY DEF Load
<1>4. RunInv' BY <1>0, <1>1, <1>2, <1>3, RunOthers DEF LedgerInv
<1>5. CompleteInv' /\ StagesGated'
  <2>1. CASE UNCHANGED ledger BY <2>1, LedgerSame
  <2>2. CASE AppendTo(job[r], StateRecord(r, "BLOCKED")) BY <2>2, <1>0, StateAppend
  <2> QED BY <1>3, <2>1, <2>2
<1> QED BY <1>4, <1>5 DEF LedgerInv

LEMMA AcquireLedger ==
  ASSUME TypeInv, LockInv, LedgerInv, NEW r \in Runners, Acquire(r)
  PROVE  LedgerInv'
<1> DEFINE rec == StateRecord(r, "RUNNING")
<1>0. "RUNNING" \in States /\ job[r] \in Experiments BY DEF States, TypeInv
<1>1. UNCHANGED <<job, at, outcome>> /\ lock = Nobody /\ pc[r] = "lock"
  BY DEF Acquire, LockFree, local
<1>2. pc'[r] = "stage" /\ \A s \in Runners \ {r} : pc'[s] = pc[s]
  BY GotoMoves DEF Acquire, Pcs
<1>3. rec \in Records /\ rec.stage = "state" /\ rec.state = "RUNNING" BY <1>0, StateRecordTyped
<1>4. AppendTo(job[r], rec) BY DEF Acquire
<1>5. \A s \in Runners : pc[s] \notin HoldingPcs
  BY <1>1, ControllerAssumption DEF LockInv
<1>6. RunOk(ledger'[job'[r]], r, Behind(r)')
  <2>1. ledger[job[r]] \in Seq(Records) /\ ledger'[job[r]] = Append(ledger[job[r]], rec)
    BY <1>0, <1>3, <1>4, AppendToAt
  <2>2. LatestRun(ledger'[job'[r]], r) BY <1>1, <1>3, <2>1, LatestNew
  <2>3. Behind(r)' = 0 BY <1>1, <1>2 DEF LockInv, Behind
  <2> QED BY <2>2, <2>3 DEF RunOk
<1>7. RunInv' BY <1>1, <1>2, <1>5, <1>6, RunOthers DEF LedgerInv
<1> HIDE DEF rec
<1>8. CompleteInv' BY <1>0, <1>3, <1>4, CompleteAppend DEF LedgerInv
<1>9. StagesGated'
  <2>1. \A k \in 1 .. 5 : rec.stage # STAGE_ORDER[k] BY <1>3, StageOrder
  <2> QED BY <1>0, <1>3, <1>4, <2>1, GatedAppend DEF LedgerInv
<1> QED BY <1>7, <1>8, <1>9 DEF LedgerInv

LEMMA GiveUpLedger ==
  ASSUME TypeInv, LockInv, LedgerInv, NEW r \in Runners, GiveUp(r)
  PROVE  LedgerInv'
<1>0. "ENVIRONMENT_INVALID" \in States \ {"RUNNING", "GENERATION_COMPLETE"} /\ job[r] \in Experiments
  BY DEF States, TypeInv
<1>1. UNCHANGED <<job, at, outcome>> BY DEF GiveUp, local
<1>2. pc'[r] \notin HoldingPcs /\ \A s \in Runners \ {r} : pc'[s] = pc[s]
  BY GotoMoves DEF GiveUp, Pcs, HoldingPcs
<1>3. AppendTo(job[r], StateRecord(r, "ENVIRONMENT_INVALID")) BY DEF GiveUp
<1>4. RunInv' BY <1>0, <1>1, <1>2, <1>3, RunOthers DEF LedgerInv
<1>5. CompleteInv' /\ StagesGated' BY <1>3, <1>0, StateAppend
<1> QED BY <1>4, <1>5 DEF LedgerInv

LEMMA StartStageLedger ==
  ASSUME TypeInv, LockInv, LedgerInv, NEW r \in Runners, StartStage(r)
  PROVE  LedgerInv'
<1>0. "BLOCKED" \in States \ {"RUNNING", "GENERATION_COMPLETE"} /\ job[r] \in Experiments
  BY DEF States, TypeInv
<1>1. UNCHANGED <<job, at, outcome>> /\ pc[r] = "stage" BY DEF StartStage, local
<1>2. CASE AppendTo(job[r], StateRecord(r, "BLOCKED")) /\ Finish(r)
  <2>1. pc'[r] \notin HoldingPcs /\ \A s \in Runners \ {r} : pc'[s] = pc[s]
    BY <1>2, FinishMoves DEF HoldingPcs
  <2>2. RunInv' BY <1>0, <1>1, <1>2, <2>1, RunOthers DEF LedgerInv
  <2>3. CompleteInv' /\ StagesGated' BY <1>2, <1>0, StateAppend
  <2> QED BY <2>2, <2>3 DEF LedgerInv
<1>3. CASE Goto(r, "exec") /\ UNCHANGED ledger
  <2>1. pc'[r] = "exec" /\ \A s \in Runners \ {r} : pc'[s] = pc[s]
    BY <1>3, GotoMoves DEF Pcs
  <2>2. RunOk(ledger'[job'[r]], r, Behind(r)')
    <3>1. Behind(r)' = Behind(r) BY <1>1, <2>1 DEF Behind
    <3>2. RunOk(ledger[job[r]], r, Behind(r)) BY <1>1 DEF LedgerInv, RunInv, HoldingPcs
    <3> QED BY <1>1, <1>3, <3>1, <3>2
  <2>3. RunInv' BY <1>1, <1>3, <2>1, <2>2, RunOthers DEF LedgerInv
  <2>4. CompleteInv' /\ StagesGated'
    BY <1>3, LedgerSame
  <2> QED BY <2>3, <2>4 DEF LedgerInv
<1> QED BY <1>2, <1>3 DEF StartStage

LEMMA CollectLedger ==
  ASSUME TypeInv, LockInv, LedgerInv, NEW r \in Runners, Collect(r)
  PROVE  LedgerInv'
<1> DEFINE rec == [run |-> r, stage |-> Stage(r), ok |-> StageResult(r).ok,
                   by |-> metrics[job[r]][Stage(r)].by, bin |-> used[r]]
           recs == ledger[job[r]]
<1>0. at[r] \in 1 .. 5 /\ job[r] \in Experiments /\ pc[r] = "exec" BY DEF TypeInv, Collect
<1>1. UNCHANGED <<job, at>> BY DEF Collect
<1>2. pc'[r] = "state" /\ \A s \in Runners \ {r} : pc'[s] = pc[s]
  BY GotoMoves DEF Collect, Pcs
<1>3. outcome'[r] = StageResult(r) /\ \A s \in Runners \ {r} : outcome'[s] = outcome[s]
  BY DEF Collect, TypeInv
<1>4. rec \in Records /\ rec.run = r /\ rec.stage = STAGE_ORDER[at[r]]
      /\ rec.ok = StageResult(r).ok
  <2>1. StageResult(r) \in [ok : BOOLEAN, reason : Reasons] /\ Stage(r) \in StageIds BY StageTyped
  <2>2. metrics[job[r]][Stage(r)] \in FileSet /\ used[r] \in Versions BY <1>0, <2>1 DEF TypeInv
  <2> QED BY <2>1, <2>2 DEF Records, StageRecordSet, FileSet, Stage
<1>5. AppendTo(job[r], rec) BY DEF Collect
<1> HIDE DEF rec
<1>6. recs \in Seq(Records) /\ ledger'[job[r]] = Append(recs, rec) BY <1>0, <1>4, <1>5, AppendToAt
<1>7. RunOk(recs, rec.run, at[r] - 1)
  <2>1. RunOk(ledger[job[r]], r, Behind(r)) BY <1>0 DEF LedgerInv, RunInv, HoldingPcs
  <2>2. Behind(r) = at[r] - 1 BY <1>0 DEF Behind
  <2> QED BY <2>1, <2>2, <1>4
<1>8. RunOk(ledger'[job'[r]], r, Behind(r)')
  <2>1. RunOk(Append(recs, rec), r, IF rec.ok THEN at[r] ELSE at[r] - 1)
    BY <1>0, <1>4, <1>6, <1>7, RunGrows
  <2>2. Behind(r)' = IF rec.ok THEN at[r] ELSE at[r] - 1
    BY <1>1, <1>2, <1>3, <1>4 DEF Behind
  <2> QED BY <1>1, <1>6, <2>1, <2>2
<1>9. RunInv'
  <2>1. \A s \in Runners \ {r} : pc[s] \notin HoldingPcs BY <1>0, OneHolder DEF HoldingPcs
  <2> QED BY <1>1, <1>2, <1>3, <1>8, <2>1, RunOthers DEF LedgerInv
<1>10. CompleteInv'
  <2>1. rec.stage # "state" BY <1>0, <1>4, StageOrder
  <2> QED BY <1>0, <1>4, <1>5, <2>1, CompleteAppend DEF LedgerInv
<1>11. StagesGated'
  <2>1. ASSUME NEW k \in 1 .. 5, rec.stage = STAGE_ORDER[k] PROVE k = at[r]
    <3>1. STAGE_ORDER[k] = STAGE_ORDER[at[r]] BY <1>4, <2>1
    <3>2. \A i, m \in 1 .. 5 : STAGE_ORDER[i] = STAGE_ORDER[m] => i = m BY StageOrder
    <3> QED BY <1>0, <3>1, <3>2
  <2>2. \A m \in 1 .. at[r] - 1 : LastIs(recs, STAGE_ORDER[m], rec.run) BY <1>7 DEF RunOk
  <2> QED BY <1>0, <1>4, <1>5, <2>1, <2>2, GatedAppend DEF LedgerInv
<1> QED BY <1>9, <1>10, <1>11 DEF LedgerInv

LEMMA SetStateLedger ==
  ASSUME TypeInv, LockInv, LedgerInv, NEW r \in Runners, SetState(r)
  PROVE  LedgerInv'
<1> DEFINE passed == StateRecord(r, STATE_AFTER[Stage(r)])
           failed == classify_failure(Stage(r), outcome[r].reason)
<1>0. at[r] \in 1 .. 5 /\ job[r] \in Experiments /\ pc[r] = "state"
  BY DEF TypeInv, SetState
<1>1. UNCHANGED job /\ \A s \in Runners \ {r} : outcome'[s] = outcome[s] /\ at'[s] = at[s]
  BY DEF SetState, TypeInv
<1>2. \A s \in Runners \ {r} : pc[s] \notin HoldingPcs BY <1>0, OneHolder DEF HoldingPcs
<1>3. Finish(r) => pc'[r] \notin HoldingPcs /\ \A s \in Runners \ {r} : pc'[s] = pc[s]
  BY FinishMoves DEF HoldingPcs
<1>4. RunOk(ledger[job[r]], r, Behind(r)) BY <1>0 DEF LedgerInv, RunInv, HoldingPcs
<1>5. CASE ~Passed(r) /\ AppendTo(job[r], StateRecord(r, failed)) /\ Finish(r)
  <2>1. RunInv' BY <1>1, <1>2, <1>3, <1>5, RunOthers DEF LedgerInv
  <2>2. failed \in States \ {"RUNNING", "GENERATION_COMPLETE"} BY StateNames
  <2>3. CompleteInv' /\ StagesGated' BY <1>0, <1>5, <2>2, StateAppend
  <2> QED BY <2>1, <2>3 DEF LedgerInv
<1>6. ASSUME Passed(r), AppendTo(job[r], passed)
      PROVE  /\ RunOk(ledger'[job[r]], r, at[r])
             /\ passed \in Records /\ passed.stage = "state" /\ passed.run = r
             /\ passed.state = STATE_AFTER[STAGE_ORDER[at[r]]]
             /\ ledger'[job[r]] = Append(ledger[job[r]], passed)
  <2>1. STATE_AFTER[Stage(r)] \in States \ {"RUNNING"} BY <1>0, StateNames DEF Stage
  <2>2. passed \in Records /\ passed.stage = "state" /\ passed.run = r
        /\ passed.state = STATE_AFTER[STAGE_ORDER[at[r]]]
    BY <2>1, StateRecordTyped DEF Stage
  <2>3. ledger[job[r]] \in Seq(Records) /\ ledger'[job[r]] = Append(ledger[job[r]], passed)
    BY <1>0, <1>6, <2>2, AppendToAt
  <2>4. Behind(r) = at[r] BY <1>0, <1>6 DEF Behind, Passed
  <2>5. RunOk(Append(ledger[job[r]], passed), r, at[r])
    BY <1>0, <1>4, <2>1, <2>3, <2>4, RunKept
  <2> QED BY <2>2, <2>3, <2>5
<1> HIDE DEF passed
<1>7. ASSUME Passed(r), AppendTo(job[r], passed)
      PROVE  CompleteInv' /\ StagesGated'
  <2>1. passed.state = "GENERATION_COMPLETE" => at[r] = 5 BY <1>0, <1>6, <1>7, StateNames
  <2>2. CompleteInv' BY <1>0, <1>6, <1>7, <2>1, CompleteAppend DEF LedgerInv
  <2>3. \A k \in 1 .. 5 : passed.stage # STAGE_ORDER[k] BY <1>6, <1>7, StageOrder
  <2>4. StagesGated' BY <1>0, <1>6, <1>7, <2>3, GatedAppend DEF LedgerInv
  <2> QED BY <2>2, <2>4
<1>8. CASE Passed(r) /\ AppendTo(job[r], passed) /\ Finish(r)
  <2>1. RunInv' BY <1>1, <1>2, <1>3, <1>8, RunOthers DEF LedgerInv
  <2> QED BY <2>1, <1>7, <1>8 DEF LedgerInv
<1>9. CASE /\ Passed(r) /\ AppendTo(job[r], passed)
           /\ at' = [at EXCEPT ![r] = @ + 1] /\ Goto(r, "stage")
  <2>1. pc'[r] = "stage" /\ \A s \in Runners \ {r} : pc'[s] = pc[s]
    BY <1>9, GotoMoves DEF Pcs
  <2>2. Behind(r)' = at[r]
    <3>1. at'[r] = at[r] + 1 BY <1>9 DEF TypeInv
    <3> QED BY <1>0, <2>1, <3>1 DEF Behind
  <2>3. RunOk(ledger'[job'[r]], r, Behind(r)') BY <1>1, <1>6, <1>9, <2>2
  <2>4. RunInv' BY <1>1, <1>2, <2>1, <2>3, RunOthers DEF LedgerInv
  <2> QED BY <2>4, <1>7, <1>9 DEF LedgerInv
<1> QED BY <1>5, <1>8, <1>9 DEF SetState, passed

LEMMA QuietLedger ==
  ASSUME LedgerInv, UNCHANGED <<ledger, job, at, outcome>>,
         \A s \in Runners : pc'[s] = pc[s] \/ pc'[s] \notin HoldingPcs
  PROVE  LedgerInv'
<1>1. RunInv' BY DEF LedgerInv, RunInv, Behind
<1>2. CompleteInv' /\ StagesGated' BY LedgerSame
<1> QED BY <1>1, <1>2 DEF LedgerInv

LEMMA RunnerLedger ==
  ASSUME TypeInv, LockInv, LedgerInv, NEW r \in Runners,
         Load(r) \/ Runner(r) \/ Timeout(r) \/ RunChild(r) \/ Crash(r)
  PROVE  LedgerInv'
<1>1. CASE LastAttemptFails(r)
  <2>1. pc'[r] = "busy" /\ \A s \in Runners \ {r} : pc'[s] = pc[s]
    BY <1>1, GotoMoves DEF LastAttemptFails, Pcs
  <2> QED BY <1>1, <2>1, QuietLedger DEF LastAttemptFails, local, HoldingPcs
<1>2. CASE Timeout(r) BY <1>2, QuietLedger DEF Timeout
<1>3. CASE RunChild(r) BY <1>3, QuietLedger DEF RunChild
<1>4. CASE Crash(r)
  <2>1. /\ pc'[r] \notin HoldingPcs
        /\ \A s \in Runners \ {r} : pc'[s] = pc[s] /\ outcome'[s] = outcome[s]
        /\ UNCHANGED <<ledger, job, at>>
    BY <1>4, FinishMoves DEF Crash, HoldingPcs, TypeInv
  <2>2. RunInv' BY <2>1 DEF LedgerInv, RunInv, Behind
  <2>3. CompleteInv' /\ StagesGated' BY <2>1, LedgerSame
  <2> QED BY <2>2, <2>3 DEF LedgerInv
<1> QED BY <1>1, <1>2, <1>3, <1>4, LoadLedger, AcquireLedger, GiveUpLedger, StartStageLedger,
           CollectLedger, SetStateLedger DEF Runner

LEMMA WorldLedger ==
  ASSUME LedgerInv,
         \/ \E o \in orphans : RunOrphan(o)
         \/ \E x \in Experiments : Rebuild(x)
         \/ OperatorReleases
         \/ UNCHANGED vars
  PROVE  LedgerInv'
<1>1. UNCHANGED <<ledger, job, at, outcome, pc>>
  BY DEF RunOrphan, Rebuild, OperatorReleases, vars, local
<1> QED BY <1>1, QuietLedger

LEMMA LedgerStep == TypeInv /\ LockInv /\ LedgerInv /\ [Next]_vars => LedgerInv'
BY RunnerLedger, WorldLedger DEF Next

LEMMA InitLedger == Init => LedgerInv
<1> SUFFICES ASSUME Init PROVE LedgerInv OBVIOUS
<1>1. RunInv BY DEF Init, RunInv, HoldingPcs
<1>2. \A x \in Experiments : ledger[x] = <<>> BY DEF Init
<1>3. CompleteInv BY <1>2 DEF CompleteInv, Completed
<1>4. \A x \in Experiments : Gated(ledger[x]) BY <1>2 DEF Gated
<1> QED BY <1>1, <1>3, <1>4, GatedAll DEF LedgerInv

IInv == TypeInv /\ LockInv /\ LedgerInv

LEMMA Inductive == Spec => []IInv
<1>1. Init => IInv BY InitTyped, InitLock, InitLedger DEF IInv
<1>2. IInv /\ [Next]_vars => IInv' BY TypeStep, LockStep, LedgerStep DEF IInv
<1> QED BY <1>1, <1>2, PTL DEF Spec

(* The record of a stage follows passing records of all stages before it,
   of the same run: whoever else appends, and wherever runs ended, no
   correctness failure is followed by a performance stage (main's loop).   *)
THEOREM CorrectnessGatesPerformance == Spec => []StagesGated
<1>1. IInv => StagesGated BY DEF IInv, LedgerInv
<1> QED BY <1>1, Inductive, PTL

(* A ledger that ends complete has a last run that passed each stage with
   the last record of that stage, and no start after its own.              *)
LEMMA Qualifies == TypeInv /\ CompleteInv => OneRunQualifies
<1> SUFFICES ASSUME TypeInv, CompleteInv, NEW x \in Experiments, Scored(ledger[x])
             PROVE  LET recs == ledger[x] IN
                    /\ \A sid \in StageIds : \E i \in StageRecords(recs, sid) :
                         /\ recs[i].ok /\ recs[i].run = Last(recs).run
                         /\ \A j \in StageRecords(recs, sid) : j <= i
                    /\ \A i \in DOMAIN recs : recs[i] = StateRecord(recs[i].run, "RUNNING") =>
                         \E j \in i .. Len(recs) : recs[j] = StateRecord(Last(recs).run, "RUNNING")
  BY DEF OneRunQualifies
<1> DEFINE recs == ledger[x]
           q == Last(recs).run
<1>1. RunOk(recs, q, 5) BY DEF CompleteInv, Scored
<1>2. ASSUME NEW sid \in StageIds PROVE LastIs(recs, sid, q)
  <2>1. PICK k \in 1 .. 5 : STAGE_ORDER[k] = sid BY StageOrder
  <2> QED BY <1>1, <2>1 DEF RunOk
<1>3. LatestRun(recs, q) BY <1>1 DEF RunOk
<1> QED BY <1>2, <1>3 DEF LastIs, LatestRun

(* What compare.py scores is one run: the last one started, by the last
   record of every stage (compare.py's last_metrics and chain).            *)
THEOREM ScoreRestsOnOneRun == Spec => []OneRunQualifies
<1>1. IInv => OneRunQualifies BY Qualifies DEF IInv, LedgerInv
<1> QED BY <1>1, Inductive, PTL

-----------------------------------------------------------------------------
(* Metrics files *)

(* A step that leaves the files of running stages alone.                   *)
LEMMA FilesQuiet ==
  ASSUME MetricsInv, UNCHANGED <<metrics, job>>, orphaned \subseteq orphaned',
         \A o \in orphans' : o.exp \in orphaned',
         \A s \in Runners : pc'[s] = "exec" => pc[s] = "exec" /\ at'[s] = at[s]
  PROVE  MetricsInv'
BY DEF MetricsInv, Stage

LEMMA RunnerFiles ==
  ASSUME TypeInv, LockInv, MetricsInv, NEW r \in Runners,
         Load(r) \/ Runner(r) \/ Timeout(r) \/ RunChild(r) \/ Crash(r)
  PROVE  MetricsInv' /\ orphaned \subseteq orphaned'
<1>p. \A label \in Pcs : Goto(r, label) => pc'[r] = label /\ \A s \in Runners \ {r} : pc'[s] = pc[s]
  BY GotoMoves
<1>f. Finish(r) => pc'[r] = "done" /\ \A s \in Runners \ {r} : pc'[s] = pc[s]
  BY FinishMoves
<1>o. \A o \in orphans : o.exp \in orphaned BY DEF MetricsInv
<1>1. CASE Load(r) BY <1>1, <1>p, <1>o, FilesQuiet DEF Load, Pcs, local, ghosts
<1>2. CASE Acquire(r) BY <1>2, <1>p, <1>o, FilesQuiet DEF Acquire, Pcs, local, ghosts
<1>3. CASE LastAttemptFails(r)
  BY <1>3, <1>p, <1>o, FilesQuiet DEF LastAttemptFails, Pcs, local, ghosts
<1>4. CASE GiveUp(r) BY <1>4, <1>p, <1>o, FilesQuiet DEF GiveUp, Pcs, local, ghosts
<1>5. CASE StartStage(r)
  <2>1. CASE Finish(r) /\ UNCHANGED <<metrics, local>>
    BY <1>5, <2>1, <1>f, <1>o, FilesQuiet DEF StartStage, local, ghosts
  <2>2. CASE metrics' = UnlinkedMetrics(job[r], Stage(r)) /\ Goto(r, "exec") /\ UNCHANGED <<job, at>>
    <3>1. pc[r] = "stage" /\ UNCHANGED ghosts BY <1>5 DEF StartStage
    <3>2. pc'[r] = "exec" /\ \A s \in Runners \ {r} : pc'[s] = pc[s] BY <2>2, <1>p DEF Pcs
    <3>3. \A s \in Runners \ {r} : pc'[s] # "exec" BY <3>1, <3>2, OneHolder DEF HoldingPcs
    <3>4. job[r] \in Experiments /\ Stage(r) \in StageIds BY StageTyped DEF TypeInv
    <3>5. metrics'[job[r]][Stage(r)] = NoFile
      BY <2>2, <3>4 DEF UnlinkedMetrics, TypeInv
    <3>6. metrics'[job'[r]][Stage(r)'].by \in {r, Nobody}
      BY <2>2, <3>5 DEF NoFile, Stage
    <3> QED BY <3>1, <3>3, <3>6, <1>o DEF MetricsInv, ghosts
  <2> QED BY <1>5, <2>1, <2>2 DEF StartStage
<1>6. CASE Collect(r) BY <1>6, <1>p, <1>o, FilesQuiet DEF Collect, Pcs, ghosts
<1>7. CASE SetState(r)
  <2>1. pc'[r] # "exec" /\ \A s \in Runners \ {r} : pc'[s] = pc[s] /\ at'[s] = at[s]
    BY <1>7, <1>p, <1>f DEF SetState, Pcs, TypeInv
  <2>2. UNCHANGED <<metrics, job, ghosts>> BY <1>7 DEF SetState
  <2> QED BY <2>1, <2>2, <1>o, FilesQuiet DEF ghosts
<1>8. CASE Timeout(r)
  <2>1. orphaned \subseteq orphaned' /\ \A o \in orphans' : o.exp \in orphaned'
    BY <1>8, <1>o DEF Timeout, LeaveOrphan, ghosts
  <2> QED BY <1>8, <2>1, FilesQuiet DEF Timeout
<1>9. CASE RunChild(r)
  <2>1. UNCHANGED <<pc, job, at>> /\ child[r] = "up" BY <1>9 DEF RunChild
  <2>o. orphaned \subseteq orphaned' /\ \A o \in orphans' : o.exp \in orphaned'
    BY <1>9, <1>o DEF RunChild, LeaveOrphan, ghosts
  <2>2. CASE UNCHANGED metrics BY <2>1, <2>2, <2>o, FilesQuiet
  <2>3. CASE \E file \in Files(r) : metrics' = [metrics EXCEPT ![job[r]][Stage(r)] = file]
    <3>1. PICK file \in Files(r) : metrics' = [metrics EXCEPT ![job[r]][Stage(r)] = file]
      BY <2>3
    <3>2. file.by = r BY DEF Files
    <3>3. \A s \in Runners \ {r} : pc[s] # "exec" BY <2>1, ChildHolds, OneHolder DEF HoldingPcs
    <3>4. job[r] \in Experiments /\ Stage(r) \in StageIds BY StageTyped DEF TypeInv
    <3>5. metrics'[job[r]][Stage(r)].by = r BY <3>1, <3>2, <3>4 DEF TypeInv
    <3>6. Stage(r)' = Stage(r) BY <2>1 DEF Stage
    <3> QED BY <2>1, <3>3, <3>5, <3>6, <2>o DEF MetricsInv
  <2> QED BY <1>9, <2>o, <2>2, <2>3 DEF RunChild
<1>10. CASE Crash(r)
  <2>1. orphaned \subseteq orphaned' /\ \A o \in orphans' : o.exp \in orphaned'
    BY <1>10, <1>o DEF Crash, LeaveOrphan, ghosts
  <2> QED BY <1>10, <2>1, <1>f, FilesQuiet DEF Crash
<1> QED BY <1>1, <1>2, <1>3, <1>4, <1>5, <1>6, <1>7, <1>8, <1>9, <1>10 DEF Runner

LEMMA WorldFiles ==
  ASSUME TypeInv, MetricsInv,
         \/ \E o \in orphans : RunOrphan(o)
         \/ \E x \in Experiments : Rebuild(x)
         \/ OperatorReleases
         \/ UNCHANGED vars
  PROVE  MetricsInv' /\ orphaned \subseteq orphaned'
<1>1. CASE \E o \in orphans : RunOrphan(o)
  <2>1. PICK o \in orphans : RunOrphan(o) BY <1>1
  <2>2. orphans' \subseteq orphans /\ UNCHANGED <<orphaned, job, at, pc>> /\ o.exp \in orphaned
    BY <2>1 DEF RunOrphan, local, MetricsInv
  <2>3. \A x \in Experiments \ orphaned : metrics'[x] = metrics[x]
    <3>1. DOMAIN metrics = Experiments BY DEF TypeInv
    <3>2. CASE UNCHANGED metrics BY <3>2
    <3>3. ASSUME NEW file \in Files(o.run), metrics' = [metrics EXCEPT ![o.exp][o.stage] = file]
          PROVE  \A x \in Experiments \ orphaned : metrics'[x] = metrics[x]
      BY ONLY <2>2, <3>1, <3>3
    <3> QED BY <2>1, <3>2, <3>3, Zenon DEF RunOrphan
  <2>4. \A s \in Runners : job[s] \in Experiments BY DEF TypeInv
  <2>5. ASSUME NEW s \in Runners, pc'[s] = "exec", job'[s] \notin orphaned'
        PROVE  metrics'[job'[s]][Stage(s)'].by \in {s, Nobody}
    <3>1. metrics'[job[s]] = metrics[job[s]] BY <2>2, <2>3, <2>4, <2>5
    <3>2. Stage(s)' = Stage(s) BY <2>2 DEF Stage
    <3> QED BY <2>2, <2>5, <3>1, <3>2 DEF MetricsInv
  <2> QED BY <2>2, <2>5 DEF MetricsInv
<1>2. CASE (\E x \in Experiments : Rebuild(x)) \/ OperatorReleases \/ UNCHANGED vars
  <2>1. UNCHANGED <<metrics, job, at, pc, orphans, orphaned>>
    BY <1>2 DEF Rebuild, OperatorReleases, vars, local, ghosts
  <2> QED BY <2>1, FilesQuiet DEF MetricsInv
<1> QED BY <1>1, <1>2

LEMMA FilesStep ==
  TypeInv /\ LockInv /\ MetricsInv /\ [Next]_vars => MetricsInv' /\ orphaned \subseteq orphaned'
BY RunnerFiles, WorldFiles DEF Next

OwnRecords(recs) ==
  \A i \in DOMAIN recs : recs[i].stage # "state" => recs[i].by \in {recs[i].run, Nobody}

LEMMA OwnAppend ==
  ASSUME TypeInv, OwnMetrics, orphaned \subseteq orphaned',
         NEW x \in Experiments, NEW rec \in Records, AppendTo(x, rec),
         rec.stage # "state" /\ x \notin orphaned => rec.by \in {rec.run, Nobody}
  PROVE  OwnMetrics'
<1> SUFFICES ASSUME NEW y \in Experiments, y \notin orphaned' PROVE OwnRecords(ledger'[y])
  BY DEF OwnMetrics, OwnRecords
<1>1. OwnRecords(ledger[y]) BY DEF OwnMetrics, OwnRecords
<1>2. CASE y = x
  <2>1. ledger[x] \in Seq(Records) /\ ledger'[x] = Append(ledger[x], rec) BY AppendToAt
  <2> QED BY <1>1, <1>2, <2>1, Appended DEF OwnRecords
<1>3. CASE y # x BY <1>1, <1>3, AppendToAt
<1> QED BY <1>2, <1>3

LEMMA OwnStep ==
  ASSUME TypeInv, LockInv, MetricsInv, OwnMetrics, [Next]_vars
  PROVE  OwnMetrics'
<1>1. orphaned \subseteq orphaned' BY FilesStep
<1>2. \A r \in Runners : job[r] \in Experiments BY DEF TypeInv
<1>3. ASSUME NEW x \in Experiments, NEW r \in Runners, NEW s \in States,
             AppendTo(x, StateRecord(r, s))
      PROVE  OwnMetrics'
  <2>1. StateRecord(r, s) \in Records /\ StateRecord(r, s).stage = "state" BY StateRecordTyped
  <2> QED BY <1>1, <1>3, <2>1, OwnAppend
<1>4. ASSUME UNCHANGED ledger PROVE OwnMetrics' BY <1>1, <1>4 DEF OwnMetrics
<1>5. ASSUME NEW r \in Runners, Collect(r) PROVE OwnMetrics'
  <2> DEFINE rec == [run |-> r, stage |-> Stage(r), ok |-> StageResult(r).ok,
                     by |-> metrics[job[r]][Stage(r)].by, bin |-> used[r]]
  <2>1. StageResult(r) \in [ok : BOOLEAN, reason : Reasons] /\ Stage(r) \in StageIds BY StageTyped
  <2>2. metrics[job[r]][Stage(r)] \in FileSet /\ used[r] \in Versions BY <1>2, <2>1 DEF TypeInv
  <2>3. rec \in Records BY <2>1, <2>2 DEF Records, StageRecordSet, FileSet
  <2>4. job[r] \notin orphaned => rec.by \in {rec.run, Nobody} BY <1>5 DEF Collect, MetricsInv
  <2>5. AppendTo(job[r], rec) BY <1>5 DEF Collect
  <2> HIDE DEF rec
  <2> QED BY <1>1, <1>2, <2>3, <2>4, <2>5, OwnAppend
<1>6. {"RUNNING", "BLOCKED", "ENVIRONMENT_INVALID"} \subseteq States BY DEF States
<1>7. \A r \in Runners : /\ STATE_AFTER[Stage(r)] \in States
                         /\ classify_failure(Stage(r), outcome[r].reason) \in States
  BY StageTyped, StateNames
<1>8. ASSUME NEW r \in Runners, Load(r) \/ Runner(r) \/ Timeout(r) \/ RunChild(r) \/ Crash(r)
      PROVE  OwnMetrics'
  <2>1. CASE Load(r) BY <2>1, <1>2, <1>3, <1>4, <1>6 DEF Load
  <2>2. CASE Acquire(r) BY <2>2, <1>2, <1>3, <1>6 DEF Acquire
  <2>3. CASE GiveUp(r) BY <2>3, <1>2, <1>3, <1>6 DEF GiveUp
  <2>4. CASE StartStage(r) BY <2>4, <1>2, <1>3, <1>4, <1>6 DEF StartStage
  <2>5. CASE SetState(r) BY <2>5, <1>2, <1>3, <1>7 DEF SetState
  <2>6. CASE LastAttemptFails(r) \/ Timeout(r) \/ RunChild(r) \/ Crash(r)
    BY <2>6, <1>4 DEF LastAttemptFails, Timeout, RunChild, Crash
  <2> QED BY <1>5, <1>8, <2>1, <2>2, <2>3, <2>4, <2>5, <2>6 DEF Runner
<1>9. ASSUME \/ \E o \in orphans : RunOrphan(o)
             \/ \E x \in Experiments : Rebuild(x)
             \/ OperatorReleases
             \/ UNCHANGED vars
      PROVE  OwnMetrics'
  BY <1>4, <1>9 DEF RunOrphan, Rebuild, OperatorReleases, vars
<1> QED BY <1>8, <1>9 DEF Next

(* As long as no process of the experiment was left behind, a stage passes
   on what its own process wrote, or on no file: run_stage's unlink and the
   lock together keep every earlier file out.                              *)
THEOREM StagesReadOwnMetrics == Spec => []OwnMetrics
<1>1. Init => MetricsInv /\ OwnMetrics BY DEF Init, MetricsInv, OwnMetrics
<1>2. IInv /\ MetricsInv /\ OwnMetrics /\ [Next]_vars => MetricsInv' /\ OwnMetrics'
  BY FilesStep, OwnStep DEF IInv
<1>3. Spec => [](MetricsInv /\ OwnMetrics) BY <1>1, <1>2, Inductive, PTL DEF Spec
<1> QED BY <1>3, PTL

-----------------------------------------------------------------------------
(***************************************************************************)
(* The verdict of compare.py, by which the controller's score stands, for   *)
(* any set of holdout workloads and after any sequence of measurements.     *)
(* Two of the three promises are about the order of the verdict's branches  *)
(* alone; that a worse measurement never passes also needs the classes of   *)
(* the intervals to be the four that are ranked (ClassInv).                 *)
(***************************************************************************)

ClassInv == series \in [Workloads -> [Series -> Classes]]

LEMMA ClassInit == NothingMeasured => ClassInv
BY DEF NothingMeasured, ClassInv, Classes

LEMMA ClassStep == ClassInv /\ [Measure]_measured => ClassInv'
<1> SUFFICES ASSUME ClassInv, [Measure]_measured PROVE ClassInv' OBVIOUS
<1>1. ASSUME NEW w \in Workloads, NEW s \in Series, Remeasure(w, s) PROVE ClassInv'
  <2>1. PICK c \in Classes : series' = [series EXCEPT ![w][s] = c] BY <1>1 DEF Remeasure
  <2>2. [series[w] EXCEPT ![s] = c] \in [Series -> Classes] BY DEF ClassInv
  <2> QED BY <2>1, <2>2 DEF ClassInv
<1>2. ASSUME series' = series PROVE ClassInv' BY <1>2 DEF ClassInv
<1>3. CASE \E w \in Workloads : Memory(w) BY <1>2, <1>3 DEF Memory
<1>4. CASE Speedup \/ Confirmation \/ Samples \/ Correctness
  BY <1>2, <1>4 DEF Speedup, Confirmation, Samples, Correctness
<1>5. CASE UNCHANGED measured BY <1>2, <1>5 DEF measured
<1> QED BY <1>1, <1>3, <1>4, <1>5 DEF Measure

LEMMA Classified == Campaign => []ClassInv
<1> QED BY ClassInit, ClassStep, PTL DEF Campaign

(* What the branches before PASS have ruled out.                            *)
LEMMA PassMeans ==
  Verdict = "PASS" <=>
    /\ correct /\ ~invalid /\ fast /\ confirm = "faster"
    /\ \A w \in Workloads : fits[w] /\ \A s \in Series : series[w][s] = "fine"
<1>1. Verdict = "PASS" <=>
        /\ correct /\ ~invalid /\ Usable(Primary) /\ Regressed = {}
        /\ fast /\ confirm = "faster"
  BY DEF Verdict
<1>2. Regressed = {} <=>
        \A w \in Workloads : Usable(w) /\ fits[w] /\ \A s \in Series : series[w][s] = "fine"
  BY DEF Regressed
<1>3. \A w : (\A s \in Series : series[w][s] = "fine") => Usable(w) BY DEF Usable, Series
<1>4. Primary \in Workloads BY DEF Workloads
<1> QED BY <1>1, <1>2, <1>3, <1>4

LEMMA OnlyFineIsBest ==
  ASSUME NEW c \in Classes, Rank(c) >= Rank("fine")
  PROVE  c = "fine"
BY DEF Classes, Rank

(* A worse measurement leaves no branch for PASS that was not there before.  *)
LEMMA PassWasThere ==
  ASSUME ClassInv, ClassInv', NoBetter, Verdict' = "PASS"
  PROVE  Verdict = "PASS"
<1>1. /\ correct' /\ ~invalid' /\ fast' /\ confirm' = "faster"
      /\ \A w \in Workloads : fits'[w] /\ \A s \in Series : series'[w][s] = "fine"
  <2>1. (Verdict = "PASS" <=>
          /\ correct /\ ~invalid /\ fast /\ confirm = "faster"
          /\ \A w \in Workloads : fits[w] /\ \A s \in Series : series[w][s] = "fine")'
    BY PassMeans, PTL
  <2> QED BY <2>1
<1>2. ASSUME NEW w \in Workloads, NEW s \in Series PROVE series[w][s] = "fine"
  <2>1. series[w][s] \in Classes BY DEF ClassInv
  <2>2. series'[w][s] = "fine" BY <1>1
  <2>3. Rank(series'[w][s]) <= Rank(series[w][s]) BY DEF NoBetter
  <2>4. Rank(series[w][s]) \in Int /\ Rank("fine") \in Int BY <2>1 DEF Classes, Rank
  <2>5. Rank(series[w][s]) >= Rank("fine") BY <2>2, <2>3, <2>4
  <2> QED BY <2>1, <2>5, OnlyFineIsBest
<1>3. correct /\ ~invalid /\ fast /\ confirm = "faster" /\ \A w \in Workloads : fits[w]
  BY <1>1 DEF NoBetter
<1> QED BY <1>2, <1>3, PassMeans
-----------------------------------------------------------------------------
(* The properties *)

(* compare.py answers PASS only on complete measurements, all of them wholly
   above the regression limit, with the candidate found correct and the reserved
   pairs faster. *)
THEOREM PassesOnlyComplete == Campaign => []PassIsComplete
<1>1. PassIsComplete BY PassMeans DEF PassIsComplete
<1> QED BY <1>1, PTL

(* compare.py answers REGRESSION only when the interval of some paired series is
   wholly below the limit. *)
THEOREM RegressesOnlyForCertain == Campaign => []RegressionIsCertain
<1>1. RegressionIsCertain
  <2> SUFFICES ASSUME Verdict = "REGRESSION"
               PROVE  correct /\ \E w \in Workloads, s \in Series : series[w][s] = "regressed"
    BY DEF RegressionIsCertain
  <2>1. correct /\ \E w \in Regressed : Confirmed(w) BY DEF Verdict
  <2>2. PICK w \in Workloads : Confirmed(w) BY <2>1 DEF Regressed
  <2>3. \E s \in Series : series[w][s] = "regressed" BY <2>2 DEF Confirmed, Series
  <2> QED BY <2>1, <2>2, <2>3
<1> QED BY <1>1, PTL

(* No measurement that says less than the one it replaces turns compare.py's
   verdict into PASS. *)
THEOREM WorseDoesNotPass == Campaign => WorseNeverPasses
<1>1. ClassInv /\ ClassInv' /\ [Measure]_measured =>
        [NoBetter /\ Verdict' = "PASS" => Verdict = "PASS"]_measured
  BY PassWasThere
<1> QED BY <1>1, Classified, PTL DEF Campaign, WorseNeverPasses
=============================================================================
