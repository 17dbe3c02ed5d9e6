--------------------------- MODULE FrozenArtifacts ---------------------------
(***************************************************************************)
(* tools/freeze_policy.py and tools/capture_baseline.py: the acceptance     *)
(* policy, the baseline binary and the baseline records, which are written  *)
(* once and then referred to by their hashes.  Every tool checks, works and *)
(* publishes in separate steps; it may be killed between any two, and run   *)
(* again.  Captures may overlap; policies are frozen one at a time (two     *)
(* overlapping freezers share one .tmp file, which nothing prevents).       *)
(*                                                                          *)
(* A file's content stands for its hash.  Absent is no file, a sequence     *)
(* shorter than Chunks a file partly written or hashed, Partial text that   *)
(* is not all there or is mixed of two writers.                             *)
(***************************************************************************)
EXTENDS Integers, Sequences, Files

CONSTANTS
  Captures,   \* capture_baseline processes that may run at a time
  Fills,      \* measured gates: the content of a policy
  Complete,   \* the fills that leave no gate unset
  Versions,   \* builds of the installed extension
  Chunks      \* bound: reads that copy a binary

ASSUME FrozenAssumption ==
  /\ Complete \subseteq Fills /\ Chunks \in Nat \ {0}
  /\ {Absent, Partial} \cap Fills = {} /\ Absent \notin Seq(Versions)

VARIABLES
  policy, policyTmp, sidecar,  \* acceptance_policy.frozen.json, .tmp, .sha256
  so,        \* the installed extension
  binary,    \* the frozen binary
  records,   \* records.json: Absent, Partial or [binary, policy]
  recordsTmp,
  freezer,   \* the running freeze_policy: [pc, fill, digest]
  capture,   \* capture_baseline processes: [pc, digest, rec, at]; at: where the
             \* file it has open is now, "tmp", "records" or "gone"
  raced,     \* the extension was rebuilt between the first read of some
             \* capture's hash and the end of its copy
  killed     \* some capture was killed while it copied

policyVars == <<policy, policyTmp, sidecar, freezer>>
captureVars == <<binary, records, recordsTmp, capture>>
vars == <<policyVars, captureVars, so, raced, killed>>

Whole(v) == [i \in 1 .. Chunks |-> v]
IsWhole(file) == file # Absent /\ Len(file) = Chunks
-----------------------------------------------------------------------------
(* freeze_policy.main                                                       *)

Idle == [pc |-> "idle", fill |-> Absent, digest |-> Absent]

(* Gates that stay unset block the freeze, and so does a frozen policy.     *)
FreezeStart(fill) ==
  /\ freezer.pc = "idle"
  /\ freezer' = IF fill \in Complete THEN [Idle EXCEPT !.pc = "check", !.fill = fill] ELSE Idle
  /\ UNCHANGED <<policy, policyTmp, sidecar, captureVars, so, raced, killed>>

(* Mutant: an existing policy is replaced.                                  *)
FreezeUnchecked ==
  /\ freezer.pc = "check"
  /\ freezer' = [freezer EXCEPT !.pc = "open"]
  /\ UNCHANGED <<policy, policyTmp, sidecar, captureVars, so, raced, killed>>

FreezeCheck ==
  /\ freezer.pc = "check"
  /\ freezer' = IF policy # Absent THEN Idle ELSE [freezer EXCEPT !.pc = "open"]
  /\ UNCHANGED <<policy, policyTmp, sidecar, captureVars, so, raced, killed>>

(* open(tmp, "w") empties what an earlier run left there.                   *)
FreezeOpen ==
  /\ freezer.pc = "open"
  /\ policyTmp' = Partial
  /\ freezer' = [freezer EXCEPT !.pc = "write"]
  /\ UNCHANGED <<policy, sidecar, captureVars, so, raced, killed>>

FreezeWrite ==
  /\ freezer.pc = "write"
  /\ policyTmp' = freezer.fill
  /\ freezer' = [freezer EXCEPT !.pc = "replace"]
  /\ UNCHANGED <<policy, sidecar, captureVars, so, raced, killed>>

FreezeReplace ==
  /\ freezer.pc = "replace"
  /\ policy' = policyTmp /\ policyTmp' = Absent
  /\ freezer' = [freezer EXCEPT !.pc = "hash"]
  /\ UNCHANGED <<sidecar, captureVars, so, raced, killed>>

FreezeHash ==
  /\ freezer.pc = "hash"
  /\ sidecar' = Partial
  /\ freezer' = [freezer EXCEPT !.pc = "sidecar", !.digest = policy]
  /\ UNCHANGED <<policy, policyTmp, captureVars, so, raced, killed>>

FreezeSidecar ==
  /\ freezer.pc = "sidecar"
  /\ sidecar' = freezer.digest
  /\ freezer' = Idle
  /\ UNCHANGED <<policy, policyTmp, captureVars, so, raced, killed>>

FreezeKilled ==
  /\ freezer.pc # "idle"
  /\ freezer' = Idle
  /\ UNCHANGED <<policy, policyTmp, sidecar, captureVars, so, raced, killed>>

Freeze ==
  \/ \E fill \in Fills : FreezeStart(fill)
  \/ FreezeCheck \/ FreezeOpen \/ FreezeWrite \/ FreezeReplace
  \/ FreezeHash \/ FreezeSidecar \/ FreezeKilled
-----------------------------------------------------------------------------
(* capture_baseline.main                                                    *)

NoRecord == [binary |-> Absent, policy |-> Absent]
Ended == [pc |-> "idle", digest |-> Absent, rec |-> NoRecord, at |-> "tmp"]

Goto(c, pc) == capture' = [capture EXCEPT ![c].pc = pc]
Stop(c) == capture' = [capture EXCEPT ![c] = Ended]

CaptureStart(c) ==
  /\ capture[c].pc = "idle"
  /\ records = Absent
  /\ capture' = [capture EXCEPT ![c].pc = "digest", ![c].digest = <<>>]
  /\ UNCHANGED <<policyVars, binary, records, recordsTmp, so, raced, killed>>

(* sha256_file reads in chunks, of the extension as it is now.              *)
CaptureHash(c) ==
  LET read == capture[c].digest
  IN /\ capture[c].pc = "digest"
     /\ capture' = [capture EXCEPT ![c].digest = Append(read, so[Len(read) + 1]),
                      ![c].pc = IF Len(read) + 1 = Chunks THEN "binary" ELSE "digest"]
     /\ UNCHANGED <<policyVars, binary, records, recordsTmp, so, raced, killed>>

(* Mutant: whatever is there is taken for the frozen binary.                *)
CaptureAnyExisting(c) ==
  /\ capture[c].pc = "binary" /\ binary # Absent
  /\ Goto(c, "inputs")
  /\ UNCHANGED <<policyVars, binary, records, recordsTmp, so, raced, killed>>

(* A frozen binary that is there must be the installed one.  Nothing but    *)
(* its end changes: its hash is that of what is there when the end is read. *)
CaptureExisting(c) ==
  /\ capture[c].pc = "binary" /\ binary # Absent
  /\ IF binary = capture[c].digest THEN Goto(c, "inputs") ELSE Stop(c)
  /\ UNCHANGED <<policyVars, binary, records, recordsTmp, so, raced, killed>>

CaptureMissing(c) ==
  /\ capture[c].pc = "binary" /\ binary = Absent
  /\ Goto(c, "create")
  /\ UNCHANGED <<policyVars, binary, records, recordsTmp, so, raced, killed>>

(* Mutant: "wb" instead of "xb".                                            *)
CaptureTruncate(c) ==
  /\ capture[c].pc = "create"
  /\ binary' = <<>> /\ Goto(c, "copy")
  /\ UNCHANGED <<policyVars, records, recordsTmp, so, raced, killed>>

(* open(frozen_binary, "xb") fails on a file that has appeared meanwhile.   *)
CaptureCreate(c) ==
  /\ capture[c].pc = "create"
  /\ IF binary = Absent
     THEN binary' = <<>> /\ Goto(c, "copy")
     ELSE UNCHANGED binary /\ Stop(c)
  /\ UNCHANGED <<policyVars, records, recordsTmp, so, raced, killed>>

(* Mutant: one read, whatever the size.                                     *)
CaptureCopyOnce(c) ==
  /\ capture[c].pc = "copy"
  /\ binary' = Append(binary, so[Len(binary) + 1])
  /\ Goto(c, "inputs")
  /\ UNCHANGED <<policyVars, records, recordsTmp, so, raced, killed>>

(* The next chunk, of the extension as it is now.                           *)
CaptureCopy(c) ==
  /\ capture[c].pc = "copy"
  /\ binary' = Append(binary, so[Len(binary) + 1])
  /\ Goto(c, IF Len(binary) + 1 = Chunks THEN "inputs" ELSE "copy")
  /\ UNCHANGED <<policyVars, records, recordsTmp, so, raced, killed>>

(* The record names the frozen policy, if there is one by now.              *)
CaptureInputs(c) ==
  /\ capture[c].pc = "inputs"
  /\ capture' = [capture EXCEPT ![c].pc = "open",
                   ![c].rec = [binary |-> capture[c].digest, policy |-> policy]]
  /\ UNCHANGED <<policyVars, binary, records, recordsTmp, so, raced, killed>>

(* Captures share one .tmp: opening it empties it under another capture.    *)
CaptureOpen(c) ==
  /\ capture[c].pc = "open"
  /\ recordsTmp' = Partial
  /\ capture' = [capture EXCEPT ![c].pc = "write", ![c].at = "tmp"]
  /\ UNCHANGED <<policyVars, binary, records, so, raced, killed>>

(* The file a capture has open may have been published by another one.      *)
Held(c) ==
  CASE capture[c].at = "tmp" -> recordsTmp
    [] capture[c].at = "records" -> records
    [] OTHER -> Partial

Leave(c, text) ==
  /\ recordsTmp' = IF capture[c].at = "tmp" THEN text ELSE recordsTmp
  /\ records' = IF capture[c].at = "records" THEN text ELSE records

(* Another capture has written to it, or is about to.                       *)
Contested(c) ==
  \/ Held(c) # Partial
  \/ \E d \in Captures \ {c} : capture[d].pc = "write" /\ capture[d].at = capture[c].at

CaptureWrite(c) ==
  /\ capture[c].pc = "write"
  /\ \E text \in {capture[c].rec, Partial} :
       (text = Partial => Contested(c)) /\ Leave(c, text)
  /\ capture' = [capture EXCEPT ![c] = [Ended EXCEPT !.pc = "replace"]]
  /\ UNCHANGED <<policyVars, binary, so, raced, killed>>

Moved(at) == IF at = "tmp" THEN "records" ELSE "gone"

(* os.replace fails if another capture's already took the file away.        *)
CaptureReplace(c) ==
  /\ capture[c].pc = "replace"
  /\ IF recordsTmp = Absent
     THEN Stop(c) /\ UNCHANGED <<records, recordsTmp>>
     ELSE /\ records' = recordsTmp /\ recordsTmp' = Absent
          /\ capture' = [d \in Captures |->
                           IF d = c THEN Ended
                           ELSE IF capture[d].pc = "write"
                           THEN [capture[d] EXCEPT !.at = Moved(capture[d].at)]
                           ELSE capture[d]]
  /\ UNCHANGED <<policyVars, binary, so, raced, killed>>

CaptureKilled(c) ==
  /\ capture[c].pc # "idle"
  /\ killed' = (killed \/ capture[c].pc = "copy")
  /\ IF capture[c].pc = "write"
     THEN \E text \in {Held(c), Partial} : Leave(c, text)
     ELSE UNCHANGED <<records, recordsTmp>>
  /\ Stop(c)
  /\ UNCHANGED <<policyVars, binary, so, raced>>

Capture(c) ==
  \/ CaptureStart(c) \/ CaptureHash(c) \/ CaptureExisting(c) \/ CaptureMissing(c)
  \/ CaptureCreate(c) \/ CaptureCopy(c) \/ CaptureInputs(c)
  \/ CaptureOpen(c) \/ CaptureWrite(c) \/ CaptureReplace(c) \/ CaptureKilled(c)

(* Someone installs another build.                                          *)
Rebuild(v) ==
  /\ so # Whole(v)
  /\ so' = Whole(v)
  /\ raced' = (raced \/ \E c \in Captures :
                          /\ capture[c].pc \in {"digest", "binary", "create", "copy"}
                          /\ capture[c].digest # <<>>)
  /\ UNCHANGED <<policyVars, captureVars, killed>>
-----------------------------------------------------------------------------
Init ==
  /\ policy = Absent /\ policyTmp = Absent /\ sidecar = Absent
  /\ \E v \in Versions : so = Whole(v)
  /\ binary = Absent /\ records = Absent /\ recordsTmp = Absent
  /\ freezer = Idle
  /\ capture = [c \in Captures |-> Ended]
  /\ raced = FALSE /\ killed = FALSE

Next ==
  \/ Freeze
  \/ \E c \in Captures : Capture(c)
  \/ \E v \in Versions : Rebuild(v)

Spec == Init /\ [][Next]_vars
-----------------------------------------------------------------------------
(* Properties                                                               *)

(* The frozen policy and the frozen binary implement write-once artifacts,  *)
(* whatever runs are killed, repeated or, for the binary, overlap.  The     *)
(* records are left out: overlapping captures may replace them.             *)
Artifact ==
  [n \in {"policy", "binary"} |->
     IF n = "policy" THEN policy ELSE IF IsWhole(binary) THEN binary ELSE Absent]

Frozen == INSTANCE WriteOnce WITH
            Names <- {"policy", "binary"},
            Contents <- Complete \cup [1 .. Chunks -> Versions],
            artifact <- Artifact

FrozenOnce == Frozen!Spec

(* Once published, the records name the binary that is frozen: run_backend  *)
(* and serve can select it.  Only a build installed after a capture began   *)
(* to hash and before its copy is done can part them.                       *)
RecordsMatchBinary ==
  records \notin {Absent, Partial} /\ ~raced =>
    IsWhole(binary) /\ records.binary = binary

(* A hash of the policy, in its sidecar or in the baseline records, is the  *)
(* hash of the policy that is frozen, for ever.                             *)
PolicyHashesStand ==
  /\ sidecar \in {Absent, Partial, policy}
  /\ records \notin {Absent, Partial} => records.policy \in {Absent, policy}

(* Only a capture that is killed while it copies leaves a partial binary,   *)
(* which blocks every later capture until someone removes it.               *)
PartialOnlyIfKilled ==
  ~killed /\ binary # Absent /\ ~IsWhole(binary) =>
    \E c \in Captures : capture[c].pc = "copy"
=============================================================================
