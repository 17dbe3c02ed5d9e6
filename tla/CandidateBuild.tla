---------------------------- MODULE CandidateBuild ----------------------------
(***************************************************************************)
(* tools/prepare_backend.py, tools/build_kernel.py and the candidate side   *)
(* of tools/run_backend.py and tools/serve.py: a pinned, patched checkout   *)
(* is published by a rename; a candidate extension is linked from one       *)
(* recompiled source and the checkout's pinned objects, into a directory    *)
(* whose manifest records what went in; a runner is started on a directory, *)
(* verifies the binary whose path and hash the manifest there records, and  *)
(* imports.  Developers edit the source and rebuild the objects while all   *)
(* this runs, someone copies the candidate directory elsewhere file by      *)
(* file, and every tool may be killed.                                      *)
(*                                                                          *)
(* A file's content stands for its hash.  Preparers may overlap; builds     *)
(* into one directory may not (two that find it empty share its files,      *)
(* which nothing prevents).  The candidate directory is not removed.        *)
(***************************************************************************)
EXTENDS Integers, FiniteSets, Files

CONSTANTS
  Preparers,  \* prepare_backend processes that may run at a time
  Profiles,   \* "baseline" and "experimental"
  Runners,    \* run_backend and serve processes
  Sources,    \* contents of exl3_gemv_int8_rdna.hip
  Headers,    \* contents of the headers it includes, which nothing records
  Objects     \* contents of the pinned object set

ASSUME BuildAssumption ==
  /\ Sources # {} /\ Headers # {}
  /\ {Absent, Partial} \cap (Sources \cup Objects \cup Profiles) = {}
  /\ {Absent, Partial} \cap [obj : [source : Sources, headers : Headers], objects : Objects] = {}

VARIABLES
  vendor,    \* profile of the published checkout, or Absent
  source,    \* the source file in it
  objects,   \* the objects under its build/temp.*
  prep,      \* preparers: [pc, profile, outcome]
  dir,       \* the candidate directory: [copy, manifest, obj, so]
  elsewhere, \* a copy of it at another path: [manifest, so]
  build,     \* the running build: [pc, source, objects]
  disturbed, \* an edit was reverted before a drift check, or came after it
  run        \* runners: [pc, tool, at, expected, loaded]

prepVars == <<vendor, prep>>
buildVars == <<dir, build>>
runVars == <<elsewhere, run>>
candidateVars == <<prepVars, buildVars, source, objects, disturbed, runVars>>

PristineSource == CHOOSE s \in Sources : TRUE
-----------------------------------------------------------------------------
(* prepare_backend.main                                                     *)

PrepIdle(outcome) == [pc |-> "idle", profile |-> Absent, outcome |-> outcome]
PrepGoto(p, pc) == prep' = [prep EXCEPT ![p].pc = pc]
PrepStop(p, outcome) == prep' = [prep EXCEPT ![p] = PrepIdle(outcome)]

(* A missing or changed patch blocks.                                       *)
PrepStart(p, profile) ==
  /\ prep[p].pc = "idle"
  /\ \/ prep' = [prep EXCEPT ![p] = [pc |-> "look", profile |-> profile, outcome |-> Absent]]
     \/ PrepStop(p, Absent)
  /\ UNCHANGED <<vendor, buildVars, source, objects, disturbed, runVars>>

(* verify: pinned, and changed by the profile's patches only.               *)
Verifies(profile) == vendor = profile /\ source = PristineSource

PrepLook(p) ==
  /\ prep[p].pc = "look"
  /\ IF vendor = Absent THEN PrepGoto(p, "clone")
     ELSE PrepStop(p, IF Verifies(prep[p].profile) THEN prep[p].profile ELSE Absent)
  /\ UNCHANGED <<vendor, buildVars, source, objects, disturbed, runVars>>

(* Clone, patch and verify in a temporary directory of its own; any step of *)
(* that may fail.                                                           *)
PrepClone(p) ==
  /\ prep[p].pc = "clone"
  /\ PrepGoto(p, "check") \/ PrepStop(p, Absent)
  /\ UNCHANGED <<vendor, buildVars, source, objects, disturbed, runVars>>

PrepCheck(p) ==
  /\ prep[p].pc = "check"
  /\ IF vendor = Absent THEN PrepGoto(p, "rename") ELSE PrepStop(p, Absent)
  /\ UNCHANGED <<vendor, buildVars, source, objects, disturbed, runVars>>

(* Mutant: a destination that has appeared is replaced.                     *)
PrepReplace(p) ==
  /\ prep[p].pc = "rename"
  /\ vendor' = prep[p].profile /\ source' = PristineSource
  /\ PrepStop(p, prep[p].profile)
  /\ UNCHANGED <<buildVars, objects, disturbed, runVars>>

(* rename(2) refuses a directory that is there and not empty.               *)
PrepRename(p) ==
  /\ prep[p].pc = "rename"
  /\ IF vendor = Absent
     THEN /\ vendor' = prep[p].profile /\ source' = PristineSource
          /\ PrepStop(p, prep[p].profile)
     ELSE UNCHANGED <<vendor, source>> /\ PrepStop(p, Absent)
  /\ UNCHANGED <<buildVars, objects, disturbed, runVars>>

PrepKilled(p) ==
  /\ prep[p].pc # "idle"
  /\ PrepStop(p, Absent)
  /\ UNCHANGED <<vendor, buildVars, source, objects, disturbed, runVars>>

Prepare(p) ==
  \/ \E profile \in Profiles : PrepStart(p, profile)
  \/ PrepLook(p) \/ PrepClone(p) \/ PrepCheck(p) \/ PrepRename(p) \/ PrepKilled(p)
-----------------------------------------------------------------------------
(* build_kernel.main                                                        *)

NoBuild == [pc |-> "idle", source |-> Absent, objects |-> Absent]
Empty == [copy |-> Absent, manifest |-> Absent, obj |-> Absent, so |-> Absent]
Manifest(status, s, o, linked) ==
  [status |-> status, source |-> s, objects |-> o, so |-> linked]

BuildGoto(pc) == build' = [build EXCEPT !.pc = pc]

(* Mutant: a directory that holds a candidate is built into again.          *)
BuildStartAnywhere ==
  /\ build.pc = "idle" /\ vendor # Absent /\ objects # Absent
  /\ build' = [pc |-> "source", source |-> Absent, objects |-> objects]
  /\ UNCHANGED <<prepVars, dir, source, objects, disturbed, runVars>>

(* An empty directory, and the pinned objects, hashed before the source.    *)
BuildStart ==
  /\ build.pc = "idle" /\ vendor # Absent /\ objects # Absent
  /\ dir = Empty
  /\ build' = [pc |-> "source", source |-> Absent, objects |-> objects]
  /\ UNCHANGED <<prepVars, dir, source, objects, disturbed, runVars>>

BuildHashSource ==
  /\ build.pc = "source"
  /\ build' = [build EXCEPT !.pc = "copy", !.source = source]
  /\ UNCHANGED <<prepVars, dir, source, objects, disturbed, runVars>>

BuildCopy ==
  /\ build.pc = "copy"
  /\ dir' = [dir EXCEPT !.copy = source]
  /\ BuildGoto("manifest")
  /\ UNCHANGED <<prepVars, source, objects, disturbed, runVars>>

BuildManifest ==
  /\ build.pc = "manifest"
  /\ dir' = [dir EXCEPT !.manifest = Manifest("none", build.source, build.objects, Absent)]
  /\ BuildGoto("compile")
  /\ UNCHANGED <<prepVars, source, objects, disturbed, runVars>>

(* A step that fails ends in "failed", written by the finally clause.       *)
BuildCompile ==
  /\ build.pc = "compile"
  /\ \/ /\ \E h \in Headers : dir' = [dir EXCEPT !.obj = [source |-> source, headers |-> h]]
        /\ BuildGoto("drift")
     \/ UNCHANGED dir /\ BuildGoto("failed")
  /\ UNCHANGED <<prepVars, source, objects, disturbed, runVars>>

(* Mutant: only the source is checked.                                      *)
DriftOfSource == source # build.source

Drifted == source # build.source \/ objects # build.objects

(* The source is checked first, then the objects, nothing in between.       *)
BuildDrift ==
  /\ build.pc = "drift"
  /\ BuildGoto(IF Drifted THEN "failed" ELSE "link")
  /\ UNCHANGED <<prepVars, dir, source, objects, disturbed, runVars>>

BuildLink ==
  /\ build.pc = "link"
  /\ dir' = [dir EXCEPT !.so = Partial]
  /\ BuildGoto("linking")
  /\ UNCHANGED <<prepVars, source, objects, disturbed, runVars>>

BuildLinked ==
  /\ build.pc = "linking"
  /\ \/ dir' = [dir EXCEPT !.so = [obj |-> dir.obj, objects |-> objects]] /\ BuildGoto("built")
     \/ UNCHANGED dir /\ BuildGoto("failed")
  /\ UNCHANGED <<prepVars, source, objects, disturbed, runVars>>

(* write_text empties the manifest before it writes it anew.                *)
BuildRewrite ==
  /\ build.pc \in {"built", "failed"}
  /\ dir' = [dir EXCEPT !.manifest = Partial]
  /\ BuildGoto(IF build.pc = "built" THEN "write built" ELSE "write failed")
  /\ UNCHANGED <<prepVars, source, objects, disturbed, runVars>>

BuildEnd ==
  /\ build.pc \in {"write built", "write failed"}
  /\ dir' = [dir EXCEPT !.manifest =
               IF build.pc = "write built"
               THEN Manifest("built", build.source, build.objects, dir.so)
               ELSE Manifest("failed", build.source, build.objects, Absent)]
  /\ build' = NoBuild
  /\ UNCHANGED <<prepVars, source, objects, disturbed, runVars>>

BuildKilled ==
  /\ build.pc # "idle"
  /\ build' = NoBuild
  /\ UNCHANGED <<prepVars, dir, source, objects, disturbed, runVars>>

Build ==
  \/ BuildStart \/ BuildHashSource \/ BuildCopy \/ BuildManifest \/ BuildCompile
  \/ BuildDrift \/ BuildLink \/ BuildLinked \/ BuildRewrite \/ BuildEnd \/ BuildKilled

(* Developers.  What no check can see is an edit that is taken back before  *)
(* the check, and objects that change after it.                             *)
Edit(s) ==
  /\ vendor # Absent /\ s # source
  /\ source' = s
  /\ disturbed' = (disturbed \/ (build.pc # "idle" /\ s = build.source))
  /\ UNCHANGED <<prepVars, buildVars, objects, runVars>>

FullBuild(o) ==
  /\ vendor # Absent /\ o # objects
  /\ objects' = o
  /\ disturbed' = (disturbed \/ o = build.objects \/ build.pc \in {"link", "linking"})
  /\ UNCHANGED <<prepVars, buildVars, source, runVars>>
-----------------------------------------------------------------------------
(* run_backend.main with --candidate, and serve.verified_binary             *)

NoRun == [pc |-> "idle", tool |-> "run_backend", at |-> "home",
          expected |-> Absent, loaded |-> Absent]

(* Someone copies a file, or is not done with it yet.                       *)
CopyFile(f) ==
  /\ dir[f] # Absent
  /\ \E text \in {dir[f], Partial} : elsewhere' = [elsewhere EXCEPT ![f] = text]
  /\ UNCHANGED <<prepVars, buildVars, source, objects, disturbed, run>>

Given(at) ==
  IF at = "home" THEN [manifest |-> dir.manifest, so |-> dir.so] ELSE elsewhere

(* A manifest that does not parse or records no binary ends the runner.     *)
Recorded(m) == m \notin {Absent, Partial} /\ m.so # Absent

(* serve also wants a completed build, and the binary that the manifest     *)
(* names in the directory it was given.                                     *)
RunRead(r, tool, at) ==
  LET m == Given(at).manifest
  IN /\ run[r].pc = "idle" /\ Recorded(m)
     /\ tool = "serve" => m.status = "built" /\ at = "home"
     /\ run' = [run EXCEPT ![r] = [pc |-> "verify", tool |-> tool, at |-> at,
                                   expected |-> m.so, loaded |-> Absent]]
     /\ UNCHANGED <<prepVars, buildVars, source, objects, disturbed, elsewhere>>

(* The path in every copy of the manifest is the one the build linked to.   *)
RunVerify(r) ==
  /\ run[r].pc = "verify"
  /\ run' = [run EXCEPT ![r] = IF dir.so = run[r].expected THEN [@ EXCEPT !.pc = "import"] ELSE NoRun]
  /\ UNCHANGED <<prepVars, buildVars, source, objects, disturbed, elsewhere>>

(* serve looks for its binary first and wants to find it.  run_backend puts *)
(* the directory it was given on PYTHONPATH: without an extension in it,    *)
(* the import finds another one, or none (loaded: Absent).                  *)
RunImport(r) ==
  LET found == IF run[r].tool = "serve" THEN dir.so ELSE Given(run[r].at).so
      refused == found = Partial \/ (run[r].tool = "serve" /\ found = Absent)
  IN /\ run[r].pc = "import"
     /\ run' = [run EXCEPT ![r] = IF refused THEN NoRun
                                  ELSE [@ EXCEPT !.pc = "running", !.loaded = found]]
     /\ UNCHANGED <<prepVars, buildVars, source, objects, disturbed, elsewhere>>

Run(r) ==
  \/ \E tool \in {"run_backend", "serve"}, at \in {"home", "elsewhere"} : RunRead(r, tool, at)
  \/ RunVerify(r) \/ RunImport(r)
-----------------------------------------------------------------------------
CandidateInit ==
  /\ vendor = Absent /\ source = PristineSource /\ objects = Absent
  /\ prep = [p \in Preparers |-> PrepIdle(Absent)]
  /\ dir = Empty /\ build = NoBuild
  /\ elsewhere = [manifest |-> Absent, so |-> Absent]
  /\ disturbed = FALSE
  /\ run = [r \in Runners |-> NoRun]

CandidateNext ==
  \/ \E p \in Preparers : Prepare(p)
  \/ Build
  \/ \E s \in Sources : Edit(s)
  \/ \E o \in Objects : FullBuild(o)
  \/ \E f \in {"manifest", "so"} : CopyFile(f)
  \/ \E r \in Runners : Run(r)

CandidateSpec == CandidateInit /\ [][CandidateNext]_candidateVars
-----------------------------------------------------------------------------
(* Properties                                                               *)

(* A preparer that reports success leaves the checkout at its own profile   *)
(* for good, however many prepare at once (prepare_backend.main).           *)
PreparedStands ==
  \A p \in Preparers : prep[p].outcome \in {Absent, vendor}

(* A manifest that says "built" stands beside the source text and the       *)
(* binary it describes: the binary was linked from an object of exactly the *)
(* recorded source and from the recorded pinned objects, unless an edit was *)
(* reverted before the drift check or objects changed after it.  Of the     *)
(* headers it says nothing (build_kernel.main).                             *)
BuiltIsRecorded ==
  LET m == dir.manifest
  IN Recorded(m) =>
       /\ m.status = "built" /\ m.so = dir.so
       /\ ~disturbed => /\ dir.so.obj.source = m.source /\ dir.so.objects = m.objects
                        /\ dir.copy = m.source

(* A process that was started on a candidate has verified the finished      *)
(* binary that its manifest names, and the directory of the build still     *)
(* holds it: nothing writes a candidate after it was recorded.  It has also *)
(* loaded that binary, unless run_backend was given a copy of the directory *)
(* at another path: from there it loads what it never verified              *)
(* (run_backend.main, verified_binary).                                     *)
RunsRecorded ==
  \A r \in Runners :
    run[r].pc = "running" =>
      /\ dir.so \notin {Absent, Partial} /\ run[r].expected = dir.so
      /\ run[r].tool = "serve" \/ run[r].at = "home" => run[r].loaded = dir.so
=============================================================================
