--------------------------- MODULE ArtifactProofs ---------------------------
(***************************************************************************)
(* The promises of the two modules of the tools that publish artifacts.     *)
(*                                                                          *)
(* FrozenArtifacts, for any number of captures, fills, versions and chunks: *)
(* the frozen files implement WriteOnce, and the hashes and records that    *)
(* refer to them stay true.  IInv is the inductive invariant: the type,     *)
(* what the freezer has established at each step, how far a capture has     *)
(* read, that only one ever copies, and what a capture knows of the binary. *)
(*                                                                          *)
(* CandidateBuild, for any number of preparers and runners: CandidateInv is *)
(* the inductive invariant: the type, that a recorded binary ends its build *)
(* and is what every runner expects, and which of the recorded inputs a     *)
(* build has used so far, or has lost sight of.                             *)
(***************************************************************************)
EXTENDS FrozenArtifacts, CandidateBuild, TLAPS

(* FrozenArtifacts                                                          *)

Contents == [1 .. Chunks -> Versions]

Chunked == Seq(Versions)

Rec == [binary : Chunked \cup {Absent}, policy : Complete \cup {Absent}]

FreezerPcs == {"idle", "check", "open", "write", "replace", "hash", "sidecar"}

CapturePcs ==
  {"idle", "digest", "binary", "create", "copy", "inputs", "open", "write", "replace"}

CaptureRec ==
  [pc : CapturePcs, digest : Chunked \cup {Absent}, rec : Rec,
   at : {"tmp", "records", "gone"}]

TypeInv ==
  /\ policy \in Complete \cup {Absent}
  /\ policyTmp \in Complete \cup {Absent, Partial}
  /\ so \in Contents
  /\ binary \in Seq(Versions) \cup {Absent}
  /\ binary # Absent => Len(binary) <= Chunks
  /\ records \in Rec \cup {Absent, Partial} /\ recordsTmp \in Rec \cup {Absent, Partial}
  /\ freezer \in [pc : FreezerPcs, fill : Complete \cup {Absent}, digest : Complete \cup {Absent}]
  /\ capture \in [Captures -> CaptureRec]

(* What the freezer knows: nothing is frozen until it replaces.             *)
FreezerInv ==
  /\ freezer.pc \in {"check", "open", "write", "replace"} => freezer.fill \in Complete
  /\ freezer.pc \in {"open", "write", "replace"} => policy = Absent
  /\ freezer.pc = "replace" => policyTmp = freezer.fill
  /\ freezer.pc = "sidecar" => freezer.digest = policy

(* A hash is read from its first chunk to its last.                         *)
HashInv ==
  \A c \in Captures :
    /\ capture[c].pc = "digest" =>
         capture[c].digest \in Seq(Versions) /\ Len(capture[c].digest) < Chunks
    /\ capture[c].pc \in {"binary", "create", "copy"} => capture[c].digest # <<>>

(* Whoever copies the binary made the file, and has not finished it.        *)
CopierInv ==
  /\ \A c \in Captures : capture[c].pc = "copy" => binary # Absent /\ Len(binary) < Chunks
  /\ \A c, d \in Captures : capture[c].pc = "copy" /\ capture[d].pc = "copy" => c = d

NamesPolicy(file) == file \notin {Absent, Partial} => file.policy \in {Absent, policy}

(* Every record, written or not, names the frozen policy or none.           *)
PolicyInv ==
  /\ sidecar \in {Absent, Partial, policy}
  /\ \A c \in Captures : capture[c].rec.policy \in {Absent, policy}
  /\ NamesPolicy(recordsTmp) /\ NamesPolicy(records)

Matches(file) == file \notin {Absent, Partial} => IsWhole(binary) /\ file.binary = binary

(* What a capture knows of the binary, unless a rebuild came in between.    *)
MatchInv ==
  ~raced =>
    /\ \A c \in Captures :
         /\ capture[c].pc = "digest" =>
              \A i \in 1 .. Len(capture[c].digest) : capture[c].digest[i] = so[i]
         /\ capture[c].pc \in {"binary", "create", "copy"} => capture[c].digest = so
         /\ capture[c].pc = "copy" => \A i \in 1 .. Len(binary) : binary[i] = so[i]
         /\ capture[c].pc \in {"inputs", "open", "write"} =>
              IsWhole(binary) /\ capture[c].digest = binary
         /\ capture[c].pc \in {"open", "write"} => capture[c].rec.binary = binary
    /\ Matches(recordsTmp) /\ Matches(records)

IInv ==
  TypeInv /\ FreezerInv /\ HashInv /\ CopierInv /\ PolicyInv /\ MatchInv /\ PartialOnlyIfKilled

LEMMA GotoType ==
  ASSUME capture \in [Captures -> CaptureRec], NEW c \in Captures, NEW pc \in CapturePcs
  PROVE  [capture EXCEPT ![c].pc = pc] \in [Captures -> CaptureRec]
<1>1. [capture[c] EXCEPT !.pc = pc] \in CaptureRec
  BY DEF CaptureRec
<1>. QED BY <1>1

LEMMA RecordTypes ==
  ASSUME NEW r \in CaptureRec
  PROVE  /\ \A pc \in CapturePcs, d \in Chunked : [r EXCEPT !.digest = d, !.pc = pc] \in CaptureRec
         /\ [r EXCEPT !.pc = "digest", !.digest = <<>>] \in CaptureRec
         /\ \A e \in Rec : [r EXCEPT !.pc = "open", !.rec = e] \in CaptureRec
         /\ [r EXCEPT !.pc = "write", !.at = "tmp"] \in CaptureRec
         /\ r.rec \in Rec
         /\ \A f \in Complete \cup {Absent} : [binary |-> r.digest, policy |-> f] \in Rec
<1>1. \A pc \in CapturePcs, d \in Chunked : [r EXCEPT !.digest = d, !.pc = pc] \in CaptureRec
  BY DEF CaptureRec
<1>2. \A e \in Rec : [r EXCEPT !.pc = "open", !.rec = e] \in CaptureRec
  BY DEF CaptureRec, CapturePcs
<1>3. [r EXCEPT !.pc = "write", !.at = "tmp"] \in CaptureRec
  BY DEF CaptureRec, CapturePcs
<1>4. r.rec \in Rec /\ r.digest \in Chunked \cup {Absent}
  BY DEF CaptureRec
<1>5. \A f \in Complete \cup {Absent} : [binary |-> r.digest, policy |-> f] \in Rec
  BY <1>4 DEF Rec
<1>6. <<>> \in Chunked
  BY DEF Chunked
<1>7. [r EXCEPT !.pc = "digest", !.digest = <<>>] \in CaptureRec
  BY <1>6 DEF CaptureRec, CapturePcs
<1>. QED BY <1>1, <1>2, <1>3, <1>4, <1>5, <1>7

LEMMA EndedType == Ended \in CaptureRec
BY DEF Ended, NoRecord, CaptureRec, CapturePcs, Rec

LEMMA StopType ==
  ASSUME capture \in [Captures -> CaptureRec], NEW c \in Captures
  PROVE  [capture EXCEPT ![c] = Ended] \in [Captures -> CaptureRec]
BY EndedType

(* The file a capture has just made, and the file with one more chunk.      *)
LEMMA NewFile == <<>> \in Seq(Versions) /\ Len(<<>>) = 0 /\ Len(<<>>) < Chunks
BY FilesAssumption, FrozenAssumption

LEMMA LongerFile ==
  ASSUME NEW file \in Seq(Versions), Len(file) < Chunks, so \in Contents
  PROVE  LET longer == Append(file, so[Len(file) + 1])
         IN /\ longer \in Seq(Versions) /\ Len(longer) = Len(file) + 1
            /\ Len(file) + 1 \in 1 .. Chunks
            /\ longer[Len(file) + 1] = so[Len(file) + 1]
            /\ \A i \in 1 .. Len(file) : longer[i] = file[i]
<1>1. Len(file) \in Nat /\ Len(file) + 1 \in 1 .. Chunks
  BY FilesAssumption, FrozenAssumption
<1>2. so[Len(file) + 1] \in Versions
  BY <1>1 DEF Contents
<1>. QED BY <1>1, <1>2

(* Read to its end without a rebuild, it is the extension.                  *)
LEMMA WholeFile ==
  ASSUME NEW file \in Seq(Versions), Len(file) < Chunks, so \in Contents,
         \A i \in 1 .. Len(file) : file[i] = so[i]
  PROVE  LET longer == Append(file, so[Len(file) + 1])
         IN /\ \A i \in 1 .. Len(longer) : longer[i] = so[i]
            /\ Len(longer) = Chunks => longer = so
<1> DEFINE longer == Append(file, so[Len(file) + 1])
<1>1. /\ longer \in Seq(Versions) /\ Len(longer) = Len(file) + 1 /\ Len(file) \in Nat
      /\ longer[Len(file) + 1] = so[Len(file) + 1]
      /\ \A i \in 1 .. Len(file) : longer[i] = file[i]
  BY LongerFile
<1> HIDE DEF longer
<1>2. ASSUME NEW i \in 1 .. Len(longer) PROVE longer[i] = so[i]
  <2>1. i \in 1 .. Len(file) \/ i = Len(file) + 1
    BY <1>1
  <2>. QED BY <1>1, <2>1
<1>3. Len(longer) = Chunks => longer = so
  BY <1>1, <1>2 DEF Contents
<1>. QED BY <1>2, <1>3 DEF longer

(* What a capture leaves in the files of the records.                       *)
LEMMA WriteLeaves ==
  ASSUME NEW c \in Captures, CaptureWrite(c)
  PROVE  /\ records' \in {records, capture[c].rec, Partial}
         /\ recordsTmp' \in {recordsTmp, capture[c].rec, Partial}
BY DEF CaptureWrite, Leave

LEMMA KillLeaves ==
  ASSUME NEW c \in Captures, CaptureKilled(c)
  PROVE  records' \in {records, Partial} /\ recordsTmp' \in {recordsTmp, Partial}
BY DEF CaptureKilled, Leave, Held

LEMMA ClosedType == [Ended EXCEPT !.pc = "replace"] \in CaptureRec
BY EndedType DEF CaptureRec, CapturePcs

(* The type is kept.                                                        *)
LEMMA TypeStep ==
  TypeInv /\ FreezerInv /\ HashInv /\ CopierInv /\ [Next]_vars => TypeInv'
<1> SUFFICES ASSUME TypeInv, FreezerInv, HashInv, CopierInv, [Next]_vars PROVE TypeInv'
  OBVIOUS
<1> USE FilesAssumption, FrozenAssumption DEF TypeInv, FreezerInv, CopierInv, FreezerPcs, CapturePcs, policyVars, captureVars
<1>1. ASSUME NEW fill \in Fills, FreezeStart(fill) PROVE TypeInv'
  <2>1. freezer' \in {Idle} \cup
          {[pc |-> "check", fill |-> f, digest |-> Absent] : f \in Complete}
    BY <1>1 DEF FreezeStart, Idle
  <2>2. freezer' \in [pc : FreezerPcs, fill : Complete \cup {Absent},
                      digest : Complete \cup {Absent}]
    BY <2>1 DEF Idle
  <2>. QED BY <1>1, <2>2 DEF FreezeStart
<1>2. CASE FreezeCheck
  BY <1>2 DEF FreezeCheck, Idle
<1>3. CASE FreezeOpen
  BY <1>3 DEF FreezeOpen
<1>4. CASE FreezeWrite
  BY <1>4 DEF FreezeWrite
<1>5. CASE FreezeReplace
  BY <1>5 DEF FreezeReplace
<1>6. CASE FreezeHash
  BY <1>6 DEF FreezeHash
<1>7. CASE FreezeSidecar
  BY <1>7 DEF FreezeSidecar, Idle
<1>8. CASE FreezeKilled
  BY <1>8 DEF FreezeKilled, Idle
<1>9. ASSUME NEW c \in Captures, CaptureStart(c) PROVE TypeInv'
  <2>1. [capture[c] EXCEPT !.pc = "digest", !.digest = <<>>] \in CaptureRec
    BY RecordTypes
  <2>2. capture' \in [Captures -> CaptureRec]
    BY <1>9, <2>1 DEF CaptureStart
  <2>. QED BY <1>9, <2>2 DEF CaptureStart
<1>10. ASSUME NEW c \in Captures, CaptureHash(c) PROVE TypeInv'
  <2> DEFINE read == capture[c].digest
              longer == Append(read, so[Len(read) + 1])
              pc == IF Len(read) + 1 = Chunks THEN "binary" ELSE "digest"
  <2>1. longer \in Seq(Versions) /\ pc \in CapturePcs
    BY <1>10, LongerFile DEF CaptureHash, HashInv
  <2>2. capture' = [capture EXCEPT ![c] = [capture[c] EXCEPT !.digest = longer, !.pc = pc]]
    BY <1>10 DEF CaptureHash
  <2> HIDE DEF longer, pc
  <2>3. [capture[c] EXCEPT !.digest = longer, !.pc = pc] \in CaptureRec
    BY <2>1, RecordTypes DEF Chunked
  <2>4. capture' \in [Captures -> CaptureRec]
    BY <2>2, <2>3
  <2>. QED BY <1>10, <2>4 DEF CaptureHash
<1>11. ASSUME NEW c \in Captures, CaptureExisting(c) PROVE TypeInv'
  <2>1. capture' = [capture EXCEPT ![c].pc = "inputs"] \/ capture' = [capture EXCEPT ![c] = Ended]
    BY <1>11 DEF CaptureExisting, Goto, Stop
  <2>a. [capture EXCEPT ![c].pc = "inputs"] \in [Captures -> CaptureRec]
    BY GotoType
  <2>b. [capture EXCEPT ![c] = Ended] \in [Captures -> CaptureRec]
    BY StopType
  <2>2. capture' \in [Captures -> CaptureRec]
    BY <2>1, <2>a, <2>b
  <2>. QED BY <1>11, <2>2 DEF CaptureExisting
<1>12. ASSUME NEW c \in Captures, CaptureMissing(c) PROVE TypeInv'
  <2>1. capture' = [capture EXCEPT ![c].pc = "create"]
    BY <1>12 DEF CaptureMissing, Goto
  <2>2. capture' \in [Captures -> CaptureRec]
    BY <2>1, GotoType
  <2>. QED BY <1>12, <2>2 DEF CaptureMissing
<1>13. ASSUME NEW c \in Captures, CaptureCreate(c) PROVE TypeInv'
  <2>1. capture' = [capture EXCEPT ![c].pc = "copy"] \/ capture' = [capture EXCEPT ![c] = Ended]
    BY <1>13 DEF CaptureCreate, Goto, Stop
  <2>a. [capture EXCEPT ![c].pc = "copy"] \in [Captures -> CaptureRec]
    BY GotoType
  <2>b. [capture EXCEPT ![c] = Ended] \in [Captures -> CaptureRec]
    BY StopType
  <2>2. capture' \in [Captures -> CaptureRec]
    BY <2>1, <2>a, <2>b
  <2>3. binary' = binary \/ binary' = <<>>
    BY <1>13 DEF CaptureCreate
  <2>4. binary' \in Seq(Versions) \cup {Absent} /\ (binary' # Absent => Len(binary') <= Chunks)
    <3>1. CASE binary' = binary
      BY <3>1
    <3>2. CASE binary' = <<>>
      <4>1. binary' \in Seq(Versions) /\ Len(binary') = 0 /\ 0 <= Chunks
        BY <3>2, FilesAssumption, FrozenAssumption
      <4>. QED BY <4>1
    <3>. QED BY <2>3, <3>1, <3>2
  <2>. QED BY <1>13, <2>2, <2>4 DEF CaptureCreate
<1>14. ASSUME NEW c \in Captures, CaptureCopy(c) PROVE TypeInv'
  <2>1. capture' = [capture EXCEPT ![c].pc = "inputs"] \/ capture' = [capture EXCEPT ![c].pc = "copy"]
    BY <1>14 DEF CaptureCopy, Goto
  <2>a. [capture EXCEPT ![c].pc = "inputs"] \in [Captures -> CaptureRec]
    BY GotoType
  <2>b. [capture EXCEPT ![c].pc = "copy"] \in [Captures -> CaptureRec]
    BY GotoType
  <2>2. capture' \in [Captures -> CaptureRec]
    BY <2>1, <2>a, <2>b
  <2>3. binary \in Seq(Versions) /\ Len(binary) < Chunks /\ so \in Contents
    BY <1>14 DEF CaptureCopy
  <2>4. binary' \in Seq(Versions) /\ Len(binary') <= Chunks
    BY <1>14, <2>3, LongerFile DEF CaptureCopy
  <2>. QED BY <1>14, <2>2, <2>4 DEF CaptureCopy
<1>15. ASSUME NEW c \in Captures, CaptureInputs(c) PROVE TypeInv'
  <2>1. [binary |-> capture[c].digest, policy |-> policy] \in Rec
    BY RecordTypes
  <2>2. [capture[c] EXCEPT !.pc = "open",
           !.rec = [binary |-> capture[c].digest, policy |-> policy]] \in CaptureRec
    BY <2>1, RecordTypes
  <2>3. capture' \in [Captures -> CaptureRec]
    BY <1>15, <2>2 DEF CaptureInputs
  <2>. QED BY <1>15, <2>3 DEF CaptureInputs
<1>16. ASSUME NEW c \in Captures, CaptureOpen(c) PROVE TypeInv'
  <2>1. [capture[c] EXCEPT !.pc = "write", !.at = "tmp"] \in CaptureRec
    BY RecordTypes
  <2>2. capture' \in [Captures -> CaptureRec]
    BY <1>16, <2>1 DEF CaptureOpen
  <2>. QED BY <1>16, <2>2, SMTT(20) DEF CaptureOpen
<1>17. ASSUME NEW c \in Captures, CaptureWrite(c) PROVE TypeInv'
  <2>1. capture' \in [Captures -> CaptureRec] /\ capture[c].rec \in Rec
    BY <1>17, ClosedType DEF CaptureWrite, CaptureRec
  <2>2. records' \in Rec \cup {Absent, Partial} /\ recordsTmp' \in Rec \cup {Absent, Partial}
    BY <1>17, <2>1, WriteLeaves
  <2>. QED BY <1>17, <2>1, <2>2 DEF CaptureWrite
<1>18. ASSUME NEW c \in Captures, CaptureReplace(c) PROVE TypeInv'
  <2>1. CASE recordsTmp = Absent
    BY <1>18, <2>1, StopType DEF CaptureReplace, Stop
  <2>2. CASE recordsTmp # Absent
    <3>1. \A d \in Captures : [capture[d] EXCEPT !.at = Moved(capture[d].at)] \in CaptureRec
      BY DEF Moved, CaptureRec
    <3>2. capture' \in [Captures -> CaptureRec]
      BY <1>18, <2>2, <3>1, EndedType DEF CaptureReplace
    <3>. QED BY <1>18, <2>2, <3>2 DEF CaptureReplace
  <2>. QED BY <2>1, <2>2
<1>19. ASSUME NEW c \in Captures, CaptureKilled(c) PROVE TypeInv'
  <2>1. records' \in Rec \cup {Absent, Partial} /\ recordsTmp' \in Rec \cup {Absent, Partial}
    BY <1>19, KillLeaves
  <2>. QED BY <1>19, <2>1, StopType DEF CaptureKilled, Stop
<1>20. CASE \E v \in Versions : Rebuild(v)
  BY <1>20 DEF Rebuild, Whole, Contents
<1>21. CASE UNCHANGED vars
  BY <1>21 DEF vars
<1> HIDE DEF TypeInv, FreezerInv, CopierInv, FreezerPcs, CapturePcs
<1>. QED
  BY <1>1, <1>2, <1>3, <1>4, <1>5, <1>6, <1>7, <1>8, <1>9, <1>10, <1>11, <1>12, <1>13, <1>14, <1>15, <1>16, <1>17, <1>18, <1>19, <1>20, <1>21 DEF Next, Freeze, Capture

(* Nothing but the freezer changes the policy.                              *)
LEMMA FreezerStep ==
  TypeInv /\ FreezerInv /\ [Next]_vars => FreezerInv'
<1> SUFFICES ASSUME TypeInv, FreezerInv, [Next]_vars PROVE FreezerInv'
  OBVIOUS
<1> USE FilesAssumption, FrozenAssumption DEF TypeInv, FreezerInv, FreezerPcs, policyVars, captureVars
<1>1. CASE \E fill \in Fills : FreezeStart(fill)
  BY <1>1 DEF FreezeStart, Idle
<1>2. CASE FreezeCheck
  BY <1>2 DEF FreezeCheck, Idle
<1>3. CASE FreezeOpen
  BY <1>3 DEF FreezeOpen
<1>4. CASE FreezeWrite
  BY <1>4 DEF FreezeWrite
<1>5. CASE FreezeReplace
  BY <1>5 DEF FreezeReplace
<1>6. CASE FreezeHash
  BY <1>6 DEF FreezeHash
<1>7. CASE FreezeSidecar
  BY <1>7 DEF FreezeSidecar, Idle
<1>8. CASE FreezeKilled
  BY <1>8 DEF FreezeKilled, Idle
<1>9. ASSUME NEW c \in Captures, CaptureStart(c) PROVE FreezerInv'
  BY <1>9 DEF CaptureStart, Goto
<1>10. ASSUME NEW c \in Captures, CaptureHash(c) PROVE FreezerInv'
  BY <1>10 DEF CaptureHash
<1>11. ASSUME NEW c \in Captures, CaptureExisting(c) PROVE FreezerInv'
  BY <1>11 DEF CaptureExisting, Goto, Stop, Ended, NoRecord
<1>12. ASSUME NEW c \in Captures, CaptureMissing(c) PROVE FreezerInv'
  BY <1>12 DEF CaptureMissing, Goto
<1>13. ASSUME NEW c \in Captures, CaptureCreate(c) PROVE FreezerInv'
  BY <1>13 DEF CaptureCreate, Goto, Stop, Ended, NoRecord
<1>14. ASSUME NEW c \in Captures, CaptureCopy(c) PROVE FreezerInv'
  BY <1>14 DEF CaptureCopy, Goto
<1>15. ASSUME NEW c \in Captures, CaptureInputs(c) PROVE FreezerInv'
  BY <1>15 DEF CaptureInputs
<1>16. ASSUME NEW c \in Captures, CaptureOpen(c) PROVE FreezerInv'
  BY <1>16 DEF CaptureOpen
<1>17. ASSUME NEW c \in Captures, CaptureWrite(c) PROVE FreezerInv'
  BY <1>17 DEF CaptureWrite, Ended, NoRecord
<1>18. ASSUME NEW c \in Captures, CaptureReplace(c) PROVE FreezerInv'
  BY <1>18 DEF CaptureReplace, Stop, Ended, NoRecord, Moved
<1>19. ASSUME NEW c \in Captures, CaptureKilled(c) PROVE FreezerInv'
  BY <1>19 DEF CaptureKilled, Stop, Ended, NoRecord
<1>20. CASE \E v \in Versions : Rebuild(v)
  BY <1>20 DEF Rebuild, Whole
<1>21. CASE UNCHANGED vars
  BY <1>21 DEF vars
<1> HIDE DEF TypeInv, FreezerInv, FreezerPcs
<1>. QED
  BY <1>1, <1>2, <1>3, <1>4, <1>5, <1>6, <1>7, <1>8, <1>9, <1>10, <1>11, <1>12, <1>13, <1>14, <1>15, <1>16, <1>17, <1>18, <1>19, <1>20, <1>21 DEF Next, Freeze, Capture

(* Nothing but a capture's own reads changes its hash.                      *)
LEMMA HashStep ==
  TypeInv /\ HashInv /\ [Next]_vars => HashInv'
<1> SUFFICES ASSUME TypeInv, HashInv, [Next]_vars PROVE HashInv'
  OBVIOUS
<1> USE FilesAssumption, FrozenAssumption DEF TypeInv, HashInv, CapturePcs, CaptureRec, policyVars, captureVars
<1>1. CASE \E fill \in Fills : FreezeStart(fill)
  BY <1>1 DEF FreezeStart, Idle
<1>2. CASE FreezeCheck
  BY <1>2 DEF FreezeCheck, Idle
<1>3. CASE FreezeOpen
  BY <1>3 DEF FreezeOpen
<1>4. CASE FreezeWrite
  BY <1>4 DEF FreezeWrite
<1>5. CASE FreezeReplace
  BY <1>5 DEF FreezeReplace
<1>6. CASE FreezeHash
  BY <1>6 DEF FreezeHash
<1>7. CASE FreezeSidecar
  BY <1>7 DEF FreezeSidecar, Idle
<1>8. CASE FreezeKilled
  BY <1>8 DEF FreezeKilled, Idle
<1>9. ASSUME NEW c \in Captures, CaptureStart(c) PROVE HashInv'
  <2>1. capture'[c].digest = <<>> /\ capture'[c].pc = "digest"
    BY <1>9 DEF CaptureStart
  <2>2. \A d \in Captures \ {c} : capture'[d] = capture[d]
    BY <1>9 DEF CaptureStart
  <2>. QED BY <2>1, <2>2, NewFile
<1>10. ASSUME NEW c \in Captures, CaptureHash(c) PROVE HashInv'
  <2> DEFINE longer == Append(capture[c].digest, so[Len(capture[c].digest) + 1])
  <2>1. longer \in Seq(Versions) /\ Len(longer) = Len(capture[c].digest) + 1
        /\ Len(longer) \in 1 .. Chunks
    BY <1>10, LongerFile DEF CaptureHash
  <2>2. /\ capture'[c].digest = longer
        /\ capture'[c].pc = IF Len(longer) = Chunks THEN "binary" ELSE "digest"
    BY <1>10, <2>1 DEF CaptureHash
  <2>3. \A d \in Captures \ {c} : capture'[d] = capture[d]
    BY <1>10 DEF CaptureHash
  <2> HIDE DEF longer
  <2>4. longer # <<>>
    BY <2>1, NewFile
  <2>. QED BY <2>1, <2>2, <2>3, <2>4
<1>11. ASSUME NEW c \in Captures, CaptureExisting(c) PROVE HashInv'
  BY <1>11 DEF CaptureExisting, Goto, Stop, Ended, NoRecord
<1>12. ASSUME NEW c \in Captures, CaptureMissing(c) PROVE HashInv'
  BY <1>12 DEF CaptureMissing, Goto
<1>13. ASSUME NEW c \in Captures, CaptureCreate(c) PROVE HashInv'
  BY <1>13 DEF CaptureCreate, Goto, Stop, Ended, NoRecord
<1>14. ASSUME NEW c \in Captures, CaptureCopy(c) PROVE HashInv'
  BY <1>14 DEF CaptureCopy, Goto
<1>15. ASSUME NEW c \in Captures, CaptureInputs(c) PROVE HashInv'
  BY <1>15 DEF CaptureInputs
<1>16. ASSUME NEW c \in Captures, CaptureOpen(c) PROVE HashInv'
  BY <1>16 DEF CaptureOpen
<1>17. ASSUME NEW c \in Captures, CaptureWrite(c) PROVE HashInv'
  BY <1>17 DEF CaptureWrite, Ended
<1>18. ASSUME NEW c \in Captures, CaptureReplace(c) PROVE HashInv'
  BY <1>18 DEF CaptureReplace, Stop, Ended, NoRecord, Moved
<1>19. ASSUME NEW c \in Captures, CaptureKilled(c) PROVE HashInv'
  BY <1>19 DEF CaptureKilled, Stop, Ended, NoRecord
<1>20. CASE \E v \in Versions : Rebuild(v)
  BY <1>20 DEF Rebuild, Whole
<1>21. CASE UNCHANGED vars
  BY <1>21 DEF vars
<1> HIDE DEF TypeInv, HashInv, CapturePcs, CaptureRec
<1>. QED
  BY <1>1, <1>2, <1>3, <1>4, <1>5, <1>6, <1>7, <1>8, <1>9, <1>10, <1>11, <1>12, <1>13, <1>14, <1>15, <1>16, <1>17, <1>18, <1>19, <1>20, <1>21 DEF Next, Freeze, Capture

(* "xb" lets one capture make the file.                                     *)
LEMMA CopierStep ==
  TypeInv /\ CopierInv /\ [Next]_vars => CopierInv'
<1> SUFFICES ASSUME TypeInv, CopierInv, [Next]_vars PROVE CopierInv'
  OBVIOUS
<1> USE FilesAssumption, FrozenAssumption DEF TypeInv, CopierInv, CapturePcs, CaptureRec, policyVars, captureVars
<1>1. CASE \E fill \in Fills : FreezeStart(fill)
  BY <1>1 DEF FreezeStart, Idle
<1>2. CASE FreezeCheck
  BY <1>2 DEF FreezeCheck, Idle
<1>3. CASE FreezeOpen
  BY <1>3 DEF FreezeOpen
<1>4. CASE FreezeWrite
  BY <1>4 DEF FreezeWrite
<1>5. CASE FreezeReplace
  BY <1>5 DEF FreezeReplace
<1>6. CASE FreezeHash
  BY <1>6 DEF FreezeHash
<1>7. CASE FreezeSidecar
  BY <1>7 DEF FreezeSidecar, Idle
<1>8. CASE FreezeKilled
  BY <1>8 DEF FreezeKilled, Idle
<1>9. ASSUME NEW c \in Captures, CaptureStart(c) PROVE CopierInv'
  BY <1>9 DEF CaptureStart, Goto
<1>10. ASSUME NEW c \in Captures, CaptureHash(c) PROVE CopierInv'
  BY <1>10 DEF CaptureHash
<1>11. ASSUME NEW c \in Captures, CaptureExisting(c) PROVE CopierInv'
  BY <1>11 DEF CaptureExisting, Goto, Stop, Ended, NoRecord
<1>12. ASSUME NEW c \in Captures, CaptureMissing(c) PROVE CopierInv'
  BY <1>12 DEF CaptureMissing, Goto
<1>13. ASSUME NEW c \in Captures, CaptureCreate(c) PROVE CopierInv'
  <2>1. CASE binary = Absent
    <3>1. \A d \in Captures : capture[d].pc # "copy"
      BY <2>1
    <3>2. \A d \in Captures \ {c} : capture'[d].pc # "copy"
      BY <1>13, <2>1, <3>1 DEF CaptureCreate, Goto
    <3>3. binary' # Absent /\ Len(binary') < Chunks
      BY <1>13, <2>1, NewFile DEF CaptureCreate
    <3>. QED BY <3>2, <3>3
  <2>2. CASE binary # Absent
    BY <1>13, <2>2, SMTT(20) DEF CaptureCreate, Stop, Ended
  <2>. QED BY <2>1, <2>2
<1>14. ASSUME NEW c \in Captures, CaptureCopy(c) PROVE CopierInv'
  <2>1. \A d \in Captures \ {c} : capture'[d].pc # "copy"
    BY <1>14 DEF CaptureCopy, Goto
  <2>2. binary \in Seq(Versions) /\ Len(binary) < Chunks /\ so \in Contents
    BY <1>14 DEF CaptureCopy
  <2>3. binary' # Absent /\ Len(binary') = Len(binary) + 1 /\ Len(binary') \in 1 .. Chunks
    BY <1>14, <2>2, LongerFile DEF CaptureCopy
  <2>4. capture'[c].pc = "copy" => Len(binary) + 1 # Chunks
    BY <1>14 DEF CaptureCopy, Goto
  <2>. QED BY <2>1, <2>3, <2>4
<1>15. ASSUME NEW c \in Captures, CaptureInputs(c) PROVE CopierInv'
  BY <1>15 DEF CaptureInputs
<1>16. ASSUME NEW c \in Captures, CaptureOpen(c) PROVE CopierInv'
  BY <1>16 DEF CaptureOpen
<1>17. ASSUME NEW c \in Captures, CaptureWrite(c) PROVE CopierInv'
  BY <1>17 DEF CaptureWrite, Ended, NoRecord
<1>18. ASSUME NEW c \in Captures, CaptureReplace(c) PROVE CopierInv'
  BY <1>18 DEF CaptureReplace, Stop, Ended, NoRecord, Moved
<1>19. ASSUME NEW c \in Captures, CaptureKilled(c) PROVE CopierInv'
  BY <1>19 DEF CaptureKilled, Stop, Ended, NoRecord
<1>20. CASE \E v \in Versions : Rebuild(v)
  BY <1>20 DEF Rebuild, Whole
<1>21. CASE UNCHANGED vars
  BY <1>21 DEF vars
<1> HIDE DEF TypeInv, CopierInv, CapturePcs, CaptureRec
<1>. QED
  BY <1>1, <1>2, <1>3, <1>4, <1>5, <1>6, <1>7, <1>8, <1>9, <1>10, <1>11, <1>12, <1>13, <1>14, <1>15, <1>16, <1>17, <1>18, <1>19, <1>20, <1>21 DEF Next, Freeze, Capture

(* A policy appears where no record names another.                          *)
LEMMA PolicyStep ==
  TypeInv /\ FreezerInv /\ PolicyInv /\ [Next]_vars => PolicyInv'
<1> SUFFICES ASSUME TypeInv, FreezerInv, PolicyInv, [Next]_vars PROVE PolicyInv'
  OBVIOUS
<1> USE FilesAssumption, FrozenAssumption DEF TypeInv, FreezerInv, PolicyInv, NamesPolicy, FreezerPcs, CapturePcs, CaptureRec, Rec, policyVars, captureVars
<1>1. CASE \E fill \in Fills : FreezeStart(fill)
  BY <1>1 DEF FreezeStart, Idle
<1>2. CASE FreezeCheck
  BY <1>2 DEF FreezeCheck, Idle
<1>3. CASE FreezeOpen
  BY <1>3 DEF FreezeOpen
<1>4. CASE FreezeWrite
  BY <1>4 DEF FreezeWrite
<1>5. CASE FreezeReplace
  BY <1>5 DEF FreezeReplace
<1>6. CASE FreezeHash
  BY <1>6 DEF FreezeHash
<1>7. CASE FreezeSidecar
  BY <1>7 DEF FreezeSidecar, Idle
<1>8. CASE FreezeKilled
  BY <1>8 DEF FreezeKilled, Idle
<1>9. ASSUME NEW c \in Captures, CaptureStart(c) PROVE PolicyInv'
  BY <1>9 DEF CaptureStart, Goto
<1>10. ASSUME NEW c \in Captures, CaptureHash(c) PROVE PolicyInv'
  BY <1>10 DEF CaptureHash
<1>11. ASSUME NEW c \in Captures, CaptureExisting(c) PROVE PolicyInv'
  <2>1. capture' = [capture EXCEPT ![c].pc = "inputs"] \/ capture' = [capture EXCEPT ![c] = Ended]
    BY <1>11 DEF CaptureExisting, Goto, Stop
  <2>2. \A d \in Captures : capture'[d].rec \in {capture[d].rec, NoRecord}
    BY <2>1 DEF Ended
  <2>3. UNCHANGED <<policy, sidecar, records, recordsTmp>>
    BY <1>11 DEF CaptureExisting
  <2>. QED BY <2>2, <2>3 DEF NoRecord
<1>12. ASSUME NEW c \in Captures, CaptureMissing(c) PROVE PolicyInv'
  BY <1>12 DEF CaptureMissing, Goto
<1>13. ASSUME NEW c \in Captures, CaptureCreate(c) PROVE PolicyInv'
  <2>1. capture' = [capture EXCEPT ![c].pc = "copy"] \/ capture' = [capture EXCEPT ![c] = Ended]
    BY <1>13 DEF CaptureCreate, Goto, Stop
  <2>2. \A d \in Captures : capture'[d].rec \in {capture[d].rec, NoRecord}
    BY <2>1 DEF Ended
  <2>3. UNCHANGED <<policy, sidecar, records, recordsTmp>>
    BY <1>13 DEF CaptureCreate
  <2>. QED BY <2>2, <2>3 DEF NoRecord
<1>14. ASSUME NEW c \in Captures, CaptureCopy(c) PROVE PolicyInv'
  BY <1>14 DEF CaptureCopy, Goto
<1>15. ASSUME NEW c \in Captures, CaptureInputs(c) PROVE PolicyInv'
  BY <1>15 DEF CaptureInputs
<1>16. ASSUME NEW c \in Captures, CaptureOpen(c) PROVE PolicyInv'
  BY <1>16 DEF CaptureOpen
<1>17. ASSUME NEW c \in Captures, CaptureWrite(c) PROVE PolicyInv'
  <2>1. UNCHANGED <<policy, sidecar>> /\ \A d \in Captures : capture'[d].rec \in {capture[d].rec, NoRecord}
    BY <1>17 DEF CaptureWrite, Ended
  <2>. QED BY <1>17, <2>1, WriteLeaves DEF NoRecord
<1>18. ASSUME NEW c \in Captures, CaptureReplace(c) PROVE PolicyInv'
  BY <1>18 DEF CaptureReplace, Stop, Ended, NoRecord, Moved
<1>19. ASSUME NEW c \in Captures, CaptureKilled(c) PROVE PolicyInv'
  <2>1. UNCHANGED <<policy, sidecar>> /\ \A d \in Captures : capture'[d].rec \in {capture[d].rec, NoRecord}
    BY <1>19 DEF CaptureKilled, Stop, Ended
  <2>. QED BY <1>19, <2>1, KillLeaves DEF NoRecord
<1>20. CASE \E v \in Versions : Rebuild(v)
  BY <1>20 DEF Rebuild, Whole
<1>21. CASE UNCHANGED vars
  BY <1>21 DEF vars
<1> HIDE DEF TypeInv, FreezerInv, PolicyInv, NamesPolicy, FreezerPcs, CapturePcs, CaptureRec, Rec
<1>. QED
  BY <1>1, <1>2, <1>3, <1>4, <1>5, <1>6, <1>7, <1>8, <1>9, <1>10, <1>11, <1>12, <1>13, <1>14, <1>15, <1>16, <1>17, <1>18, <1>19, <1>20, <1>21 DEF Next, Freeze, Capture

(* A finished binary is not touched again.                                  *)
LEMMA MatchStep ==
  TypeInv /\ HashInv /\ CopierInv /\ MatchInv /\ [Next]_vars => MatchInv'
<1> SUFFICES ASSUME TypeInv, HashInv, CopierInv, MatchInv, [Next]_vars PROVE MatchInv'
  OBVIOUS
<1> USE FilesAssumption, FrozenAssumption DEF TypeInv, CopierInv, MatchInv, Matches, IsWhole, CapturePcs, Contents, CaptureRec, Rec, policyVars, captureVars
<1>1. CASE \E fill \in Fills : FreezeStart(fill)
  BY <1>1 DEF FreezeStart, Idle
<1>2. CASE FreezeCheck
  BY <1>2 DEF FreezeCheck, Idle
<1>3. CASE FreezeOpen
  BY <1>3 DEF FreezeOpen
<1>4. CASE FreezeWrite
  BY <1>4 DEF FreezeWrite
<1>5. CASE FreezeReplace
  BY <1>5 DEF FreezeReplace
<1>6. CASE FreezeHash
  BY <1>6 DEF FreezeHash
<1>7. CASE FreezeSidecar
  BY <1>7 DEF FreezeSidecar, Idle
<1>8. CASE FreezeKilled
  BY <1>8 DEF FreezeKilled, Idle
<1>9. ASSUME NEW c \in Captures, CaptureStart(c) PROVE MatchInv'
  <2>1. capture'[c].digest = <<>> /\ capture'[c].pc = "digest"
    BY <1>9 DEF CaptureStart
  <2>2. \A d \in Captures \ {c} : capture'[d] = capture[d]
    BY <1>9 DEF CaptureStart
  <2>3. UNCHANGED <<binary, so, raced, records, recordsTmp>> /\ 1 .. Len(<<>>) = {}
    BY <1>9, NewFile DEF CaptureStart
  <2>. QED BY <2>1, <2>2, <2>3
<1>10. ASSUME NEW c \in Captures, CaptureHash(c) PROVE MatchInv'
  <2> DEFINE longer == Append(capture[c].digest, so[Len(capture[c].digest) + 1])
  <2>1. Len(longer) = Len(capture[c].digest) + 1
    BY <1>10, LongerFile DEF CaptureHash, HashInv
  <2>2. ~raced => /\ \A i \in 1 .. Len(longer) : longer[i] = so[i]
                  /\ Len(longer) = Chunks => longer = so
    BY <1>10, WholeFile DEF CaptureHash, HashInv
  <2>3. /\ capture'[c].digest = longer
        /\ capture'[c].pc = IF Len(longer) = Chunks THEN "binary" ELSE "digest"
    BY <1>10, <2>1 DEF CaptureHash
  <2>4. \A d \in Captures \ {c} : capture'[d] = capture[d]
    BY <1>10 DEF CaptureHash
  <2>5. UNCHANGED <<binary, so, raced, records, recordsTmp>>
    BY <1>10 DEF CaptureHash
  <2> HIDE DEF longer
  <2>. QED BY <2>2, <2>3, <2>4, <2>5
<1>11. ASSUME NEW c \in Captures, CaptureExisting(c) PROVE MatchInv'
  BY <1>11 DEF CaptureExisting, Goto, Stop, Ended, NoRecord
<1>12. ASSUME NEW c \in Captures, CaptureMissing(c) PROVE MatchInv'
  BY <1>12 DEF CaptureMissing, Goto
<1>13. ASSUME NEW c \in Captures, CaptureCreate(c) PROVE MatchInv'
  <2>1. CASE binary = Absent
    <3>1. ~raced' => \A d \in Captures :
            capture'[d].pc \notin {"inputs", "open", "write"}
      BY <1>13, <2>1 DEF CaptureCreate, Goto
    <3>2. ~raced' => recordsTmp' \in {Absent, Partial} /\ records' \in {Absent, Partial}
      BY <1>13, <2>1 DEF CaptureCreate
    <3>3. ~raced' => \A d \in Captures :
            capture'[d].pc \in {"binary", "create", "copy"} => capture'[d].digest = so'
      BY <1>13, <2>1 DEF CaptureCreate, Goto
    <3>4. 1 .. Len(binary') = {}
      BY <1>13, <2>1, NewFile DEF CaptureCreate
    <3>5. \A d \in Captures : capture'[d].pc = "digest" => capture'[d] = capture[d]
      BY <1>13, <2>1 DEF CaptureCreate, Goto
    <3>6. so' = so /\ raced' = raced
      BY <1>13 DEF CaptureCreate
    <3>. QED BY <3>1, <3>2, <3>3, <3>4, <3>5, <3>6
  <2>2. CASE binary # Absent
    <3>1. capture' = [capture EXCEPT ![c] = Ended]
          /\ UNCHANGED <<binary, records, recordsTmp, so, raced>>
      BY <1>13, <2>2 DEF CaptureCreate, Stop
    <3>2. \A d \in Captures : capture'[d] = capture[d] \/ capture'[d].pc = "idle"
      BY <3>1 DEF Ended
    <3>. QED BY <3>1, <3>2
  <2>. QED BY <2>1, <2>2
<1>14. ASSUME NEW c \in Captures, CaptureCopy(c) PROVE MatchInv'
  <2>1. \A d \in Captures \ {c} : capture'[d] = capture[d] /\ capture[d].pc # "copy"
    BY <1>14 DEF CaptureCopy, Goto
  <2>2. /\ binary \in Seq(Versions) /\ Len(binary) < Chunks /\ so \in Contents
        /\ capture[c].pc = "copy" /\ ~IsWhole(binary)
    BY <1>14 DEF CaptureCopy
  <2>3. /\ binary' \in Seq(Versions) /\ Len(binary') = Len(binary) + 1
        /\ binary'[Len(binary) + 1] = so[Len(binary) + 1]
        /\ \A i \in 1 .. Len(binary) : binary'[i] = binary[i]
    BY <1>14, <2>2, LongerFile DEF CaptureCopy
  <2>4. so' = so /\ raced' = raced /\ recordsTmp' = recordsTmp /\ records' = records
        /\ capture'[c].digest = capture[c].digest
        /\ capture'[c].pc = IF Len(binary') = Chunks THEN "inputs" ELSE "copy"
    BY <1>14, <2>3 DEF CaptureCopy, Goto
  <2>5. ~raced => /\ \A i \in 1 .. Len(binary') : binary'[i] = so[i]
                  /\ Len(binary') = Chunks => binary' = so
    BY <1>14, <2>2, WholeFile DEF CaptureCopy
  <2>6. ~raced => \A d \in Captures \ {c} :
          capture[d].pc \notin {"inputs", "open", "write"}
    BY <2>2
  <2>7. ~raced => recordsTmp \in {Absent, Partial} /\ records \in {Absent, Partial}
    BY <2>2
  <2>8. binary' # Absent
    BY <2>3
  <2>9. ~raced => capture[c].digest = so
    BY <2>2
  <2>10. ~raced => \A d \in Captures \ {c} :
           capture[d].pc \in {"binary", "create"} => capture[d].digest = so
    OBVIOUS
  <2>11. capture'[c].pc = "inputs" => Len(binary') = Chunks
    BY <2>4
  <2> HIDE DEF TypeInv, CopierInv
  <2>. QED BY <2>1, <2>4, <2>5, <2>6, <2>7, <2>8, <2>9, <2>10, <2>11
<1>15. ASSUME NEW c \in Captures, CaptureInputs(c) PROVE MatchInv'
  BY <1>15 DEF CaptureInputs
<1>16. ASSUME NEW c \in Captures, CaptureOpen(c) PROVE MatchInv'
  BY <1>16 DEF CaptureOpen
<1>17. ASSUME NEW c \in Captures, CaptureWrite(c) PROVE MatchInv'
  <2>1. UNCHANGED <<binary, so, raced>> /\ capture[c].pc = "write" /\ capture'[c].pc = "replace"
    BY <1>17 DEF CaptureWrite, Ended
  <2>2. \A d \in Captures \ {c} : capture'[d] = capture[d]
    BY <1>17 DEF CaptureWrite
  <2>3. ~raced => Matches(records)' /\ Matches(recordsTmp)'
    BY <1>17, <2>1, WriteLeaves
  <2>. QED BY <2>1, <2>2, <2>3
<1>18. ASSUME NEW c \in Captures, CaptureReplace(c) PROVE MatchInv'
  <2>1. binary' = binary /\ so' = so /\ raced' = raced BY <1>18 DEF CaptureReplace
  <2>2. \A d \in Captures :
          \/ capture'[d].pc = "idle"
          \/ capture'[d].pc = capture[d].pc /\ capture'[d].digest = capture[d].digest
             /\ capture'[d].rec = capture[d].rec
    BY <1>18 DEF CaptureReplace, Stop, Ended, NoRecord, Moved
  <2>3. ~raced => Matches(recordsTmp) /\ Matches(records) OBVIOUS
  <2>4. records' \in {records, recordsTmp} /\ recordsTmp' \in {recordsTmp, Absent}
    BY <1>18 DEF CaptureReplace
  <2>5. ~raced' => Matches(recordsTmp)' /\ Matches(records)'
    BY <2>1, <2>3, <2>4
  <2>. QED BY <2>1, <2>2, <2>5
<1>19. ASSUME NEW c \in Captures, CaptureKilled(c) PROVE MatchInv'
  <2>1. UNCHANGED <<binary, so, raced>>
    BY <1>19 DEF CaptureKilled
  <2>2. \A d \in Captures : capture'[d] = capture[d] \/ capture'[d].pc = "idle"
    BY <1>19 DEF CaptureKilled, Stop, Ended
  <2>3. ~raced => Matches(records)' /\ Matches(recordsTmp)'
    BY <1>19, <2>1, KillLeaves
  <2>. QED BY <2>1, <2>2, <2>3
<1>20. ASSUME NEW v \in Versions, Rebuild(v) PROVE MatchInv'
  <2>1. UNCHANGED <<binary, capture, records, recordsTmp>>
    BY <1>20 DEF Rebuild
  <2>2. ~raced' => ~raced /\ \A c \in Captures :
           capture[c].pc \in {"digest", "binary", "create", "copy"} => capture[c].digest = <<>>
    BY <1>20 DEF Rebuild
  <2>3. 1 .. Len(<<>>) = {}
    BY NewFile
  <2>. QED BY <2>1, <2>2, <2>3
<1>21. CASE UNCHANGED vars
  BY <1>21 DEF vars
<1> HIDE DEF TypeInv, CopierInv, MatchInv, Matches, IsWhole, CapturePcs, Contents, CaptureRec, Rec
<1>. QED
  BY <1>1, <1>2, <1>3, <1>4, <1>5, <1>6, <1>7, <1>8, <1>9, <1>10, <1>11, <1>12, <1>13, <1>14, <1>15, <1>16, <1>17, <1>18, <1>19, <1>20, <1>21 DEF Next, Freeze, Capture

(* Only a kill parts a partial file from its copier.                        *)
LEMMA PartialStep ==
  TypeInv /\ CopierInv /\ PartialOnlyIfKilled /\ [Next]_vars => PartialOnlyIfKilled'
<1> SUFFICES ASSUME TypeInv, CopierInv, PartialOnlyIfKilled, [Next]_vars PROVE PartialOnlyIfKilled'
  OBVIOUS
<1> USE FilesAssumption, FrozenAssumption DEF TypeInv, CopierInv, PartialOnlyIfKilled, IsWhole, CapturePcs, CaptureRec, policyVars, captureVars
<1>1. CASE \E fill \in Fills : FreezeStart(fill)
  BY <1>1 DEF FreezeStart, Idle
<1>2. CASE FreezeCheck
  BY <1>2 DEF FreezeCheck, Idle
<1>3. CASE FreezeOpen
  BY <1>3 DEF FreezeOpen
<1>4. CASE FreezeWrite
  BY <1>4 DEF FreezeWrite
<1>5. CASE FreezeReplace
  BY <1>5 DEF FreezeReplace
<1>6. CASE FreezeHash
  BY <1>6 DEF FreezeHash
<1>7. CASE FreezeSidecar
  BY <1>7 DEF FreezeSidecar, Idle
<1>8. CASE FreezeKilled
  BY <1>8 DEF FreezeKilled, Idle
<1>9. ASSUME NEW c \in Captures, CaptureStart(c) PROVE PartialOnlyIfKilled'
  BY <1>9 DEF CaptureStart, Goto
<1>10. ASSUME NEW c \in Captures, CaptureHash(c) PROVE PartialOnlyIfKilled'
  BY <1>10 DEF CaptureHash
<1>11. ASSUME NEW c \in Captures, CaptureExisting(c) PROVE PartialOnlyIfKilled'
  BY <1>11 DEF CaptureExisting, Goto, Stop, Ended, NoRecord
<1>12. ASSUME NEW c \in Captures, CaptureMissing(c) PROVE PartialOnlyIfKilled'
  BY <1>12 DEF CaptureMissing, Goto
<1>13. ASSUME NEW c \in Captures, CaptureCreate(c) PROVE PartialOnlyIfKilled'
  BY <1>13 DEF CaptureCreate, Goto, Stop, Ended, NoRecord
<1>14. ASSUME NEW c \in Captures, CaptureCopy(c) PROVE PartialOnlyIfKilled'
  BY <1>14 DEF CaptureCopy, Goto
<1>15. ASSUME NEW c \in Captures, CaptureInputs(c) PROVE PartialOnlyIfKilled'
  BY <1>15 DEF CaptureInputs
<1>16. ASSUME NEW c \in Captures, CaptureOpen(c) PROVE PartialOnlyIfKilled'
  BY <1>16 DEF CaptureOpen
<1>17. ASSUME NEW c \in Captures, CaptureWrite(c) PROVE PartialOnlyIfKilled'
  BY <1>17 DEF CaptureWrite, Ended, NoRecord
<1>18. ASSUME NEW c \in Captures, CaptureReplace(c) PROVE PartialOnlyIfKilled'
  BY <1>18 DEF CaptureReplace, Stop, Ended, NoRecord, Moved
<1>19. ASSUME NEW c \in Captures, CaptureKilled(c) PROVE PartialOnlyIfKilled'
  BY <1>19 DEF CaptureKilled, Stop, Ended, NoRecord
<1>20. CASE \E v \in Versions : Rebuild(v)
  BY <1>20 DEF Rebuild, Whole
<1>21. CASE UNCHANGED vars
  BY <1>21 DEF vars
<1> HIDE DEF TypeInv, CopierInv, PartialOnlyIfKilled, IsWhole, CapturePcs, CaptureRec
<1>. QED
  BY <1>1, <1>2, <1>3, <1>4, <1>5, <1>6, <1>7, <1>8, <1>9, <1>10, <1>11, <1>12, <1>13, <1>14, <1>15, <1>16, <1>17, <1>18, <1>19, <1>20, <1>21 DEF Next, Freeze, Capture

LEMMA InitInv == Init => IInv
<1> SUFFICES ASSUME Init PROVE IInv
  OBVIOUS
<1>1. so \in Contents
  BY DEF Init, Whole, Contents
<1>2. capture \in [Captures -> CaptureRec]
  BY EndedType DEF Init
<1>3. TypeInv
  BY <1>1, <1>2 DEF Init, TypeInv, Idle, FreezerPcs
<1>4. FreezerInv /\ HashInv /\ CopierInv
  BY DEF Init, FreezerInv, HashInv, CopierInv, Idle, Ended
<1>5. PolicyInv
  BY DEF Init, PolicyInv, NamesPolicy, Ended, NoRecord
<1>6. MatchInv /\ PartialOnlyIfKilled
  BY DEF Init, MatchInv, Matches, Ended, PartialOnlyIfKilled
<1>. QED BY <1>3, <1>4, <1>5, <1>6 DEF IInv

THEOREM Invariance == Spec => []IInv
<1>1. IInv /\ [Next]_vars => IInv'
  BY TypeStep, FreezerStep, HashStep, CopierStep, PolicyStep, MatchStep, PartialStep DEF IInv
<1>. QED BY InitInv, <1>1, PTL DEF Spec

(* Whatever is killed, repeated, overlaps or is rebuilt: a hash of the      *)
(* policy, in the sidecar or the records, is that of the frozen policy.     *)
THEOREM HashesStand == Spec => []PolicyHashesStand
<1>1. IInv => PolicyHashesStand
  BY DEF IInv, PolicyInv, NamesPolicy, PolicyHashesStand
<1>. QED BY Invariance, <1>1, PTL

(* Published records name the binary that is frozen, unless a rebuild came  *)
(* after a capture began to hash and before its copy was done.              *)
THEOREM RecordsMatch == Spec => []RecordsMatchBinary
<1>1. IInv => RecordsMatchBinary
  BY DEF IInv, MatchInv, Matches, RecordsMatchBinary
<1>. QED BY Invariance, <1>1, PTL

(* Only a capture killed while it copies leaves a partial frozen binary.    *)
THEOREM PartialMeansKilled == Spec => []PartialOnlyIfKilled
<1>1. IInv => PartialOnlyIfKilled
  BY DEF IInv
<1>. QED BY Invariance, <1>1, PTL
-----------------------------------------------------------------------------
(* The refinement                                                           *)

LEMMA InitMaps == Init => Frozen!Init
BY DEF Init, Frozen!Init, Artifact

LEMMA StepMaps == IInv /\ [Next]_vars => [Frozen!Next]_Artifact
<1> SUFFICES ASSUME IInv, [Next]_vars PROVE [Frozen!Next]_Artifact
  OBVIOUS
<1> USE FilesAssumption, FrozenAssumption DEF policyVars, captureVars
<1>1. CASE UNCHANGED <<policy, binary>>
  BY <1>1 DEF Artifact, IsWhole
<1>2. CASE FreezeReplace
  <2>1. policy = Absent /\ policy' \in Complete /\ binary' = binary
    BY <1>2 DEF FreezeReplace, IInv, FreezerInv
  <2>2. Artifact' = [Artifact EXCEPT !["policy"] = policy']
    BY <2>1 DEF Artifact, IsWhole
  <2>3. Artifact["policy"] = Absent
    BY <2>1 DEF Artifact
  <2>4. Frozen!Freeze("policy")
    BY <2>1, <2>2, <2>3 DEF Frozen!Freeze
  <2>. QED BY <2>4 DEF Frozen!Next
<1>3. ASSUME NEW c \in Captures, CaptureCreate(c) PROVE Artifact' = Artifact
  <2>1. policy' = policy
    BY <1>3 DEF CaptureCreate
  <2>2. ~(binary # Absent /\ IsWhole(binary)) \/ binary' = binary
    BY <1>3 DEF CaptureCreate, IsWhole
  <2>3. binary' = binary \/ ~IsWhole(binary)'
    BY <1>3, NewFile DEF CaptureCreate, IsWhole
  <2>. QED BY <2>1, <2>2, <2>3 DEF Artifact, IsWhole
<1>4. ASSUME NEW c \in Captures, CaptureCopy(c) PROVE [Frozen!Next]_Artifact
  <2>1. binary \in Seq(Versions) /\ Len(binary) < Chunks /\ so \in Contents
    BY <1>4 DEF CaptureCopy, IInv, TypeInv, CopierInv
  <2>2. binary' \in Seq(Versions) /\ Len(binary') = Len(binary) + 1 /\ policy' = policy
    BY <1>4, <2>1, LongerFile DEF CaptureCopy
  <2>3. ~IsWhole(binary)
    BY <2>1 DEF IsWhole
  <2>4. CASE ~IsWhole(binary')
    BY <2>2, <2>3, <2>4 DEF Artifact
  <2>5. CASE IsWhole(binary')
    <3>1. binary' \in [1 .. Chunks -> Versions]
      BY <2>2, <2>5 DEF IsWhole
    <3>2. Artifact' = [Artifact EXCEPT !["binary"] = binary'] /\ Artifact["binary"] = Absent
      BY <2>2, <2>3, <2>5 DEF Artifact, IsWhole
    <3>3. Frozen!Freeze("binary")
      BY <3>1, <3>2 DEF Frozen!Freeze
    <3>. QED BY <3>3 DEF Frozen!Next
  <2>. QED BY <2>4, <2>5
<1>5. ASSUME NEW fill \in Fills, FreezeStart(fill) PROVE UNCHANGED <<policy, binary>>
  BY <1>5 DEF FreezeStart
<1>6. CASE FreezeCheck \/ FreezeOpen \/ FreezeWrite \/ FreezeHash \/ FreezeSidecar \/ FreezeKilled
  BY <1>1, <1>6 DEF FreezeCheck, FreezeOpen, FreezeWrite, FreezeHash, FreezeSidecar, FreezeKilled
<1>7. ASSUME NEW c \in Captures,
             CaptureStart(c) \/ CaptureHash(c) \/ CaptureExisting(c) \/ CaptureMissing(c)
             \/ CaptureInputs(c) \/ CaptureOpen(c) \/ CaptureWrite(c) \/ CaptureReplace(c)
             \/ CaptureKilled(c)
      PROVE  UNCHANGED <<policy, binary>>
  BY <1>7 DEF CaptureStart, CaptureHash, CaptureExisting, CaptureMissing, CaptureInputs,
              CaptureOpen, CaptureWrite, CaptureReplace, CaptureKilled
<1>8. ASSUME NEW v \in Versions, Rebuild(v) PROVE UNCHANGED <<policy, binary>>
  BY <1>8 DEF Rebuild
<1>9. CASE UNCHANGED vars
  BY <1>1, <1>9 DEF vars
<1>. QED
  BY <1>1, <1>2, <1>3, <1>4, <1>5, <1>6, <1>7, <1>8, <1>9 DEF Next, Freeze, Capture

(* The policy and the binary are each written once and stand for ever.      *)
THEOREM FrozenImplemented == Spec => FrozenOnce
<1>1. Init => Frozen!Init
  BY InitMaps
<1>2. IInv /\ [Next]_vars => [Frozen!Next]_Artifact
  BY StepMaps
<1>. QED BY <1>1, <1>2, Invariance, PTL DEF Spec, FrozenOnce, Frozen!Spec
-----------------------------------------------------------------------------
(* CandidateBuild                                                           *)

Obj == [source : Sources, headers : Headers]
Binary == [obj : Obj, objects : Objects]

ManifestRec ==
  [status : {"none", "built", "failed"}, source : Sources \cup {Absent},
   objects : Objects \cup {Absent}, so : Binary \cup {Absent, Partial}]

BuildPcs ==
  {"idle", "source", "copy", "manifest", "compile", "drift", "link", "linking",
   "built", "failed", "write built", "write failed"}

DirRec ==
  [copy : Sources \cup {Absent}, manifest : ManifestRec \cup {Absent, Partial},
   obj : Obj \cup {Absent}, so : Binary \cup {Absent, Partial}]

CopyRec ==
  [manifest : ManifestRec \cup {Absent, Partial}, so : Binary \cup {Absent, Partial}]

BuildRec ==
  [pc : BuildPcs, source : Sources \cup {Absent}, objects : Objects \cup {Absent}]

PrepPcs == {"idle", "look", "clone", "check", "rename"}

PrepRec ==
  [pc : PrepPcs, profile : Profiles \cup {Absent}, outcome : Profiles \cup {Absent}]

RunRec ==
  [pc : {"idle", "verify", "import", "running"},
   tool : {"run_backend", "serve"}, at : {"home", "elsewhere"},
   expected : Binary \cup {Absent, Partial}, loaded : Binary \cup {Absent, Partial}]

CandidateTypes ==
  /\ vendor \in Profiles \cup {Absent}
  /\ source \in Sources /\ objects \in Objects \cup {Absent}
  /\ prep \in [Preparers -> PrepRec]
  /\ dir \in DirRec /\ build \in BuildRec
  /\ elsewhere \in CopyRec /\ run \in [Runners -> RunRec]

(* Every step has the inputs it takes from an earlier one.                  *)
StepInv ==
  /\ build.pc # "idle" => vendor # Absent /\ objects \in Objects
  /\ build.pc \in {"drift", "link", "linking"} => dir.obj \in Obj
  /\ build.pc \in {"built", "write built"} => dir.so \in Binary

Readable == Recorded(dir.manifest)

(* A manifest with a binary is the last thing a build writes.               *)
RecordInv ==
  Readable =>
    /\ build.pc = "idle" /\ dir.manifest.status = "built"
    /\ dir.manifest.so = dir.so /\ dir.so \in Binary

(* A copied manifest that records a binary is the one at home.              *)
CopyInv == Recorded(elsewhere.manifest) => Readable /\ elsewhere.manifest = dir.manifest

RunInv ==
  \A r \in Runners :
    /\ run[r].pc # "idle" => Readable /\ run[r].expected = dir.manifest.so
    /\ run[r].tool = "serve" => run[r].at = "home"
    /\ run[r].pc = "running" /\ run[r].at = "home" => run[r].loaded = run[r].expected

(* What a build used is what it hashed, or the source has moved on and the  *)
(* drift check will see it.                                                 *)
InputInv ==
  ~disturbed =>
    /\ build.pc \in {"manifest", "compile", "drift"} =>
         dir.copy = build.source \/ source # build.source
    /\ build.pc = "drift" => dir.obj.source = build.source \/ source # build.source
    /\ build.pc \in {"link", "linking"} =>
         dir.obj.source = build.source /\ objects = build.objects
    /\ build.pc \in {"link", "linking", "built", "write built"} => dir.copy = build.source
    /\ build.pc \in {"built", "write built"} =>
         dir.so.obj.source = build.source /\ dir.so.objects = build.objects
    /\ Readable =>
         /\ dir.so.obj.source = dir.manifest.source /\ dir.so.objects = dir.manifest.objects
         /\ dir.copy = dir.manifest.source

CandidateInv ==
  CandidateTypes /\ PreparedStands /\ StepInv /\ RecordInv /\ CopyInv /\ RunInv /\ InputInv

(* What the types are closed under.                                         *)

LEMMA PrepGotoType ==
  ASSUME prep \in [Preparers -> PrepRec], NEW p \in Preparers, NEW pc \in PrepPcs, PrepGoto(p, pc)
  PROVE  prep' \in [Preparers -> PrepRec]
<1>1. [prep[p] EXCEPT !.pc = pc] \in PrepRec
  BY DEF PrepRec
<1>. QED BY <1>1 DEF PrepGoto

LEMMA PrepStopType ==
  ASSUME prep \in [Preparers -> PrepRec], NEW p \in Preparers,
         NEW outcome \in Profiles \cup {Absent}, PrepStop(p, outcome)
  PROVE  prep' \in [Preparers -> PrepRec]
<1>1. PrepIdle(outcome) \in PrepRec
  BY DEF PrepRec, PrepIdle, PrepPcs
<1>. QED BY <1>1 DEF PrepStop

LEMMA BuildGotoType ==
  ASSUME build \in BuildRec, NEW pc \in BuildPcs, BuildGoto(pc)
  PROVE  build' \in BuildRec
BY DEF BuildGoto, BuildRec

LEMMA DirTypes ==
  ASSUME NEW d \in DirRec
  PROVE  /\ \A s \in Sources : [d EXCEPT !.copy = s] \in DirRec
         /\ \A m \in ManifestRec \cup {Partial} : [d EXCEPT !.manifest = m] \in DirRec
         /\ \A o \in Obj : [d EXCEPT !.obj = o] \in DirRec
         /\ \A b \in Binary \cup {Partial} : [d EXCEPT !.so = b] \in DirRec
<1>1. \A s \in Sources : [d EXCEPT !.copy = s] \in DirRec
  BY DEF DirRec
<1>2. \A m \in ManifestRec \cup {Partial} : [d EXCEPT !.manifest = m] \in DirRec
  BY DEF DirRec
<1>3. \A o \in Obj : [d EXCEPT !.obj = o] \in DirRec
  BY DEF DirRec
<1>4. \A b \in Binary \cup {Partial} : [d EXCEPT !.so = b] \in DirRec
  BY DEF DirRec
<1>. QED BY <1>1, <1>2, <1>3, <1>4

LEMMA ManifestTypes ==
  ASSUME build \in BuildRec, NEW b \in Binary \cup {Absent, Partial},
         NEW status \in {"none", "built", "failed"}
  PROVE  Manifest(status, build.source, build.objects, b) \in ManifestRec
BY DEF Manifest, ManifestRec, BuildRec

(* The type is kept.                                                        *)
LEMMA CandidateTypeStep ==
  CandidateTypes /\ StepInv /\ [CandidateNext]_candidateVars => CandidateTypes'
<1> SUFFICES ASSUME CandidateTypes, StepInv, [CandidateNext]_candidateVars PROVE CandidateTypes'
  OBVIOUS
<1> USE FilesAssumption, BuildAssumption DEF CandidateTypes, prepVars, buildVars, runVars
<1>1. ASSUME NEW p \in Preparers, NEW profile \in Profiles, PrepStart(p, profile) PROVE CandidateTypes'
  <2>1. [pc |-> "look", profile |-> profile, outcome |-> Absent] \in PrepRec
    BY DEF PrepRec, PrepPcs
  <2>2. prep' \in [Preparers -> PrepRec]
    BY <1>1, <2>1, PrepStopType DEF PrepStart
  <2>. QED BY <1>1, <2>2 DEF PrepStart
<1>2. ASSUME NEW p \in Preparers, PrepLook(p) PROVE CandidateTypes'
  <2>1. prep[p].profile \in Profiles \cup {Absent} /\ "clone" \in PrepPcs
    BY DEF PrepRec, PrepPcs
  <2>2. prep' \in [Preparers -> PrepRec]
    BY <1>2, <2>1, PrepGotoType, PrepStopType DEF PrepLook
  <2>. QED BY <1>2, <2>2 DEF PrepLook
<1>3. ASSUME NEW p \in Preparers, PrepClone(p) PROVE CandidateTypes'
  <2>1. "check" \in PrepPcs
    BY DEF PrepPcs
  <2>2. prep' \in [Preparers -> PrepRec]
    BY <1>3, <2>1, PrepGotoType, PrepStopType DEF PrepClone
  <2>. QED BY <1>3, <2>2 DEF PrepClone
<1>4. ASSUME NEW p \in Preparers, PrepCheck(p) PROVE CandidateTypes'
  <2>1. "rename" \in PrepPcs
    BY DEF PrepPcs
  <2>2. prep' \in [Preparers -> PrepRec]
    BY <1>4, <2>1, PrepGotoType, PrepStopType DEF PrepCheck
  <2>. QED BY <1>4, <2>2 DEF PrepCheck
<1>5. ASSUME NEW p \in Preparers, PrepRename(p) PROVE CandidateTypes'
  <2>1. prep[p].profile \in Profiles \cup {Absent}
    BY DEF PrepRec
  <2>2. prep' \in [Preparers -> PrepRec]
    BY <1>5, <2>1, PrepStopType DEF PrepRename
  <2>3. PristineSource \in Sources
    BY DEF PristineSource
  <2>. QED BY <1>5, <2>1, <2>2, <2>3 DEF PrepRename
<1>6. ASSUME NEW p \in Preparers, PrepKilled(p) PROVE CandidateTypes'
  <2>1. prep' \in [Preparers -> PrepRec]
    BY <1>6, PrepStopType DEF PrepKilled
  <2>. QED BY <1>6, <2>1 DEF PrepKilled
<1>7. CASE BuildStart
  <2>1. build' \in BuildRec
    BY <1>7 DEF BuildStart, BuildRec, BuildPcs
  <2>. QED BY <1>7, <2>1 DEF BuildStart
<1>8. CASE BuildHashSource
  <2>1. build' \in BuildRec
    BY <1>8 DEF BuildHashSource, BuildRec, BuildPcs
  <2>. QED BY <1>8, <2>1 DEF BuildHashSource
<1>9. CASE BuildCopy
  <2>1. {"manifest"} \subseteq BuildPcs
    BY DEF BuildPcs
  <2>2. build' \in BuildRec
    BY <1>9, <2>1, BuildGotoType DEF BuildCopy
  <2>3. dir' \in DirRec
    BY <1>9, DirTypes DEF BuildCopy
  <2>. QED BY <1>9, <2>2, <2>3 DEF BuildCopy
<1>10. CASE BuildManifest
  <2>1. Manifest("none", build.source, build.objects, Absent) \in ManifestRec
    BY ManifestTypes
  <2>2. {"compile"} \subseteq BuildPcs
    BY DEF BuildPcs
  <2>3. build' \in BuildRec
    BY <1>10, <2>2, BuildGotoType DEF BuildManifest
  <2>4. dir' \in DirRec
    BY <1>10, DirTypes, <2>1 DEF BuildManifest
  <2>. QED BY <1>10, <2>3, <2>4 DEF BuildManifest
<1>11. CASE BuildCompile
  <2>1. {"drift", "failed"} \subseteq BuildPcs
    BY DEF BuildPcs
  <2>2. build' \in BuildRec
    BY <1>11, <2>1, BuildGotoType DEF BuildCompile
  <2>3. \A h \in Headers : [source |-> source, headers |-> h] \in Obj
    BY DEF Obj
  <2>4. dir' \in DirRec
    BY <1>11, DirTypes, <2>3, Zenon DEF BuildCompile
  <2>. QED BY <1>11, <2>2, <2>4 DEF BuildCompile
<1>12. CASE BuildDrift
  <2>1. {"link", "failed"} \subseteq BuildPcs
    BY DEF BuildPcs
  <2>2. build' \in BuildRec
    BY <1>12, <2>1, BuildGotoType DEF BuildDrift
  <2>. QED BY <1>12, <2>2 DEF BuildDrift
<1>13. CASE BuildLink
  <2>1. {"linking"} \subseteq BuildPcs
    BY DEF BuildPcs
  <2>2. build' \in BuildRec
    BY <1>13, <2>1, BuildGotoType DEF BuildLink
  <2>3. dir' \in DirRec
    BY <1>13, DirTypes DEF BuildLink
  <2>. QED BY <1>13, <2>2, <2>3 DEF BuildLink
<1>14. CASE BuildLinked
  <2>1. build.pc = "linking" => [obj |-> dir.obj, objects |-> objects] \in Binary
    BY DEF StepInv, Binary
  <2>2. {"built", "failed"} \subseteq BuildPcs
    BY DEF BuildPcs
  <2>3. build' \in BuildRec
    BY <1>14, <2>2, BuildGotoType DEF BuildLinked
  <2>4. dir' \in DirRec
    BY <1>14, DirTypes, <2>1, ZenonT(30) DEF BuildLinked
  <2>. QED BY <1>14, <2>3, <2>4 DEF BuildLinked
<1>15. CASE BuildRewrite
  <2>1. {"write built", "write failed"} \subseteq BuildPcs
    BY DEF BuildPcs
  <2>2. build' \in BuildRec
    BY <1>15, <2>1, BuildGotoType DEF BuildRewrite
  <2>3. dir' \in DirRec
    BY <1>15, DirTypes DEF BuildRewrite
  <2>. QED BY <1>15, <2>2, <2>3 DEF BuildRewrite
<1>16. CASE BuildEnd
  <2>1. dir.so \in Binary \cup {Absent, Partial}
    BY DEF DirRec
  <2>2. /\ Manifest("built", build.source, build.objects, dir.so) \in ManifestRec
        /\ Manifest("failed", build.source, build.objects, Absent) \in ManifestRec
    BY <2>1, ManifestTypes
  <2>3. dir' \in DirRec
    BY <1>16, <2>2, DirTypes DEF BuildEnd
  <2>4. build' \in BuildRec
    BY <1>16 DEF BuildEnd, NoBuild, BuildRec, BuildPcs
  <2>. QED BY <1>16, <2>3, <2>4 DEF BuildEnd
<1>17. CASE BuildKilled
  <2>1. build' \in BuildRec
    BY <1>17 DEF BuildKilled, NoBuild, BuildRec, BuildPcs
  <2>. QED BY <1>17, <2>1 DEF BuildKilled
<1>18. ASSUME NEW s \in Sources, Edit(s) PROVE CandidateTypes'
  BY <1>18 DEF Edit
<1>19. ASSUME NEW o \in Objects, FullBuild(o) PROVE CandidateTypes'
  BY <1>19 DEF FullBuild
<1>20. ASSUME NEW r \in Runners, NEW tool \in {"run_backend", "serve"}, NEW at \in {"home", "elsewhere"},
             RunRead(r, tool, at)
      PROVE  CandidateTypes'
  <2>1. Given(at).manifest \in ManifestRec /\ UNCHANGED elsewhere
    BY <1>20 DEF RunRead, Given, Recorded, DirRec, CopyRec
  <2>2. [pc |-> "verify", tool |-> tool, at |-> at, expected |-> Given(at).manifest.so,
         loaded |-> Absent] \in RunRec
    BY <2>1 DEF RunRec, ManifestRec
  <2>. QED BY <1>20, <2>2 DEF RunRead
<1>21. ASSUME NEW r \in Runners, RunVerify(r) PROVE CandidateTypes'
  <2>1. [run[r] EXCEPT !.pc = "import"] \in RunRec /\ NoRun \in RunRec
    BY DEF RunRec, NoRun
  <2>. QED BY <1>21, <2>1 DEF RunVerify
<1>22. ASSUME NEW r \in Runners, RunImport(r) PROVE CandidateTypes'
  <2> DEFINE found == IF run[r].tool = "serve" THEN dir.so ELSE Given(run[r].at).so
  <2>1. found \in Binary \cup {Absent, Partial}
    BY DEF DirRec, CopyRec, Given
  <2> HIDE DEF found
  <2>2. [run[r] EXCEPT !.pc = "running", !.loaded = found] \in RunRec /\ NoRun \in RunRec
    BY <2>1 DEF RunRec, NoRun
  <2>3. \/ run' = [run EXCEPT ![r] = [run[r] EXCEPT !.pc = "running", !.loaded = found]]
        \/ run' = [run EXCEPT ![r] = NoRun]
    BY <1>22 DEF RunImport, found
  <2>. QED BY <1>22, <2>2, <2>3 DEF RunImport
<1>23. ASSUME NEW f \in {"manifest", "so"}, CopyFile(f) PROVE CandidateTypes'
  <2>1. PICK text \in {dir[f], Partial} : elsewhere' = [elsewhere EXCEPT ![f] = text]
    BY <1>23 DEF CopyFile
  <2>2. CASE f = "manifest"
    <3>1. text \in ManifestRec \cup {Absent, Partial}
      BY <2>1, <2>2 DEF DirRec
    <3>2. elsewhere' \in CopyRec
      BY <2>1, <2>2, <3>1 DEF CopyRec
    <3>. QED BY <1>23, <3>2 DEF CopyFile
  <2>3. CASE f = "so"
    <3>1. text \in Binary \cup {Absent, Partial}
      BY <2>1, <2>3 DEF DirRec
    <3>2. elsewhere' \in CopyRec
      BY <2>1, <2>3, <3>1 DEF CopyRec
    <3>. QED BY <1>23, <3>2 DEF CopyFile
  <2>. QED BY <2>2, <2>3
<1>24. CASE UNCHANGED candidateVars
  BY <1>24 DEF candidateVars
<1> HIDE DEF CandidateTypes
<1>. QED
  BY <1>1, <1>2, <1>3, <1>4, <1>5, <1>6, <1>7, <1>8, <1>9, <1>10, <1>11, <1>12, <1>13, <1>14, <1>15, <1>16, <1>17, <1>18, <1>19, <1>20, <1>21, <1>22, <1>23, <1>24 DEF CandidateNext, Prepare, Build, Run

(* A checkout is published once.                                            *)
LEMMA PreparedStep ==
  CandidateTypes /\ PreparedStands /\ [CandidateNext]_candidateVars => PreparedStands'
<1> SUFFICES ASSUME CandidateTypes, PreparedStands, [CandidateNext]_candidateVars PROVE PreparedStands'
  OBVIOUS
<1> USE FilesAssumption, BuildAssumption DEF CandidateTypes, PreparedStands, PrepRec, PrepPcs, prepVars, buildVars, runVars
<1>1. ASSUME NEW p \in Preparers, NEW profile \in Profiles, PrepStart(p, profile) PROVE PreparedStands'
  BY <1>1 DEF PrepStart, PrepStop, PrepIdle
<1>2. ASSUME NEW p \in Preparers, PrepLook(p) PROVE PreparedStands'
  BY <1>2 DEF PrepLook, PrepGoto, PrepStop, PrepIdle, Verifies
<1>3. ASSUME NEW p \in Preparers, PrepClone(p) PROVE PreparedStands'
  BY <1>3 DEF PrepClone, PrepGoto, PrepStop, PrepIdle
<1>4. ASSUME NEW p \in Preparers, PrepCheck(p) PROVE PreparedStands'
  BY <1>4 DEF PrepCheck, PrepGoto, PrepStop, PrepIdle
<1>5. ASSUME NEW p \in Preparers, PrepRename(p) PROVE PreparedStands'
  BY <1>5 DEF PrepRename, PrepGoto, PrepStop, PrepIdle
<1>6. ASSUME NEW p \in Preparers, PrepKilled(p) PROVE PreparedStands'
  BY <1>6 DEF PrepKilled, PrepGoto, PrepStop, PrepIdle
<1>7. CASE BuildStart
  BY <1>7 DEF BuildStart, Empty
<1>8. CASE BuildHashSource
  BY <1>8 DEF BuildHashSource
<1>9. CASE BuildCopy
  BY <1>9 DEF BuildCopy, BuildGoto
<1>10. CASE BuildManifest
  BY <1>10 DEF BuildManifest, BuildGoto, Manifest
<1>11. CASE BuildCompile
  BY <1>11 DEF BuildCompile, BuildGoto
<1>12. CASE BuildDrift
  BY <1>12 DEF BuildDrift, BuildGoto, Drifted
<1>13. CASE BuildLink
  BY <1>13 DEF BuildLink, BuildGoto
<1>14. CASE BuildLinked
  BY <1>14 DEF BuildLinked, BuildGoto
<1>15. CASE BuildRewrite
  BY <1>15 DEF BuildRewrite, BuildGoto
<1>16. CASE BuildEnd
  BY <1>16 DEF BuildEnd, Manifest, NoBuild
<1>17. CASE BuildKilled
  BY <1>17 DEF BuildKilled, NoBuild
<1>18. ASSUME NEW s \in Sources, Edit(s) PROVE PreparedStands'
  BY <1>18 DEF Edit
<1>19. ASSUME NEW o \in Objects, FullBuild(o) PROVE PreparedStands'
  BY <1>19 DEF FullBuild
<1>20. ASSUME NEW r \in Runners, NEW tool \in {"run_backend", "serve"}, NEW at \in {"home", "elsewhere"},
             RunRead(r, tool, at)
      PROVE  PreparedStands'
  BY <1>20 DEF RunRead
<1>21. ASSUME NEW r \in Runners, RunVerify(r) PROVE PreparedStands'
  BY <1>21 DEF RunVerify, NoRun
<1>22. ASSUME NEW r \in Runners, RunImport(r) PROVE PreparedStands'
  BY <1>22 DEF RunImport
<1>23. ASSUME NEW f \in {"manifest", "so"}, CopyFile(f) PROVE PreparedStands'
  BY <1>23 DEF CopyFile
<1>24. CASE UNCHANGED candidateVars
  BY <1>24 DEF candidateVars
<1> HIDE DEF CandidateTypes, PreparedStands, PrepRec, PrepPcs
<1>. QED
  BY <1>1, <1>2, <1>3, <1>4, <1>5, <1>6, <1>7, <1>8, <1>9, <1>10, <1>11, <1>12, <1>13, <1>14, <1>15, <1>16, <1>17, <1>18, <1>19, <1>20, <1>21, <1>22, <1>23, <1>24 DEF CandidateNext, Prepare, Build, Run

(* Steps follow each other.                                                 *)
LEMMA StepStep ==
  CandidateTypes /\ StepInv /\ [CandidateNext]_candidateVars => StepInv'
<1> SUFFICES ASSUME CandidateTypes, StepInv, [CandidateNext]_candidateVars PROVE StepInv'
  OBVIOUS
<1> USE FilesAssumption, BuildAssumption DEF CandidateTypes, StepInv, BuildPcs, Binary, BuildRec, DirRec, prepVars, buildVars, runVars
<1>1. ASSUME NEW p \in Preparers, NEW profile \in Profiles, PrepStart(p, profile) PROVE StepInv'
  BY <1>1 DEF PrepStart, PrepStop, PrepIdle
<1>2. ASSUME NEW p \in Preparers, PrepLook(p) PROVE StepInv'
  BY <1>2 DEF PrepLook, PrepGoto, PrepStop, PrepIdle, Verifies
<1>3. ASSUME NEW p \in Preparers, PrepClone(p) PROVE StepInv'
  BY <1>3 DEF PrepClone, PrepGoto, PrepStop, PrepIdle
<1>4. ASSUME NEW p \in Preparers, PrepCheck(p) PROVE StepInv'
  BY <1>4 DEF PrepCheck, PrepGoto, PrepStop, PrepIdle
<1>5. ASSUME NEW p \in Preparers, PrepRename(p) PROVE StepInv'
  BY <1>5 DEF PrepRename, PrepGoto, PrepStop, PrepIdle
<1>6. ASSUME NEW p \in Preparers, PrepKilled(p) PROVE StepInv'
  BY <1>6 DEF PrepKilled, PrepGoto, PrepStop, PrepIdle
<1>7. CASE BuildStart
  BY <1>7 DEF BuildStart, Empty
<1>8. CASE BuildHashSource
  BY <1>8 DEF BuildHashSource
<1>9. CASE BuildCopy
  BY <1>9 DEF BuildCopy, BuildGoto
<1>10. CASE BuildManifest
  BY <1>10 DEF BuildManifest, BuildGoto, Manifest
<1>11. CASE BuildCompile
  <2>1. build.pc = "compile" /\ UNCHANGED <<vendor, objects>>
    BY <1>11 DEF BuildCompile
  <2>2. ASSUME NEW h \in Headers, dir' = [dir EXCEPT !.obj = [source |-> source, headers |-> h]],
               BuildGoto("drift")
        PROVE  StepInv'
    <3>1. dir'.obj \in Obj /\ build'.pc = "drift"
      BY <2>2 DEF BuildGoto, Obj
    <3>. QED BY <2>1, <3>1
  <2>3. CASE BuildGoto("failed")
    BY <2>1, <2>3 DEF BuildGoto
  <2>. QED BY <1>11, <2>2, <2>3 DEF BuildCompile
<1>12. CASE BuildDrift
  BY <1>12 DEF BuildDrift, BuildGoto, Drifted
<1>13. CASE BuildLink
  BY <1>13 DEF BuildLink, BuildGoto
<1>14. CASE BuildLinked
  <2>1. build.pc = "linking" => [obj |-> dir.obj, objects |-> objects] \in Binary
    OBVIOUS
  <2>2. CASE dir' = [dir EXCEPT !.so = [obj |-> dir.obj, objects |-> objects]] /\ BuildGoto("built")
    BY <1>14, <2>1, <2>2 DEF BuildLinked, BuildGoto
  <2>3. CASE UNCHANGED dir /\ BuildGoto("failed")
    BY <1>14, <2>3 DEF BuildLinked, BuildGoto
  <2>. QED BY <1>14, <2>2, <2>3 DEF BuildLinked
<1>15. CASE BuildRewrite
  BY <1>15 DEF BuildRewrite, BuildGoto
<1>16. CASE BuildEnd
  BY <1>16 DEF BuildEnd, Manifest, NoBuild
<1>17. CASE BuildKilled
  BY <1>17 DEF BuildKilled, NoBuild
<1>18. ASSUME NEW s \in Sources, Edit(s) PROVE StepInv'
  BY <1>18 DEF Edit
<1>19. ASSUME NEW o \in Objects, FullBuild(o) PROVE StepInv'
  BY <1>19 DEF FullBuild
<1>20. ASSUME NEW r \in Runners, NEW tool \in {"run_backend", "serve"}, NEW at \in {"home", "elsewhere"},
             RunRead(r, tool, at)
      PROVE  StepInv'
  BY <1>20 DEF RunRead
<1>21. ASSUME NEW r \in Runners, RunVerify(r) PROVE StepInv'
  BY <1>21 DEF RunVerify, NoRun
<1>22. ASSUME NEW r \in Runners, RunImport(r) PROVE StepInv'
  BY <1>22 DEF RunImport
<1>23. ASSUME NEW f \in {"manifest", "so"}, CopyFile(f) PROVE StepInv'
  BY <1>23 DEF CopyFile
<1>24. CASE UNCHANGED candidateVars
  BY <1>24 DEF candidateVars
<1> HIDE DEF CandidateTypes, StepInv
<1>. QED
  BY <1>1, <1>2, <1>3, <1>4, <1>5, <1>6, <1>7, <1>8, <1>9, <1>10, <1>11, <1>12, <1>13, <1>14, <1>15, <1>16, <1>17, <1>18, <1>19, <1>20, <1>21, <1>22, <1>23, <1>24 DEF CandidateNext, Prepare, Build, Run

(* Nothing is written after the record.                                     *)
LEMMA RecordStep ==
  CandidateTypes /\ StepInv /\ RecordInv /\ [CandidateNext]_candidateVars => RecordInv'
<1> SUFFICES ASSUME CandidateTypes, StepInv, RecordInv, [CandidateNext]_candidateVars PROVE RecordInv'
  OBVIOUS
<1> USE FilesAssumption, BuildAssumption DEF CandidateTypes, StepInv, RecordInv, Readable, Recorded, BuildPcs, BuildRec, DirRec, prepVars, buildVars, runVars
<1>1. ASSUME NEW p \in Preparers, NEW profile \in Profiles, PrepStart(p, profile) PROVE RecordInv'
  BY <1>1 DEF PrepStart, PrepStop, PrepIdle
<1>2. ASSUME NEW p \in Preparers, PrepLook(p) PROVE RecordInv'
  BY <1>2 DEF PrepLook, PrepGoto, PrepStop, PrepIdle, Verifies
<1>3. ASSUME NEW p \in Preparers, PrepClone(p) PROVE RecordInv'
  BY <1>3 DEF PrepClone, PrepGoto, PrepStop, PrepIdle
<1>4. ASSUME NEW p \in Preparers, PrepCheck(p) PROVE RecordInv'
  BY <1>4 DEF PrepCheck, PrepGoto, PrepStop, PrepIdle
<1>5. ASSUME NEW p \in Preparers, PrepRename(p) PROVE RecordInv'
  BY <1>5 DEF PrepRename, PrepGoto, PrepStop, PrepIdle
<1>6. ASSUME NEW p \in Preparers, PrepKilled(p) PROVE RecordInv'
  BY <1>6 DEF PrepKilled, PrepGoto, PrepStop, PrepIdle
<1>7. CASE BuildStart
  BY <1>7 DEF BuildStart, Empty
<1>8. CASE BuildHashSource
  BY <1>8 DEF BuildHashSource
<1>9. CASE BuildCopy
  BY <1>9 DEF BuildCopy, BuildGoto
<1>10. CASE BuildManifest
  BY <1>10 DEF BuildManifest, BuildGoto, Manifest
<1>11. CASE BuildCompile
  BY <1>11 DEF BuildCompile, BuildGoto
<1>12. CASE BuildDrift
  BY <1>12 DEF BuildDrift, BuildGoto, Drifted
<1>13. CASE BuildLink
  BY <1>13 DEF BuildLink, BuildGoto
<1>14. CASE BuildLinked
  BY <1>14 DEF BuildLinked, BuildGoto
<1>15. CASE BuildRewrite
  BY <1>15 DEF BuildRewrite, BuildGoto
<1>16. CASE BuildEnd
  BY <1>16 DEF BuildEnd, Manifest, NoBuild
<1>17. CASE BuildKilled
  BY <1>17 DEF BuildKilled, NoBuild
<1>18. ASSUME NEW s \in Sources, Edit(s) PROVE RecordInv'
  BY <1>18 DEF Edit
<1>19. ASSUME NEW o \in Objects, FullBuild(o) PROVE RecordInv'
  BY <1>19 DEF FullBuild
<1>20. ASSUME NEW r \in Runners, NEW tool \in {"run_backend", "serve"}, NEW at \in {"home", "elsewhere"},
             RunRead(r, tool, at)
      PROVE  RecordInv'
  BY <1>20 DEF RunRead
<1>21. ASSUME NEW r \in Runners, RunVerify(r) PROVE RecordInv'
  BY <1>21 DEF RunVerify, NoRun
<1>22. ASSUME NEW r \in Runners, RunImport(r) PROVE RecordInv'
  BY <1>22 DEF RunImport
<1>23. ASSUME NEW f \in {"manifest", "so"}, CopyFile(f) PROVE RecordInv'
  BY <1>23 DEF CopyFile
<1>24. CASE UNCHANGED candidateVars
  BY <1>24 DEF candidateVars
<1> HIDE DEF CandidateTypes, StepInv, RecordInv, Readable, Recorded, BuildPcs, BuildRec, DirRec
<1>. QED
  BY <1>1, <1>2, <1>3, <1>4, <1>5, <1>6, <1>7, <1>8, <1>9, <1>10, <1>11, <1>12, <1>13, <1>14, <1>15, <1>16, <1>17, <1>18, <1>19, <1>20, <1>21, <1>22, <1>23, <1>24 DEF CandidateNext, Prepare, Build, Run

(* Only a build writes its directory, and none runs once there is a record. *)
LEMMA RecordStands ==
  ASSUME RecordInv, [CandidateNext]_candidateVars
  PROVE  /\ Readable => dir' = dir
         /\ UNCHANGED elsewhere \/ \E f \in {"manifest", "so"} : CopyFile(f)
         /\ UNCHANGED run \/ \E r \in Runners : Run(r)
<1> USE DEF prepVars, buildVars, runVars
<1>1. ASSUME NEW p \in Preparers, Prepare(p) PROVE UNCHANGED <<dir, elsewhere, run>>
  BY <1>1 DEF Prepare, PrepStart, PrepLook, PrepClone, PrepCheck, PrepRename, PrepKilled
<1>2. CASE Build
  <2>1. UNCHANGED <<elsewhere, run>>
    BY <1>2 DEF Build, BuildStart, BuildHashSource, BuildCopy, BuildManifest, BuildCompile, BuildDrift,
                BuildLink, BuildLinked, BuildRewrite, BuildEnd, BuildKilled
  <2>2. build.pc = "idle" => dir' = dir
    BY <1>2 DEF Build, BuildStart, BuildHashSource, BuildCopy, BuildManifest, BuildCompile, BuildDrift,
                BuildLink, BuildLinked, BuildRewrite, BuildEnd, BuildKilled
  <2>. QED BY <2>1, <2>2 DEF RecordInv
<1>3. ASSUME NEW s \in Sources, Edit(s) PROVE UNCHANGED <<dir, elsewhere, run>>
  BY <1>3 DEF Edit
<1>4. ASSUME NEW o \in Objects, FullBuild(o) PROVE UNCHANGED <<dir, elsewhere, run>>
  BY <1>4 DEF FullBuild
<1>5. ASSUME NEW f \in {"manifest", "so"}, CopyFile(f) PROVE UNCHANGED <<dir, run>>
  BY <1>5 DEF CopyFile
<1>6. ASSUME NEW r \in Runners, Run(r) PROVE UNCHANGED <<dir, elsewhere>>
  BY <1>6 DEF Run, RunRead, RunVerify, RunImport
<1>7. CASE UNCHANGED candidateVars
  BY <1>7 DEF candidateVars
<1>. QED BY <1>1, <1>2, <1>3, <1>4, <1>5, <1>6, <1>7 DEF CandidateNext

LEMMA CopyStep ==
  CandidateTypes /\ RecordInv /\ CopyInv /\ [CandidateNext]_candidateVars => CopyInv'
<1> SUFFICES ASSUME CandidateTypes, RecordInv, CopyInv, [CandidateNext]_candidateVars PROVE CopyInv'
  OBVIOUS
<1>1. CASE UNCHANGED elsewhere
  BY <1>1, RecordStands DEF CopyInv, Readable, Recorded
<1>2. ASSUME NEW f \in {"manifest", "so"}, CopyFile(f) PROVE CopyInv'
  <2>1. UNCHANGED dir /\ elsewhere'.manifest \in {elsewhere.manifest, dir.manifest, Partial}
    BY <1>2 DEF CopyFile, CandidateTypes, CopyRec, buildVars
  <2>. QED BY <2>1 DEF CopyInv, Readable, Recorded
<1>. QED BY <1>1, <1>2, RecordStands

(* A record a runner has read stands.                                       *)
LEMMA RunStep ==
  CandidateTypes /\ RecordInv /\ CopyInv /\ RunInv /\ [CandidateNext]_candidateVars => RunInv'
<1> SUFFICES ASSUME CandidateTypes, RecordInv, CopyInv, RunInv, [CandidateNext]_candidateVars
             PROVE  RunInv'
  OBVIOUS
<1>1. Readable => Readable' /\ dir' = dir
  BY RecordStands DEF Readable, Recorded
<1>2. CASE UNCHANGED run
  BY <1>1, <1>2 DEF RunInv
<1>3. ASSUME NEW r \in Runners, NEW tool \in {"run_backend", "serve"}, NEW at \in {"home", "elsewhere"},
             RunRead(r, tool, at)
      PROVE  RunInv'
  <2>1. Readable /\ Given(at).manifest = dir.manifest /\ (tool = "serve" => at = "home")
    BY <1>3 DEF RunRead, Given, Readable, CopyInv
  <2>2. run'[r] = [pc |-> "verify", tool |-> tool, at |-> at, expected |-> dir.manifest.so,
                   loaded |-> Absent]
    BY <1>3, <2>1 DEF RunRead, CandidateTypes
  <2>3. \A q \in Runners \ {r} : run'[q] = run[q]
    BY <1>3 DEF RunRead, CandidateTypes
  <2>. QED BY <1>1, <2>1, <2>2, <2>3 DEF RunInv
<1>4. ASSUME NEW r \in Runners, RunVerify(r) PROVE RunInv'
  <2>1. run[r].pc = "verify" /\ run'[r] \in {NoRun, [run[r] EXCEPT !.pc = "import"]}
    BY <1>4 DEF RunVerify, CandidateTypes
  <2>2. \/ run'[r] = NoRun
        \/ /\ run'[r].pc = "import"
           /\ run'[r].tool = run[r].tool /\ run'[r].at = run[r].at
           /\ run'[r].expected = run[r].expected
    BY <2>1 DEF CandidateTypes, RunRec
  <2>3. \A q \in Runners \ {r} : run'[q] = run[q]
    BY <1>4 DEF RunVerify, CandidateTypes
  <2>. QED BY <1>1, <2>1, <2>2, <2>3 DEF RunInv, NoRun
<1>5. ASSUME NEW r \in Runners, RunImport(r) PROVE RunInv'
  <2> DEFINE found == IF run[r].tool = "serve" THEN dir.so ELSE Given(run[r].at).so
  <2>1. /\ run[r].pc = "import"
        /\ run'[r] \in {NoRun, [run[r] EXCEPT !.pc = "running", !.loaded = found]}
    BY <1>5 DEF RunImport, CandidateTypes
  <2>2. run[r].at = "home" => found = dir.so
    BY DEF Given
  <2>3. Readable /\ run[r].expected = dir.so
    BY <2>1 DEF RunInv, RecordInv
  <2> HIDE DEF found
  <2>4. \/ run'[r] = NoRun
        \/ /\ run'[r].pc = "running" /\ run'[r].loaded = found
           /\ run'[r].tool = run[r].tool /\ run'[r].at = run[r].at
           /\ run'[r].expected = run[r].expected
    BY <2>1 DEF CandidateTypes, RunRec
  <2>5. \A q \in Runners \ {r} : run'[q] = run[q]
    BY <1>5 DEF RunImport, CandidateTypes
  <2>. QED BY <1>1, <2>1, <2>2, <2>3, <2>4, <2>5 DEF RunInv, NoRun
<1>. QED BY <1>2, <1>3, <1>4, <1>5, RecordStands DEF Run

(* The drift check catches what moved on.                                   *)
LEMMA InputStep ==
  CandidateTypes /\ StepInv /\ RecordInv /\ InputInv /\ [CandidateNext]_candidateVars => InputInv'
<1> SUFFICES ASSUME CandidateTypes, StepInv, RecordInv, InputInv, [CandidateNext]_candidateVars PROVE InputInv'
  OBVIOUS
<1> USE FilesAssumption, BuildAssumption DEF CandidateTypes, StepInv, RecordInv, InputInv, Readable, Recorded, BuildPcs, BuildRec, DirRec, prepVars, buildVars, runVars
<1>1. ASSUME NEW p \in Preparers, NEW profile \in Profiles, PrepStart(p, profile) PROVE InputInv'
  BY <1>1 DEF PrepStart, PrepStop, PrepIdle
<1>2. ASSUME NEW p \in Preparers, PrepLook(p) PROVE InputInv'
  BY <1>2 DEF PrepLook, PrepGoto, PrepStop, PrepIdle, Verifies
<1>3. ASSUME NEW p \in Preparers, PrepClone(p) PROVE InputInv'
  BY <1>3 DEF PrepClone, PrepGoto, PrepStop, PrepIdle
<1>4. ASSUME NEW p \in Preparers, PrepCheck(p) PROVE InputInv'
  BY <1>4 DEF PrepCheck, PrepGoto, PrepStop, PrepIdle
<1>5. ASSUME NEW p \in Preparers, PrepRename(p) PROVE InputInv'
  BY <1>5 DEF PrepRename, PrepGoto, PrepStop, PrepIdle
<1>6. ASSUME NEW p \in Preparers, PrepKilled(p) PROVE InputInv'
  BY <1>6 DEF PrepKilled, PrepGoto, PrepStop, PrepIdle
<1>7. CASE BuildStart
  BY <1>7 DEF BuildStart, Empty
<1>8. CASE BuildHashSource
  BY <1>8 DEF BuildHashSource
<1>9. CASE BuildCopy
  BY <1>9 DEF BuildCopy, BuildGoto
<1>10. CASE BuildManifest
  BY <1>10 DEF BuildManifest, BuildGoto, Manifest
<1>11. CASE BuildCompile
  <2>1. build.pc = "compile" /\ UNCHANGED <<source, objects, disturbed>> /\ ~Readable
    BY <1>11 DEF BuildCompile
  <2>2. ASSUME NEW h \in Headers, dir' = [dir EXCEPT !.obj = [source |-> source, headers |-> h]],
               BuildGoto("drift")
        PROVE  InputInv'
    <3>1. /\ dir'.obj.source = source /\ dir'.copy = dir.copy /\ dir'.manifest = dir.manifest
          /\ build'.pc = "drift" /\ build'.source = build.source
      BY <2>2 DEF BuildGoto
    <3>. QED BY <2>1, <3>1
  <2>3. CASE UNCHANGED dir /\ BuildGoto("failed")
    <3>1. build'.pc = "failed" /\ build'.source = build.source
      BY <2>3 DEF BuildGoto
    <3>. QED BY <2>1, <2>3, <3>1
  <2>. QED BY <1>11, <2>2, <2>3 DEF BuildCompile
<1>12. CASE BuildDrift
  BY <1>12 DEF BuildDrift, BuildGoto, Drifted
<1>13. CASE BuildLink
  BY <1>13 DEF BuildLink, BuildGoto
<1>14. CASE BuildLinked
  <2>1. build.pc = "linking" /\ UNCHANGED <<source, objects, disturbed>>
    BY <1>14 DEF BuildLinked
  <2>2. CASE dir' = [dir EXCEPT !.so = [obj |-> dir.obj, objects |-> objects]] /\ BuildGoto("built")
    <3>1. /\ build'.pc = "built" /\ build'.source = build.source /\ build'.objects = build.objects
          /\ dir'.copy = dir.copy /\ dir'.so.obj.source = dir.obj.source
          /\ dir'.so.objects = objects /\ dir'.manifest = dir.manifest
      BY <2>2 DEF BuildGoto
    <3>2. ~Readable
      BY <2>1
    <3>. QED BY <2>1, <3>1, <3>2
  <2>3. CASE UNCHANGED dir /\ BuildGoto("failed")
    <3>1. build'.pc = "failed" /\ build'.source = build.source /\ dir' = dir
      BY <2>3 DEF BuildGoto
    <3>. QED BY <2>1, <3>1
  <2>. QED BY <1>14, <2>2, <2>3 DEF BuildLinked
<1>15. CASE BuildRewrite
  BY <1>15 DEF BuildRewrite, BuildGoto
<1>16. CASE BuildEnd
  <2>1. CASE build.pc = "write built"
    <3>1. /\ dir' = [dir EXCEPT !.manifest = Manifest("built", build.source, build.objects, dir.so)]
          /\ build'.pc = "idle" /\ disturbed' = disturbed
      BY <1>16, <2>1 DEF BuildEnd, NoBuild
    <3>2. /\ dir'.so = dir.so /\ dir'.copy = dir.copy
          /\ dir'.manifest.source = build.source /\ dir'.manifest.objects = build.objects
      BY <3>1 DEF Manifest
    <3>. QED BY <2>1, <3>1, <3>2
  <2>2. CASE build.pc = "write failed"
    <3>1. /\ dir' = [dir EXCEPT !.manifest = Manifest("failed", build.source, build.objects, Absent)]
          /\ build'.pc = "idle"
      BY <1>16, <2>2 DEF BuildEnd, NoBuild
    <3>2. ~Readable'
      BY <3>1 DEF Manifest
    <3>. QED BY <3>1, <3>2
  <2>. QED BY <1>16, <2>1, <2>2 DEF BuildEnd
<1>17. CASE BuildKilled
  BY <1>17 DEF BuildKilled, NoBuild
<1>18. ASSUME NEW s \in Sources, Edit(s) PROVE InputInv'
  BY <1>18 DEF Edit
<1>19. ASSUME NEW o \in Objects, FullBuild(o) PROVE InputInv'
  BY <1>19 DEF FullBuild
<1>20. ASSUME NEW r \in Runners, NEW tool \in {"run_backend", "serve"}, NEW at \in {"home", "elsewhere"},
             RunRead(r, tool, at)
      PROVE  InputInv'
  BY <1>20 DEF RunRead
<1>21. ASSUME NEW r \in Runners, RunVerify(r) PROVE InputInv'
  BY <1>21 DEF RunVerify, NoRun
<1>22. ASSUME NEW r \in Runners, RunImport(r) PROVE InputInv'
  BY <1>22 DEF RunImport
<1>23. ASSUME NEW f \in {"manifest", "so"}, CopyFile(f) PROVE InputInv'
  BY <1>23 DEF CopyFile
<1>24. CASE UNCHANGED candidateVars
  BY <1>24 DEF candidateVars
<1> HIDE DEF CandidateTypes, StepInv, RecordInv, InputInv, BuildPcs, BuildRec, DirRec
<1>. QED
  BY <1>1, <1>2, <1>3, <1>4, <1>5, <1>6, <1>7, <1>8, <1>9, <1>10, <1>11, <1>12, <1>13, <1>14, <1>15, <1>16, <1>17, <1>18, <1>19, <1>20, <1>21, <1>22, <1>23, <1>24 DEF CandidateNext, Prepare, Build, Run

LEMMA CandidateInitInv == CandidateInit => CandidateInv
<1> SUFFICES ASSUME CandidateInit PROVE CandidateInv
  OBVIOUS
<1>1. PristineSource \in Sources
  BY FilesAssumption, BuildAssumption DEF PristineSource
<1>2. /\ prep \in [Preparers -> PrepRec] /\ dir \in DirRec /\ elsewhere \in CopyRec
      /\ build \in BuildRec /\ run \in [Runners -> RunRec]
  BY DEF CandidateInit, PrepIdle, PrepRec, PrepPcs, Empty, DirRec, CopyRec, NoBuild, BuildRec, BuildPcs, NoRun, RunRec
<1>3. CandidateTypes
  BY <1>1, <1>2 DEF CandidateInit, CandidateTypes
<1>4. PreparedStands /\ StepInv
  BY DEF CandidateInit, PreparedStands, PrepIdle, StepInv, NoBuild
<1>5. RecordInv /\ CopyInv /\ RunInv /\ InputInv
  BY DEF CandidateInit, RecordInv, CopyInv, RunInv, InputInv, Readable, Recorded, Empty, NoBuild, NoRun
<1>. QED BY <1>3, <1>4, <1>5 DEF CandidateInv

THEOREM CandidateInvariance == CandidateSpec => []CandidateInv
<1>1. CandidateInv /\ [CandidateNext]_candidateVars => CandidateInv'
  BY CandidateTypeStep, PreparedStep, StepStep, RecordStep, CopyStep, RunStep, InputStep DEF CandidateInv
<1>. QED BY CandidateInitInv, <1>1, PTL DEF CandidateSpec

(* The checkout stands at the profile of every preparer that succeeded.     *)
THEOREM PreparedForGood == CandidateSpec => []PreparedStands
<1>1. CandidateInv => PreparedStands
  BY DEF CandidateInv
<1>. QED BY CandidateInvariance, <1>1, PTL

(* A manifest that says "built" stands beside the binary it describes,      *)
(* linked from the source and the objects it records, unless an edit was    *)
(* reverted before the drift check or the objects changed after it.         *)
THEOREM RecordedInputs == CandidateSpec => []BuiltIsRecorded
<1>1. CandidateInv => BuiltIsRecorded
  BY DEF CandidateInv, RecordInv, InputInv, Readable, Recorded, BuiltIsRecorded
<1>. QED BY CandidateInvariance, <1>1, PTL

(* What a runner has verified is the finished binary of its manifest, and   *)
(* that is what it has loaded, unless run_backend was given a copy of the   *)
(* candidate directory.                                                     *)
THEOREM RunsTheRecord == CandidateSpec => []RunsRecorded
<1>1. CandidateInv => RunsRecorded
  BY FilesAssumption, BuildAssumption DEF CandidateInv, RecordInv, RunInv, Binary, Obj, RunsRecorded
<1>. QED BY CandidateInvariance, <1>1, PTL
=============================================================================
