-------------------------------- MODULE Files -------------------------------
(***************************************************************************)
(* What a file may hold other than its content, in the modules of the       *)
(* tools that publish artifacts.                                            *)
(***************************************************************************)
CONSTANTS
  Absent,  \* no file, no value
  Partial  \* a file partly written

ASSUME FilesAssumption == Absent # Partial
=============================================================================
