------------------------------ MODULE FSStore ------------------------------
(***************************************************************************)
(* The data directory of internal/store/fs_store.go: which build dirs      *)
(* exist and what each exit code file holds.  The builders create dirs and *)
(* write exit codes, the server reads and deletes them; nothing but the    *)
(* file system stands between them.                                        *)
(***************************************************************************)
EXTENDS Environment

VARIABLES buildDirs, exitCodes

fsVars == <<buildDirs, exitCodes>>

(***************************************************************************)
(* What ParseUint makes of an exit code file.  The -1 that Go reports for a*)
(* command killed by a signal is written as "-1" and is unparsable, as is  *)
(* the empty file of a write that was cut off.                             *)
(***************************************************************************)
FileContents == {"absent", "zero", "nonzero", "unparsable"}

FSTypeOK ==
    /\ buildDirs \subseteq Ids
    /\ exitCodes \in [Ids -> FileContents]

FSInit ==
    /\ buildDirs = {}
    /\ exitCodes = [b \in Ids |-> "absent"]

FormatExitCode(code) == IF code = "signalled" THEN "unparsable" ELSE code

WriteExitCode(b, code) ==
    exitCodes' = [exitCodes EXCEPT ![b] = FormatExitCode(code)]

TearExitCode(b) == exitCodes' = [exitCodes EXCEPT ![b] = "unparsable"]

Readable(b) == exitCodes[b] \in {"zero", "nonzero"}

(***************************************************************************)
(* ReadAndCleanExitCode deletes the file only once its contents parsed.    *)
(***************************************************************************)
CleanExitCode(b) ==
    exitCodes' = IF Readable(b) THEN [exitCodes EXCEPT ![b] = "absent"]
                                ELSE exitCodes

CreateDir(b) == buildDirs' = buildDirs \cup {b}

(***************************************************************************)
(* A mutant: the first RemoveAll fails on read-only files and that is it.  *)
(***************************************************************************)
RemoveDirReadOnly(b) == UNCHANGED buildDirs

(***************************************************************************)
(* The first RemoveAll, chmod of what it left, and the second RemoveAll are*)
(* one step: a dir that is removed in part is still there, and nothing but *)
(* another RetainBuildDirs looks at one that is not in use.                *)
(***************************************************************************)
RemoveDir(b) == buildDirs' = buildDirs \ {b}
=============================================================================
