------------------------------- MODULE LogFile -------------------------------
(***************************************************************************)
(* The log of a build, a file of JSON lines: OpenBuildLogs of              *)
(* internal/store/fs_store.go and GetLogs of internal/store/logs.go.  The  *)
(* file is appended to and never cut.  While a line is being written a     *)
(* reader may see a part of it.                                            *)
(***************************************************************************)
EXTENDS Naturals, Sequences

VARIABLES
    file,       \* the lines written, each a <<stream, position>>
    partial     \* the line written in part, or NoLine

logFileVars == <<file, partial>>

NoLine == <<>>

LogFileInit == file = <<>> /\ partial = NoLine

BeginLine(line) ==
    /\ partial = NoLine
    /\ partial' = line
    /\ UNCHANGED file

EndLine ==
    /\ partial # NoLine
    /\ file' = Append(file, partial)
    /\ partial' = NoLine

(***************************************************************************)
(* The write fails or its process ends: what got written of the line stays.*)
(***************************************************************************)
CutLine ==
    /\ partial' \in {partial, NoLine}
    /\ UNCHANGED file

(***************************************************************************)
(* GetLogs decodes the file up to its end and returns what follows the     *)
(* first fromLine lines; a line in part is an unexpected end, an error.    *)
(***************************************************************************)
Decodes == partial = NoLine

GetLogs(fromLine) == SubSeq(file, fromLine + 1, Len(file))
=============================================================================
