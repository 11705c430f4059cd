---------------------------- MODULE BuildDetails ----------------------------
(***************************************************************************)
(* The page of a build, internal/web/ui/build_details.go and its template, *)
(* beside the builder that runs and logs its command.  The page asks for   *)
(* the lines it does not have every second until it is told that the build *)
(* ended; the server answers from two sources, the row of the build and    *)
(* then the log file.  The build loop records the start of the builder     *)
(* after starting it and the result once its process is gone.              *)
(*                                                                         *)
(* One builder writes the log.  That is so but for a restart between the   *)
(* start of a builder and its record (LiveBuilderDirsKept of CIServer):    *)
(* two builders of one build then share a log file, which is not modelled. *)
(***************************************************************************)
EXTENDS RunAndLog, SequencesExt

VARIABLES
    row,    \* whether started and result are set in the row of the build
    page,   \* what the browser has: "none", a page that polls, or one that
            \* stopped; the fromLine of its next request; the lines it shows
    answer  \* the status of the build the handler read, or NoAnswer

pageVars == <<row, page, answer>>

vars == <<runVars, pageVars>>

NoAnswer == "none"

Statuses == {"pending", "running", "result"}

PageTypeOK ==
    /\ TypeOK
    /\ row \in [started : BOOLEAN, result : BOOLEAN]
    /\ page \in [at : {"none", "polls", "stopped"}, fromLine : Nat,
                 shown : Seq(Streams \X Nat)]
    /\ answer \in Statuses \cup {NoAnswer}

Init ==
    /\ RunInit
    /\ row = [started |-> FALSE, result |-> FALSE]
    /\ page = [at |-> "none", fromLine |-> 0, shown |-> <<>>]
    /\ answer = NoAnswer

-----------------------------------------------------------------------------
(***************************************************************************)
(* The build loop: StartBuild, and FinishBuild after IsRunning said no.    *)
(***************************************************************************)
RecordStart ==
    /\ ~row.started
    /\ row' = [row EXCEPT !.started = TRUE]
    /\ UNCHANGED <<runVars, page, answer>>

RecordResult ==
    /\ row.started /\ ~row.result
    /\ main \in Ended
    /\ row' = [row EXCEPT !.result = TRUE]
    /\ UNCHANGED <<runVars, page, answer>>

-----------------------------------------------------------------------------
(***************************************************************************)
(* getBuildDetailsParams, with GetBuild and GetLogs as separate steps: the *)
(* builder and the build loop go on in between.                            *)
(***************************************************************************)
buildStatus ==
    IF row.result THEN "result" ELSE IF row.started THEN "running" ELSE "pending"

GetBuild ==
    /\ page.at # "stopped" /\ answer = NoAnswer
    /\ answer' = buildStatus
    /\ UNCHANGED <<runVars, row, page>>

(***************************************************************************)
(* A mutant: the log is read before the row of the build.                  *)
(***************************************************************************)
PollsNow(status) == buildStatus \in {"pending", "running"}

(***************************************************************************)
(* The template repeats the poller while "there are still changes expected"*)
(***************************************************************************)
Polls(status) == status \in {"pending", "running"}

(***************************************************************************)
(* Mutants: the next request starts after the lines of this answer, or with*)
(* the last of them.                                                       *)
(***************************************************************************)
LastLogLineNrOfAnswer(lines) == Len(lines)

LastLogLineIndex(lines) == page.fromLine + Len(lines) - 1

LastLogLineNr(lines) == page.fromLine + Len(lines)

Show(lines) ==
    /\ page' = [at |-> IF Polls(answer) THEN "polls" ELSE "stopped",
                fromLine |-> LastLogLineNr(lines),
                shown |-> page.shown \o lines]
    /\ answer' = NoAnswer
    /\ UNCHANGED <<runVars, row>>

AnswerWithoutLogs == answer = "pending" /\ Show(<<>>)

AnswerWithLogs ==
    /\ answer \in {"running", "result"}
    /\ Decodes
    /\ Show(GetLogs(page.fromLine))

Answers == AnswerWithoutLogs \/ AnswerWithLogs

(***************************************************************************)
(* A query fails, the log does not decode (~Decodes leaves nothing else),  *)
(* or the answer is lost: a browser without a page shows an error, one with*)
(* a page leaves it as it is and asks again.                               *)
(***************************************************************************)
AnswerFails ==
    /\ answer # NoAnswer
    /\ answer' = NoAnswer
    /\ UNCHANGED <<runVars, row, page>>

LoopStep == RecordStart \/ RecordResult

Next ==
    \/ RunNext /\ UNCHANGED pageVars
    \/ LoopStep
    \/ GetBuild
    \/ Answers
    \/ AnswerFails

Spec == Init /\ [][Next]_vars

(***************************************************************************)
(* The build loop goes on, the page is looked at, and not every answer that*)
(* could be given fails.                                                   *)
(***************************************************************************)
Fairness ==
    /\ RunFairness
    /\ WF_vars(LoopStep)
    /\ WF_vars(GetBuild)
    /\ SF_vars(Answers)

FairSpec == Spec /\ Fairness

-----------------------------------------------------------------------------
(***************************************************************************)
(* A page shows the log from its first line, every line once and in order, *)
(* whatever answers are lost and however much is written between two polls.*)
(***************************************************************************)
ShowsLogInOrder == IsPrefix(page.shown, file)

(***************************************************************************)
(* A page that stopped polling shows the whole log: the status was read    *)
(* before the log, so the answer that ends the polling has the last line.  *)
(***************************************************************************)
StopsComplete == page.at = "stopped" => page.shown = file

(***************************************************************************)
(* A page comes to show the end of its build: runAndLog returns, however a *)
(* reader fails, and the answers get that far.  Unless the log writer fails*)
(* (then the build may hang) or the log ends in part of a line (then every *)
(* answer is an error).                                                    *)
(***************************************************************************)
PageStops ==
    <>(page.at = "stopped" \/ WriterFailed \/ (main \in Ended /\ ~Decodes))
=============================================================================
