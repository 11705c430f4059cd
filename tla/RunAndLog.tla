----------------------------- MODULE RunAndLog -----------------------------
(***************************************************************************)
(* runAndLog of internal/build/runner.go: how a builder runs a command and *)
(* logs what it prints.  Each of stdout and stderr has a pipe, a goroutine *)
(* of os/exec that copies it into an io.Pipe, and a goroutine of runAndLog *)
(* that scans that for lines and sends them to logChan.  One goroutine more*)
(* writes the lines to the log file; the main one waits for all of them.   *)
(*                                                                         *)
(* A line is its stream and its position there.  The log file may fail to  *)
(* take a line, a line may be too long for bufio.Scanner, and the builder  *)
(* may be killed.                                                          *)
(***************************************************************************)
EXTENDS LogFile, FiniteSets

CONSTANTS
    Streams,    \* stdout and stderr
    Lines,      \* how many lines the command prints on each
    TooLong,    \* <<stream, position>> of the lines that may be too long
    LogCap,     \* the capacity of logChan, 100 in the code
    ErrCap,     \* the capacity of errChan, 3 in the code
    PipeCap     \* how many lines a pipe of the operating system holds

ASSUME RunAssumption ==
    /\ IsFiniteSet(Streams)
    /\ Lines \in [Streams -> Nat]
    /\ TooLong \subseteq Streams \X Nat
    /\ {LogCap, ErrCap, PipeCap} \subseteq Nat \ {0}

VARIABLES
    command,    \* the process: "none", "running", or how it ended
    stream,     \* of each stream: the lines printed, the lines the copier took
                \* of them, and where its copier and its reader are
    logChan,    \* the lines sent and not received
    errChan,    \* how many errors were sent
    writer,     \* the goroutine at the file
    main        \* the main goroutine

runVars == <<command, stream, logChan, errChan, writer, main, logFileVars>>

Endings == {"zero", "nonzero", "signalled"}

(***************************************************************************)
(* The main goroutine is at cmd.Start ("start"), in cmd.Wait ("wait"), at  *)
(* the WaitGroup ("readers") or receives from logDoneChan ("writer"), or it*)
(* has ended.                                                              *)
(***************************************************************************)
Ended == {"notStarted", "panicked", "killed", "returned"}

StreamState ==
    [printed : Nat, taken : Nat,
     copier : {"read", "write", "done", "failed"},
     reader : {"scan", "send", "error", "done"}]

TypeOK ==
    /\ command \in Endings \cup {"none", "running"}
    /\ stream \in [Streams -> StreamState]
    /\ logChan \in Seq(Streams \X Nat) /\ Len(logChan) <= LogCap
    /\ errChan \in 0..ErrCap
    /\ writer \in {"write", "error", "signal", "done"}
    /\ main \in {"start", "wait", "readers", "writer"} \cup Ended
    /\ file \in Seq(Streams \X Nat)
    /\ partial \in (Streams \X Nat) \cup {NoLine}

RunInit ==
    /\ command = "none" /\ main = "start" /\ writer = "write"
    /\ stream = [s \in Streams |-> [printed |-> 0, taken |-> 0,
                                    copier |-> "read", reader |-> "scan"]]
    /\ logChan = <<>> /\ errChan = 0
    /\ LogFileInit

OnlyStreams == UNCHANGED <<command, logChan, errChan, writer, main, logFileVars>>
OnlyMain == UNCHANGED <<command, stream, logChan, errChan, writer, logFileVars>>

-----------------------------------------------------------------------------
(***************************************************************************)
(* The command.  It blocks on a full pipe; on one whose reading end was    *)
(* closed it gets SIGPIPE, which ends it or whatever part of it printed.   *)
(***************************************************************************)
MorePrinted(s) == command = "running" /\ stream[s].printed < Lines[s]

PrintLine(s) ==
    /\ MorePrinted(s)
    /\ stream[s].copier # "failed"
    /\ stream[s].printed - stream[s].taken < PipeCap
    /\ stream' = [stream EXCEPT ![s].printed = @ + 1]
    /\ OnlyStreams

CommandEnds(endings) ==
    /\ command' \in endings
    /\ UNCHANGED <<stream, logChan, errChan, writer, main, logFileVars>>

PrintBreaks(s) ==
    /\ MorePrinted(s)
    /\ stream[s].copier = "failed"
    /\ CommandEnds(Endings)

CommandExits ==
    /\ command = "running"
    /\ \A s \in Streams : stream[s].printed = Lines[s]
    /\ CommandEnds({"zero", "nonzero"})

-----------------------------------------------------------------------------
(***************************************************************************)
(* The goroutine of os/exec for a stream.  It fails when the other end of  *)
(* the io.Pipe is closed.                                                  *)
(***************************************************************************)
CopierTakes(s) ==
    /\ stream[s].copier = "read"
    /\ stream[s].taken < stream[s].printed
    /\ stream' = [stream EXCEPT ![s].taken = @ + 1, ![s].copier = "write"]
    /\ OnlyStreams

CopierEnds(s) ==
    /\ stream[s].copier = "read"
    /\ stream[s].taken = stream[s].printed
    /\ command \in Endings
    /\ stream' = [stream EXCEPT ![s].copier = "done"]
    /\ OnlyStreams

CopierFails(s) ==
    /\ stream[s].copier = "write"
    /\ stream[s].reader = "done"
    /\ stream' = [stream EXCEPT ![s].copier = "failed"]
    /\ OnlyStreams

-----------------------------------------------------------------------------
(***************************************************************************)
(* readLogStream.  An io.Pipe has no buffer: a line goes straight from the *)
(* copier to the scanner.                                                  *)
(***************************************************************************)
Offered(s) == stream[s].copier = "write" /\ stream[s].reader = "scan"

ScanLine(s) ==
    /\ Offered(s)
    /\ stream' = [stream EXCEPT ![s].copier = "read", ![s].reader = "send"]
    /\ OnlyStreams

(***************************************************************************)
(* The scanner gives up with the rest of the line, if there is one, still  *)
(* in the hands of the copier.                                             *)
(***************************************************************************)
ScanFails(s) ==
    /\ Offered(s)
    /\ <<s, stream[s].taken>> \in TooLong
    /\ \E rest \in {"read", "write"} :
          stream' = [stream EXCEPT ![s].copier = rest, ![s].reader = "error"]
    /\ OnlyStreams

ScanEnds(s) ==
    /\ stream[s].reader = "scan" /\ main = "readers"
    /\ stream' = [stream EXCEPT ![s].reader = "done"]
    /\ OnlyStreams

Send(s, line) ==
    /\ stream[s].reader = "send"
    /\ Len(logChan) < LogCap
    /\ logChan' = Append(logChan, line)
    /\ stream' = [stream EXCEPT ![s].reader = "scan"]
    /\ UNCHANGED <<command, errChan, writer, main, logFileVars>>

(***************************************************************************)
(* A mutant: the scanner's buffer is sent, not a copy of the line.         *)
(***************************************************************************)
SendBuffer(s) == Send(s, <<s, stream[s].taken>>)

(***************************************************************************)
(* The line in hand is the last the copier handed over.                    *)
(***************************************************************************)
SendLine(s) ==
    LET held == IF stream[s].copier = "write" THEN 1 ELSE 0
    IN Send(s, <<s, stream[s].taken - held>>)

SendErrors(s, count) ==
    /\ stream[s].reader = "error"
    /\ errChan + count <= ErrCap
    /\ errChan' = errChan + count
    /\ stream' = [stream EXCEPT ![s].reader = "done"]
    /\ UNCHANGED <<command, logChan, writer, main, logFileVars>>

(***************************************************************************)
(* A mutant: the error is sent from two places; errChan has no room for it.*)
(***************************************************************************)
SendReadErrorTwice(s) == SendErrors(s, 2)

SendReadError(s) == SendErrors(s, 1)

-----------------------------------------------------------------------------
(***************************************************************************)
(* The goroutine that writes to the log file.  After an error it returns   *)
(* and nothing receives from logChan any more.                             *)
(***************************************************************************)
ReceiveLine ==
    /\ writer = "write" /\ logChan # <<>>
    /\ BeginLine(Head(logChan))
    /\ logChan' = Tail(logChan)
    /\ UNCHANGED <<command, stream, errChan, writer, main>>

LogLine ==
    /\ writer = "write"
    /\ EndLine
    /\ UNCHANGED <<command, stream, logChan, errChan, writer, main>>

LogLineFails ==
    /\ writer = "write" /\ partial # NoLine
    /\ CutLine
    /\ writer' = "error"
    /\ UNCHANGED <<command, stream, logChan, errChan, main>>

SendWriteError ==
    /\ writer = "error" /\ errChan < ErrCap
    /\ errChan' = errChan + 1
    /\ writer' = "signal"
    /\ UNCHANGED <<command, stream, logChan, main, logFileVars>>

WriterEnds ==
    /\ writer = "write" /\ partial = NoLine
    /\ logChan = <<>> /\ main = "writer"    \* logChan is closed
    /\ writer' = "signal"
    /\ UNCHANGED <<command, stream, logChan, errChan, main, logFileVars>>

-----------------------------------------------------------------------------
(***************************************************************************)
(* The main goroutine                                                      *)
(***************************************************************************)
StartCommand ==
    /\ main = "start"
    /\ command' = "running"
    /\ main' = "wait"
    /\ UNCHANGED <<stream, logChan, errChan, writer, logFileVars>>

StartFails == main = "start" /\ main' = "notStarted" /\ OnlyMain

WaitDone ==
    /\ main = "wait" /\ command \in Endings
    /\ \A s \in Streams : stream[s].copier \in {"done", "failed"}

CopyFailed == \E s \in Streams : stream[s].copier = "failed"

WaitReturns ==
    /\ WaitDone
    /\ command # "zero" \/ ~CopyFailed
    /\ main' = "readers"
    /\ OnlyMain

(***************************************************************************)
(* Wait returns the failure of a copier only if the command succeeded; the *)
(* type assertion on that error panics, and the process ends.              *)
(***************************************************************************)
WaitPanics ==
    /\ WaitDone
    /\ command = "zero" /\ CopyFailed
    /\ main' = "panicked"
    /\ CutLine
    /\ UNCHANGED <<command, stream, logChan, errChan, writer>>

AllReadersDone == \A s \in Streams : stream[s].reader = "done"

(***************************************************************************)
(* Mutants: the WaitGroup counts one reader only; the log writer is not    *)
(* waited for.                                                             *)
(***************************************************************************)
OneReaderDone ==
    /\ main = "readers" /\ \E s \in Streams : stream[s].reader = "done"
    /\ main' = "writer"
    /\ OnlyMain

ReadersDoneReturn ==
    main = "readers" /\ AllReadersDone /\ main' = "returned" /\ OnlyMain

ReadersDone ==
    main = "readers" /\ AllReadersDone /\ main' = "writer" /\ OnlyMain

WriterDone ==
    /\ main = "writer" /\ writer = "signal"
    /\ writer' = "done" /\ main' = "returned"
    /\ UNCHANGED <<command, stream, logChan, errChan, logFileVars>>

BuilderKilled ==
    /\ main \notin Ended
    /\ main' = "killed"
    /\ CutLine
    /\ UNCHANGED <<command, stream, logChan, errChan, writer>>

(***************************************************************************)
(* Once the main goroutine is done the process exits, and with it all.     *)
(***************************************************************************)
Alive == main \notin Ended

CommandStep ==
    Alive /\ (CommandExits \/ \E s \in Streams : PrintLine(s) \/ PrintBreaks(s))

CopierStep(s) == Alive /\ (CopierTakes(s) \/ CopierEnds(s) \/ CopierFails(s))

ReaderStep(s) ==
    /\ Alive
    /\ \/ ScanLine(s)
       \/ ScanFails(s)
       \/ ScanEnds(s)
       \/ SendLine(s)
       \/ SendReadError(s)

WriterStep ==
    /\ Alive
    /\ \/ ReceiveLine
       \/ LogLine
       \/ LogLineFails
       \/ SendWriteError
       \/ WriterEnds

MainStep ==
    \/ StartCommand
    \/ StartFails
    \/ WaitReturns
    \/ WaitPanics
    \/ ReadersDone
    \/ WriterDone

RunNext ==
    \/ CommandStep
    \/ \E s \in Streams : CopierStep(s) \/ ReaderStep(s)
    \/ WriterStep
    \/ MainStep
    \/ BuilderKilled

(***************************************************************************)
(* Goroutines are scheduled, and the command goes on as long as it can.    *)
(***************************************************************************)
RunFairness ==
    /\ WF_runVars(CommandStep)
    /\ \A s \in Streams : WF_runVars(CopierStep(s)) /\ WF_runVars(ReaderStep(s))
    /\ WF_runVars(WriterStep)
    /\ WF_runVars(MainStep)

-----------------------------------------------------------------------------
(***************************************************************************)
(* The lines of a stream come in the order of their positions, and before a*)
(* line come all those printed before it.                                  *)
(***************************************************************************)
InOrder(lines) ==
    \A i \in DOMAIN lines :
        /\ \A j \in 1..i - 1 : lines[j][1] = lines[i][1] => lines[j][2] < lines[i][2]
        /\ \A n \in 1..lines[i][2] - 1 : \E j \in 1..i - 1 : lines[j] = <<lines[i][1], n>>

(***************************************************************************)
(* The lines of a stream are logged in the order they were printed, none   *)
(* left out and none twice, though two readers share the channel.          *)
(***************************************************************************)
LoggedInOrder ==
    /\ InOrder(file)
    /\ \A i \in DOMAIN file : file[i][2] \in 1..stream[file[i][1]].printed

(***************************************************************************)
(* When runAndLog returns no error, every line printed is in the log: no   *)
(* goroutine is left behind with one in its hands.                         *)
(***************************************************************************)
LogComplete ==
    main = "returned" /\ errChan = 0 =>
        \A s \in Streams : \A n \in 1..stream[s].printed :
            \E i \in DOMAIN file : file[i] = <<s, n>>

(***************************************************************************)
(* logChan is closed only when no reader can send to it again: to send on a*)
(* closed channel panics.                                                  *)
(***************************************************************************)
NoSendOnClosed == main \in {"writer", "returned"} => AllReadersDone

(***************************************************************************)
(* Whoever has an error for errChan finds room at once: the channel is read*)
(* only after everybody was waited for, who could wait for the channel.    *)
(***************************************************************************)
ErrorsHaveRoom ==
    writer = "error" \/ (\E s \in Streams : stream[s].reader = "error") => errChan < ErrCap

(***************************************************************************)
(* runAndLog returns: the builder comes to an end with its command.        *)
(***************************************************************************)
Returns == <>(main \in Ended)

WriterFailed == writer = "error" \/ (writer \in {"signal", "done"} /\ errChan > 0)
=============================================================================
