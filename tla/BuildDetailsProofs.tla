------------------------- MODULE BuildDetailsProofs -------------------------
(***************************************************************************)
(* Theorems about the log of a build and the page that shows it, for any   *)
(* number of streams and lines and every capacity of channels and pipes.   *)
(***************************************************************************)
EXTENDS BuildDetails, RunAndLogProofs

-----------------------------------------------------------------------------
(***************************************************************************)
(* The page is as long as the next line it asks for, and shows what was in *)
(* the log file.  The row has a result, an answer says so and a page stops *)
(* only when runAndLog has ended, and the file does not grow any more.     *)
(***************************************************************************)
PageInv ==
    /\ PageTypeOK
    /\ page.fromLine = Len(page.shown)
    /\ IsPrefix(page.shown, file)
    /\ row.result \/ answer = "result" => main \in Ended
    /\ page.at = "stopped" => main \in Ended /\ answer = NoAnswer /\ page.shown = file

DetailsInv == RunInv /\ PageInv

(***************************************************************************)
(* A prefix, line by line.                                                 *)
(***************************************************************************)
LEMMA PrefixByLine ==
    ASSUME NEW shown \in Seq(Line), NEW lines \in Seq(Line)
    PROVE  IsPrefix(shown, lines) <=>
             Len(shown) <= Len(lines) /\ \A i \in 1..Len(shown) : shown[i] = lines[i]
<1>1. Len(shown) \in Nat /\ Len(lines) \in Nat
  BY LenProperties
<1>2. SubSeq(shown, 1, Len(shown)) = shown
  BY SubSeqFull
<1>3. ASSUME Len(shown) <= Len(lines)
      PROVE  /\ SubSeq(lines, 1, Len(shown)) \in Seq(Line)
             /\ Len(SubSeq(lines, 1, Len(shown))) = Len(shown)
             /\ \A i \in 1..Len(shown) : SubSeq(lines, 1, Len(shown))[i] = lines[i]
  <2>1. \A i \in 1..Len(shown) : lines[i] \in Line
    BY <1>1, <1>3, LenProperties
  <2> QED
    BY <1>1, <2>1, SubSeqProperties
<1>4. ASSUME Len(shown) <= Len(lines), \A i \in 1..Len(shown) : shown[i] = lines[i]
      PROVE  SubSeq(lines, 1, Len(shown)) = shown
  BY <1>3, <1>4, SeqEqual
<1> QED
  BY <1>2, <1>3, <1>4 DEF IsPrefix

(***************************************************************************)
(* What GetLogs returns: the lines after those the page shows.             *)
(***************************************************************************)
LEMMA RestOfLog ==
    ASSUME NEW shown \in Seq(Line), NEW lines \in Seq(Line), Len(shown) <= Len(lines)
    PROVE  LET rest == SubSeq(lines, Len(shown) + 1, Len(lines)) IN
           /\ rest \in Seq(Line)
           /\ Len(rest) = Len(lines) - Len(shown)
           /\ \A i \in 1..Len(lines) - Len(shown) : rest[i] = lines[Len(shown) + i]
<1>1. PICK first \in Nat, last \in Nat : first = Len(shown) /\ last = Len(lines)
  BY LenProperties
<1>2. first <= last /\ \A i \in first + 1..last : lines[i] \in Line
  BY <1>1, LenProperties
<1> DEFINE rest == SubSeq(lines, first + 1, last)
<1>3. /\ rest \in Seq(Line)
      /\ Len(rest) = IF first + 1 <= last THEN last - (first + 1) + 1 ELSE 0
      /\ \A i \in 1..last - (first + 1) + 1 : rest[i] = lines[(first + 1) + i - 1]
  BY <1>1, <1>2, SubSeqProperties
<1> HIDE DEF rest
<1>4. Len(rest) = last - first
  BY <1>1, <1>2, <1>3
<1>5. ASSUME NEW i \in 1..last - first PROVE rest[i] = lines[first + i]
  <2>1. i \in 1..last - (first + 1) + 1 /\ (first + 1) + i - 1 = first + i
    BY <1>1
  <2> QED
    BY <1>3, <2>1
<1>6. rest = SubSeq(lines, Len(shown) + 1, Len(lines))
  BY <1>1 DEF rest
<1> QED
  BY <1>1, <1>3, <1>4, <1>5, <1>6

(***************************************************************************)
(* A page with the first lines has the whole log after the answer of       *)
(* GetLogs to its request.                                                 *)
(***************************************************************************)
LEMMA AnswerCompletes ==
    ASSUME NEW shown \in Seq(Line), NEW lines \in Seq(Line), IsPrefix(shown, lines)
    PROVE  shown \o SubSeq(lines, Len(shown) + 1, Len(lines)) = lines
<1>1. Len(shown) \in Nat /\ Len(lines) \in Nat /\ Len(shown) <= Len(lines)
  BY LenProperties, PrefixByLine
<1>2. \A i \in 1..Len(shown) : shown[i] = lines[i]
  BY PrefixByLine
<1> DEFINE rest == SubSeq(lines, Len(shown) + 1, Len(lines))
<1>3. /\ rest \in Seq(Line)
      /\ Len(rest) = Len(lines) - Len(shown)
      /\ \A i \in 1..Len(lines) - Len(shown) : rest[i] = lines[Len(shown) + i]
  BY <1>1, RestOfLog
<1> HIDE DEF rest
<1>4. /\ shown \o rest \in Seq(Line) /\ Len(shown \o rest) = Len(lines)
      /\ \A i \in 1..Len(lines) :
            (shown \o rest)[i] = IF i <= Len(shown) THEN shown[i] ELSE rest[i - Len(shown)]
  BY <1>1, <1>3, ConcatProperties
<1>5. ASSUME NEW i \in 1..Len(lines) PROVE (shown \o rest)[i] = lines[i]
  <2>1. CASE i <= Len(shown)
    BY <1>1, <1>2, <1>4, <2>1
  <2>2. CASE i > Len(shown)
    <3>1. i - Len(shown) \in 1..Len(lines) - Len(shown) /\ Len(shown) + (i - Len(shown)) = i
      BY <1>1, <2>2
    <3> QED
      BY <1>1, <1>3, <1>4, <2>2, <3>1
  <2>3. i <= Len(shown) \/ i > Len(shown)
    BY <1>1
  <2> QED
    BY <2>1, <2>2, <2>3
<1>6. shown \o rest = lines
  BY <1>4, <1>5, SeqEqual
<1> QED
  BY <1>6 DEF rest

(***************************************************************************)
(* A log that grows keeps what a page shows of it its beginning.           *)
(***************************************************************************)
LEMMA GrowsBehind ==
    ASSUME NEW shown \in Seq(Line), NEW lines \in Seq(Line), NEW line \in Line,
           IsPrefix(shown, lines)
    PROVE  IsPrefix(shown, Append(lines, line))
<1>1. /\ Append(lines, line) \in Seq(Line) /\ Len(Append(lines, line)) = Len(lines) + 1
      /\ \A i \in 1..Len(lines) : Append(lines, line)[i] = lines[i]
  BY AppendProperties
<1>2. Len(shown) \in Nat /\ Len(lines) \in Nat
  BY LenProperties
<1>3. Len(shown) <= Len(lines) /\ \A i \in 1..Len(shown) : shown[i] = lines[i]
  BY PrefixByLine
<1>4. Len(shown) <= Len(lines) + 1 /\ \A i \in 1..Len(shown) : Append(lines, line)[i] = shown[i]
  BY <1>1, <1>2, <1>3
<1> QED
  BY <1>1, <1>4, PrefixByLine

-----------------------------------------------------------------------------
(***************************************************************************)
(* What a step of runAndLog means for the page: the file grows by a line   *)
(* or not at all, not at all after the end, and the end is the end.        *)
(***************************************************************************)
LEMMA RunStep ==
    ASSUME RunInv, RunNext
    PROVE  /\ main \in Ended => UNCHANGED <<main, file>>
           /\ file' = file \/ \E line \in Line : file' = Append(file, line)
<1>1. TypeOK
  BY DEF RunInv
<1> USE DEF Alive, Ended
<1>2. CASE CommandStep
  BY <1>2 DEF CommandStep, CommandExits, CommandEnds, PrintLine, PrintBreaks, OnlyStreams,
              logFileVars
<1>3. CASE \E s \in Streams : CopierStep(s)
  BY <1>3 DEF CopierStep, CopierTakes, CopierEnds, CopierFails, OnlyStreams, logFileVars
<1>4. CASE \E s \in Streams : ReaderStep(s)
  BY <1>4 DEF ReaderStep, ScanLine, ScanFails, ScanEnds, SendLine, Send, SendReadError,
              SendErrors, OnlyStreams, logFileVars
<1>5. CASE WriterStep
  <2>1. CASE LogLine
    <3>1. partial \in Line /\ file' = Append(file, partial)
      BY <1>1, <2>1 DEF LogLine, EndLine, TypeOK, Line
    <3> QED
      BY <1>5, <3>1 DEF WriterStep
  <2>2. CASE file' = file
    BY <1>5, <2>2 DEF WriterStep
  <2> QED
    BY <1>5, <2>1, <2>2 DEF WriterStep, ReceiveLine, BeginLine, LogLineFails, CutLine,
                            SendWriteError, WriterEnds, logFileVars
<1>6. CASE MainStep \/ BuilderKilled
  BY <1>6 DEF MainStep, StartCommand, StartFails, WaitReturns, WaitDone, WaitPanics, ReadersDone,
              WriterDone, BuilderKilled, OnlyMain, CutLine, logFileVars
<1> QED
  BY <1>2, <1>3, <1>4, <1>5, <1>6 DEF RunNext

(***************************************************************************)
(* The page and the row, for every step.                                   *)
(***************************************************************************)
LEMMA PageInvNext == ASSUME DetailsInv, [Next]_vars PROVE PageInv'
<1>1. /\ RunInv /\ PageInv /\ TypeOK'
  BY RunInvNext DEF DetailsInv, RunInv, Next, LoopStep, RecordStart, RecordResult, GetBuild,
                    Answers, AnswerWithoutLogs, AnswerWithLogs, Show, AnswerFails, vars
<1>2. /\ row \in [started : BOOLEAN, result : BOOLEAN]
      /\ page \in [at : {"none", "polls", "stopped"}, fromLine : Nat, shown : Seq(Line)]
      /\ answer \in Statuses \cup {NoAnswer}
      /\ file \in Seq(Line) /\ file' \in Seq(Line)
  BY <1>1 DEF PageInv, PageTypeOK, TypeOK, Line
<1>3. CASE RunNext /\ UNCHANGED pageVars
  <2>1. UNCHANGED <<row, page, answer>>
    BY <1>3 DEF pageVars
  <2>2. IsPrefix(page.shown, file')
    <3>1. page.shown \in Seq(Line) /\ IsPrefix(page.shown, file)
      BY <1>1, <1>2 DEF PageInv
    <3>2. CASE file' = file
      BY <3>1, <3>2
    <3>3. CASE \E line \in Line : file' = Append(file, line)
      BY <1>2, <3>1, <3>3, GrowsBehind
    <3> QED
      BY <1>1, <1>3, <3>2, <3>3, RunStep
  <2>3. main \in Ended => main' = main /\ file' = file
    BY <1>1, <1>3, RunStep
  <2> QED
    BY <1>1, <2>1, <2>2, <2>3 DEF PageInv, PageTypeOK
<1>4. CASE RecordStart \/ RecordResult
  <2>1. UNCHANGED <<page, answer, main, file>>
    BY <1>4 DEF RecordStart, RecordResult, runVars, logFileVars
  <2>2. row' \in [started : BOOLEAN, result : BOOLEAN] /\ (row'.result => row.result \/ main \in Ended)
    BY <1>2, <1>4 DEF RecordStart, RecordResult
  <2> QED
    BY <1>1, <2>1, <2>2 DEF PageInv, PageTypeOK
<1>5. CASE GetBuild
  <2>1. UNCHANGED <<page, row, main, file>> /\ answer' = buildStatus /\ page.at # "stopped"
    BY <1>5 DEF GetBuild, runVars, logFileVars
  <2>2. answer' \in Statuses /\ (answer' = "result" => row.result)
    BY <2>1 DEF buildStatus, Statuses
  <2> QED
    BY <1>1, <2>1, <2>2 DEF PageInv, PageTypeOK
<1>6. CASE AnswerWithoutLogs
  <2>1. /\ UNCHANGED <<row, main, file>> /\ answer' = NoAnswer
        /\ page' = [at |-> "polls", fromLine |-> page.fromLine + Len(<<>>),
                    shown |-> page.shown \o <<>>]
    BY <1>6 DEF AnswerWithoutLogs, Show, Polls, LastLogLineNr, runVars, logFileVars
  <2>2. page' = [at |-> "polls", fromLine |-> page.fromLine, shown |-> page.shown]
    <3>1. page.shown \o <<>> = page.shown /\ Len(<<>>) = 0 /\ page.fromLine \in Nat
      BY <1>2, ConcatEmptySeq
    <3> QED
      BY <2>1, <3>1
  <2> QED
    BY <1>1, <1>2, <2>1, <2>2 DEF PageInv, PageTypeOK, NoAnswer, Line
<1>7. CASE AnswerWithLogs
  <2>1. /\ UNCHANGED <<row, main, file>> /\ answer' = NoAnswer
        /\ answer \in {"running", "result"}
        /\ page'.at = IF Polls(answer) THEN "polls" ELSE "stopped"
        /\ page'.fromLine = page.fromLine + Len(GetLogs(page.fromLine))
        /\ page'.shown = page.shown \o GetLogs(page.fromLine)
        /\ page' = [at |-> page'.at, fromLine |-> page'.fromLine, shown |-> page'.shown]
    BY <1>7 DEF AnswerWithLogs, Show, LastLogLineNr, runVars, logFileVars
  <2>2. page.shown \in Seq(Line) /\ page.fromLine = Len(page.shown) /\ IsPrefix(page.shown, file)
    BY <1>1, <1>2 DEF PageInv
  <2>3. page'.shown = file
    BY <1>2, <2>1, <2>2, AnswerCompletes DEF GetLogs
  <2>4. page'.fromLine = Len(file)
    <3>1. Len(page.shown) \in Nat /\ Len(file) \in Nat /\ Len(page.shown) <= Len(file)
      BY <1>2, <2>2, LenProperties, PrefixByLine
    <3>2. Len(GetLogs(page.fromLine)) = Len(file) - Len(page.shown)
      BY <1>2, <2>2, <3>1, RestOfLog DEF GetLogs
    <3> QED
      BY <2>1, <2>2, <3>1, <3>2
  <2>5. page'.at \in {"polls", "stopped"} /\ (page'.at = "stopped" => answer = "result")
    BY <2>1 DEF Polls
  <2>6. IsPrefix(file, file)
    BY <1>2, LenProperties, PrefixByLine
  <2>7. page' \in [at : {"none", "polls", "stopped"}, fromLine : Nat, shown : Seq(Line)]
    <3>1. Len(file) \in Nat
      BY <1>2, LenProperties
    <3> QED
      BY <1>2, <2>1, <2>3, <2>4, <2>5, <3>1
  <2> QED
    BY <1>1, <2>1, <2>3, <2>4, <2>5, <2>6, <2>7 DEF PageInv, PageTypeOK, NoAnswer, Line
<1>8. CASE AnswerFails
  <2>1. UNCHANGED <<page, row, main, file>> /\ answer' = NoAnswer
    BY <1>8 DEF AnswerFails, runVars, logFileVars
  <2> QED
    BY <1>1, <2>1 DEF PageInv, PageTypeOK, NoAnswer
<1>9. CASE UNCHANGED vars
  <2>1. UNCHANGED <<row, page, answer, main, file>>
    BY <1>9 DEF vars, pageVars, runVars, logFileVars
  <2> QED
    BY <1>1, <2>1 DEF PageInv, PageTypeOK
<1> QED
  BY <1>3, <1>4, <1>5, <1>6, <1>7, <1>8, <1>9 DEF Next, LoopStep, Answers

(***************************************************************************)
(* DetailsInv holds at first and is inductive.                             *)
(***************************************************************************)
LEMMA DetailsInvariance == Spec => []DetailsInv
<1>1. Init => DetailsInv
  <2> SUFFICES ASSUME Init PROVE DetailsInv
    OBVIOUS
  <2>1. RunInv
    BY RunInvInit DEF Init
  <2>2. file = <<>> /\ main = "start"
    BY DEF Init, RunInit, LogFileInit
  <2>3. <<>> \in Seq(Line) /\ Len(<<>>) = 0 /\ IsPrefix(<<>>, <<>>)
    <3>1. <<>> \in Seq(Line) /\ Len(<<>>) = 0
      BY EmptySeq
    <3>2. \A lines \in Seq(Line) : IsPrefix(lines, lines)
      BY LenProperties, PrefixByLine
    <3> QED
      BY <3>1, <3>2
  <2>4. PageTypeOK
    BY <2>1, <2>3 DEF Init, PageTypeOK, RunInv, Line
  <2> QED
    BY <2>1, <2>2, <2>3, <2>4 DEF Init, DetailsInv, PageInv, NoAnswer
<1>2. DetailsInv /\ [Next]_vars => DetailsInv'
  <2> SUFFICES ASSUME DetailsInv, [Next]_vars PROVE DetailsInv'
    OBVIOUS
  <2>1. [RunNext]_runVars
    BY DEF Next, LoopStep, RecordStart, RecordResult, GetBuild, Answers, AnswerWithoutLogs,
           AnswerWithLogs, Show, AnswerFails, vars
  <2>2. RunInv'
    BY <2>1, RunInvNext DEF DetailsInv
  <2> QED
    BY <2>2, PageInvNext DEF DetailsInv
<1> QED
  BY <1>1, <1>2, PTL DEF Spec

-----------------------------------------------------------------------------
(***************************************************************************)
(* The variables of runAndLog and of the page have their types: no channel *)
(* holds more than its capacity, whatever fails.                           *)
(***************************************************************************)
THEOREM DetailsTypeCorrect == Spec => []PageTypeOK
<1>1. DetailsInv => PageTypeOK
  BY DEF DetailsInv, PageInv
<1> QED
  BY <1>1, DetailsInvariance, PTL

(***************************************************************************)
(* runAndLog logs the lines of every stream in order, none left out, none  *)
(* twice and none that was not printed.                                    *)
(***************************************************************************)
THEOREM LogStaysInOrder == Spec => []LoggedInOrder
<1>1. DetailsInv => LoggedInOrder
  BY DEF DetailsInv, RunInv
<1> QED
  BY <1>1, DetailsInvariance, PTL

(***************************************************************************)
(* When runAndLog returns without an error the log has every line.         *)
(***************************************************************************)
THEOREM LogEndsComplete == Spec => []LogComplete
<1>1. DetailsInv => LogComplete
  BY RunInvMeans DEF DetailsInv
<1> QED
  BY <1>1, DetailsInvariance, PTL

(***************************************************************************)
(* runAndLog closes logChan only when no reader can send to it again.      *)
(***************************************************************************)
THEOREM ClosedAfterReaders == Spec => []NoSendOnClosed
<1>1. DetailsInv => NoSendOnClosed
  BY RunInvMeans DEF DetailsInv
<1> QED
  BY <1>1, DetailsInvariance, PTL

(***************************************************************************)
(* No goroutine waits to send an error, if errChan holds more errors than  *)
(* there are streams: three and two in the code.                           *)
(***************************************************************************)
THEOREM ErrorsAreTaken ==
    ASSUME Cardinality(Streams) < ErrCap
    PROVE  Spec => []ErrorsHaveRoom
<1>1. Init => ErrorsCounted
  <2> SUFFICES ASSUME Init PROVE ErrorsCounted
    OBVIOUS
  <2>1. errChan = 0 /\ EndedReaders = {} /\ writer = "write"
    BY DEF Init, RunInit, EndedReaders
  <2> QED
    BY <2>1, FS_EmptySet DEF ErrorsCounted, WriterErrors
<1>2. DetailsInv /\ ErrorsCounted /\ [Next]_vars => ErrorsCounted'
  <2> SUFFICES ASSUME DetailsInv, ErrorsCounted, [Next]_vars PROVE ErrorsCounted'
    OBVIOUS
  <2>1. [RunNext]_runVars
    BY DEF Next, LoopStep, RecordStart, RecordResult, GetBuild, Answers, AnswerWithoutLogs,
           AnswerWithLogs, Show, AnswerFails, vars
  <2> QED
    BY <2>1, ErrorsCountedNext DEF DetailsInv, RunInv
<1>3. DetailsInv /\ ErrorsCounted => ErrorsHaveRoom
  BY CountLeavesRoom DEF DetailsInv, RunInv
<1> QED
  BY <1>1, <1>2, <1>3, DetailsInvariance, PTL DEF Spec

(***************************************************************************)
(* The page always shows the beginning of the log, however many answers of *)
(* getBuildDetailsParams are lost.                                         *)
(***************************************************************************)
THEOREM PageIsPrefix == Spec => []ShowsLogInOrder
<1>1. DetailsInv => ShowsLogInOrder
  BY DEF DetailsInv, PageInv, ShowsLogInOrder
<1> QED
  BY <1>1, DetailsInvariance, PTL

(***************************************************************************)
(* A page that stopped polling shows the whole log: getBuildDetailsParams  *)
(* reads the row of the build before the log file.                         *)
(***************************************************************************)
THEOREM PageEndsComplete == Spec => []StopsComplete
<1>1. DetailsInv => StopsComplete
  BY DEF DetailsInv, PageInv, StopsComplete
<1> QED
  BY <1>1, DetailsInvariance, PTL
=============================================================================
