-------------------------- MODULE RunAndLogProofs --------------------------
(***************************************************************************)
(* Lemmas about runAndLog for all streams, any number of lines and every   *)
(* capacity of the channels and pipes: the invariant RunInv, which every   *)
(* step of the command, the goroutines and the main one keeps.             *)
(***************************************************************************)
EXTENDS RunAndLog, SequenceTheorems, FiniteSetTheorems, TLAPS

(***************************************************************************)
(* What is on its way from the readers to the end of the log file.         *)
(***************************************************************************)
Line == Streams \X Nat

InHand == IF partial = NoLine THEN <<>> ELSE <<partial>>

Sent == (file \o InHand) \o logChan

(***************************************************************************)
(* The lines of s among these are those up to k.                           *)
(***************************************************************************)
HoldsUpTo(lines, s, k) ==
    /\ \A n \in 1..k : \E i \in DOMAIN lines : lines[i] = <<s, n>>
    /\ \A i \in DOMAIN lines : lines[i][1] = s => lines[i][2] \in 1..k

(***************************************************************************)
(* The lines of s that the copier has handed over.                         *)
(***************************************************************************)
Handed(s) == stream[s].taken - (IF stream[s].copier = "write" THEN 1 ELSE 0)

(***************************************************************************)
(* A copier takes only what was printed, and ends when it has all.  Without*)
(* an error a reader ends after its copier, which does not fail.           *)
(***************************************************************************)
PipeInv(s) ==
    /\ stream[s].taken <= stream[s].printed
    /\ stream[s].copier = "write" => stream[s].taken > 0
    /\ stream[s].reader = "send" => Handed(s) > 0
    /\ stream[s].copier = "done" =>
          stream[s].taken = stream[s].printed /\ command \in Endings
    /\ errChan = 0 => stream[s].copier # "failed"
    /\ errChan = 0 /\ stream[s].reader = "done" => stream[s].copier = "done"
    /\ main \in {"readers", "writer", "returned"} => stream[s].copier \in {"done", "failed"}

(***************************************************************************)
(* The order in which runAndLog waits: for the command and the copiers, for*)
(* the readers, for the writer, which ends without an error only after it  *)
(* has written the last line.                                              *)
(***************************************************************************)
WaitInv ==
    /\ main = "start" => command = "none"
    /\ main \in {"writer", "returned"} => AllReadersDone
    /\ main = "returned" => writer = "done"
    /\ writer \in {"signal", "done"} /\ errChan = 0 =>
          /\ partial = NoLine /\ logChan = <<>>
          /\ main \notin {"start", "wait", "readers"}

(***************************************************************************)
(* As long as the writer has not failed, the lines sent are in order, and  *)
(* of each stream they are those its scanner has had, but for one that its *)
(* reader is about to send, and one it may have given up.                  *)
(***************************************************************************)
Flowing ==
    /\ main \notin {"panicked", "killed"}
    /\ writer = "write" \/ (writer # "error" /\ errChan = 0)

SentUpTo(s, k) ==
    /\ HoldsUpTo(Sent, s, k)
    /\ stream[s].reader = "scan" => k = Handed(s)
    /\ stream[s].reader = "send" => k = Handed(s) - 1
    /\ stream[s].reader = "done" /\ errChan = 0 => k = stream[s].taken

FlowInv ==
    Flowing =>
        /\ InOrder(Sent)
        /\ \A s \in Streams : \E k \in 0..stream[s].taken : SentUpTo(s, k)

RunInv ==
    /\ TypeOK
    /\ \A s \in Streams : PipeInv(s)
    /\ WaitInv
    /\ FlowInv
    /\ LoggedInOrder

-----------------------------------------------------------------------------
(***************************************************************************)
(* The types                                                               *)
(***************************************************************************)

(***************************************************************************)
(* A step of a stream changes no other stream.                             *)
(***************************************************************************)
StreamBecomes(s, printed, taken, copier, reader) ==
    /\ stream' \in [Streams -> StreamState]
    /\ \A t \in Streams : t # s => stream'[t] = stream[t]
    /\ stream'[s].printed = printed /\ stream'[s].taken = taken
    /\ stream'[s].copier = copier /\ stream'[s].reader = reader

(***************************************************************************)
(* The scanner takes a line, or gives up: copier and reader both change.   *)
(***************************************************************************)
LEMMA ScanChanges ==
    ASSUME TypeOK, NEW s \in Streams,
           NEW copier \in {"read", "write"}, NEW reader \in {"send", "error"},
           stream' = [stream EXCEPT ![s].copier = copier, ![s].reader = reader]
    PROVE  StreamBecomes(s, stream[s].printed, stream[s].taken, copier, reader)
<1>1. stream \in [Streams -> StreamState] /\ stream[s] \in StreamState
  BY DEF TypeOK
<1> DEFINE state == [stream[s] EXCEPT !.copier = copier, !.reader = reader]
<1>2. stream' = [stream EXCEPT ![s] = state]
  BY <1>1 DEF StreamState
<1>3. /\ state \in StreamState
      /\ state.printed = stream[s].printed /\ state.taken = stream[s].taken
      /\ state.copier = copier /\ state.reader = reader
  BY <1>1 DEF StreamState
<1> HIDE DEF state
<1> QED
  BY <1>1, <1>2, <1>3 DEF StreamBecomes

(***************************************************************************)
(* What the steps of the command, the copier and the reader do to a stream.*)
(***************************************************************************)
LEMMA StreamSteps ==
    ASSUME TypeOK, NEW s \in Streams
    PROVE  LET st == stream[s] IN
           /\ PrintLine(s) => StreamBecomes(s, st.printed + 1, st.taken, st.copier, st.reader)
           /\ CopierTakes(s) => StreamBecomes(s, st.printed, st.taken + 1, "write", st.reader)
           /\ CopierEnds(s) => StreamBecomes(s, st.printed, st.taken, "done", st.reader)
           /\ CopierFails(s) => StreamBecomes(s, st.printed, st.taken, "failed", st.reader)
           /\ ScanLine(s) => StreamBecomes(s, st.printed, st.taken, "read", "send")
           /\ ScanFails(s) => \E rest \in {"read", "write"} :
                 StreamBecomes(s, st.printed, st.taken, rest, "error")
           /\ ScanEnds(s) => StreamBecomes(s, st.printed, st.taken, st.copier, "done")
           /\ SendLine(s) => StreamBecomes(s, st.printed, st.taken, st.copier, "scan")
           /\ SendReadError(s) => StreamBecomes(s, st.printed, st.taken, st.copier, "done")
<1>1. stream \in [Streams -> StreamState] /\ stream[s] \in StreamState
  BY DEF TypeOK
<1> USE <1>1 DEF StreamBecomes, StreamState
<1>2. PrintLine(s) => StreamBecomes(s, stream[s].printed + 1, stream[s].taken,
                                    stream[s].copier, stream[s].reader)
  BY DEF PrintLine
<1>3. CopierTakes(s) => StreamBecomes(s, stream[s].printed, stream[s].taken + 1, "write",
                                      stream[s].reader)
  BY DEF CopierTakes
<1>4. CopierEnds(s) => StreamBecomes(s, stream[s].printed, stream[s].taken, "done",
                                     stream[s].reader)
  BY DEF CopierEnds
<1>5. CopierFails(s) => StreamBecomes(s, stream[s].printed, stream[s].taken, "failed",
                                      stream[s].reader)
  BY DEF CopierFails
<1>6. ScanLine(s) => StreamBecomes(s, stream[s].printed, stream[s].taken, "read", "send")
  BY ScanChanges DEF ScanLine
<1>7. ScanFails(s) => \E rest \in {"read", "write"} :
          StreamBecomes(s, stream[s].printed, stream[s].taken, rest, "error")
  BY ScanChanges DEF ScanFails
<1>8. ScanEnds(s) => StreamBecomes(s, stream[s].printed, stream[s].taken, stream[s].copier,
                                   "done")
  BY DEF ScanEnds
<1>9. SendLine(s) => StreamBecomes(s, stream[s].printed, stream[s].taken, stream[s].copier,
                                   "scan")
  <2> SUFFICES ASSUME SendLine(s) PROVE StreamBecomes(s, stream[s].printed, stream[s].taken,
                                                      stream[s].copier, "scan")
    OBVIOUS
  <2>1. stream' = [stream EXCEPT ![s].reader = "scan"]
    BY DEF SendLine, Send
  <2> QED
    BY <2>1
<1>10. SendReadError(s) => StreamBecomes(s, stream[s].printed, stream[s].taken,
                                         stream[s].copier, "done")
  <2> SUFFICES ASSUME SendReadError(s)
               PROVE  StreamBecomes(s, stream[s].printed, stream[s].taken,
                                    stream[s].copier, "done")
    OBVIOUS
  <2>1. stream' = [stream EXCEPT ![s].reader = "done"]
    BY DEF SendReadError, SendErrors
  <2> QED
    BY <2>1
<1> HIDE DEF StreamBecomes
<1> QED
  BY <1>2, <1>3, <1>4, <1>5, <1>6, <1>7, <1>8, <1>9, <1>10

-----------------------------------------------------------------------------
(***************************************************************************)
(* Lines on their way                                                      *)
(***************************************************************************)

(***************************************************************************)
(* No line is NoLine.                                                      *)
(***************************************************************************)
LEMMA LineIsSome == \A line \in Line : line # NoLine
BY DEF Line, NoLine

(***************************************************************************)
(* What is sent is a sequence of lines.                                    *)
(***************************************************************************)
LEMMA SentTyped == TypeOK => InHand \in Seq(Line) /\ Sent \in Seq(Line)
<1> SUFFICES ASSUME TypeOK PROVE InHand \in Seq(Line) /\ Sent \in Seq(Line)
  OBVIOUS
<1>1. file \in Seq(Line) /\ logChan \in Seq(Line) /\ partial \in Line \cup {NoLine}
  BY DEF TypeOK, Line
<1>2. InHand \in Seq(Line)
  <2>1. CASE partial = NoLine
    BY <2>1 DEF InHand
  <2>2. CASE partial \in Line /\ partial # NoLine
    <3> HIDE DEF Line
    <3>1. <<partial>> \in Seq(Line)
      BY <2>2
    <3> QED
      BY <2>2, <3>1 DEF InHand
  <2> QED
    BY <1>1, <2>1, <2>2
<1>3. file \o InHand \in Seq(Line)
  BY <1>1, <1>2, ConcatProperties
<1> QED
  BY <1>1, <1>2, <1>3, ConcatProperties DEF Sent

(***************************************************************************)
(* A line received from logChan is in hand, a line written is in the file: *)
(* neither changes what is sent.  A line sent comes after all of it.       *)
(***************************************************************************)
LEMMA SentMoves ==
    ASSUME NEW front \in Seq(Line), NEW back \in Seq(Line)
    PROVE  /\ \A hand \in Seq(Line), line \in Line :
                 (front \o hand) \o Append(back, line) = Append((front \o hand) \o back, line)
           /\ \A line \in Line : (front \o <<line>>) \o back = (Append(front, line) \o <<>>) \o back
           /\ back # <<>> => (front \o <<>>) \o back = (front \o <<Head(back)>>) \o Tail(back)
<1>1. ASSUME NEW hand \in Seq(Line), NEW line \in Line
      PROVE  (front \o hand) \o Append(back, line) = Append((front \o hand) \o back, line)
  <2>1. front \o hand \in Seq(Line) /\ (front \o hand) \o back \in Seq(Line)
    BY ConcatProperties
  <2>2. Append(back, line) = back \o <<line>> /\ <<line>> \in Seq(Line)
    BY AppendIsConcat
  <2>3. Append((front \o hand) \o back, line) = ((front \o hand) \o back) \o <<line>>
    BY <2>1, AppendIsConcat
  <2> QED
    BY <2>1, <2>2, <2>3, ConcatAssociative
<1>2. ASSUME NEW line \in Line
      PROVE  (front \o <<line>>) \o back = (Append(front, line) \o <<>>) \o back
  BY AppendIsConcat, AppendProperties, ConcatEmptySeq
<1>3. ASSUME back # <<>>
      PROVE  (front \o <<>>) \o back = (front \o <<Head(back)>>) \o Tail(back)
  <2>1. Head(back) \in Line /\ Tail(back) \in Seq(Line) /\ <<Head(back)>> \in Seq(Line)
    BY <1>3, HeadTailProperties
  <2>2. back = <<Head(back)>> \o Tail(back)
    <3>1. PICK head \in Line, tail \in Seq(Line) : head = Head(back) /\ tail = Tail(back)
      BY <2>1
    <3>2. Len(back) = Len(tail) + 1 /\ back[1] = head /\ \A i \in 1..Len(tail) : tail[i] = back[i + 1]
      BY <1>3, <3>1, HeadTailProperties
    <3>3. /\ <<head>> \o tail \in Seq(Line) /\ Len(<<head>> \o tail) = Len(tail) + 1
          /\ \A i \in 1..Len(tail) + 1 :
                (<<head>> \o tail)[i] = IF i <= 1 THEN head ELSE tail[i - 1]
      BY ConcatProperties
    <3>4. ASSUME NEW i \in 1..Len(back) PROVE back[i] = (<<head>> \o tail)[i]
      BY <3>2, <3>3
    <3> QED
      BY <3>1, <3>2, <3>3, <3>4, SeqEqual
  <2>3. front \o <<>> = front
    BY ConcatEmptySeq
  <2> QED
    BY <2>1, <2>2, <2>3, ConcatAssociative
<1> QED
  BY <1>1, <1>2, <1>3

(***************************************************************************)
(* Appending the next line of a stream keeps the order.                    *)
(***************************************************************************)
LEMMA NextLineInOrder ==
    ASSUME NEW lines \in Seq(Line), NEW s \in Streams, NEW k \in Nat,
           InOrder(lines), HoldsUpTo(lines, s, k)
    PROVE  LET longer == Append(lines, <<s, k + 1>>) IN
           /\ InOrder(longer)
           /\ HoldsUpTo(longer, s, k + 1)
           /\ \A t \in Streams, m \in Nat :
                 t # s /\ HoldsUpTo(lines, t, m) => HoldsUpTo(longer, t, m)
<1> DEFINE longer == Append(lines, <<s, k + 1>>)
           n == Len(lines)
<1>1. <<s, k + 1>> \in Line
  BY DEF Line
<1>2. /\ longer \in Seq(Line) /\ n \in Nat /\ Len(longer) = n + 1
      /\ \A i \in 1..n : longer[i] = lines[i]
      /\ longer[n + 1] = <<s, k + 1>>
  BY <1>1, AppendProperties, LenProperties
<1>3. DOMAIN lines = 1..n /\ DOMAIN longer = 1..n + 1
  BY <1>2, LenProperties
<1>4. \A i \in 1..n : lines[i][1] \in Streams /\ lines[i][2] \in Nat
  BY DEF Line
<1> HIDE DEF longer, n
<1>5. longer[n + 1][1] = s /\ longer[n + 1][2] = k + 1
  BY <1>2
<1>6. InOrder(longer)
  <2> SUFFICES ASSUME NEW i \in 1..n + 1
               PROVE  /\ \A j \in 1..i - 1 : longer[j][1] = longer[i][1] => longer[j][2] < longer[i][2]
                      /\ \A m \in 1..longer[i][2] - 1 :
                            \E j \in 1..i - 1 : longer[j] = <<longer[i][1], m>>
    BY <1>3 DEF InOrder
  <2>1. CASE i <= n
    <3>1. i \in 1..n /\ longer[i] = lines[i] /\ \A j \in 1..i - 1 : j \in 1..n /\ longer[j] = lines[j]
      BY <1>2, <2>1
    <3>2. /\ \A j \in 1..i - 1 : lines[j][1] = lines[i][1] => lines[j][2] < lines[i][2]
          /\ \A m \in 1..lines[i][2] - 1 : \E j \in 1..i - 1 : lines[j] = <<lines[i][1], m>>
      BY <1>3, <3>1 DEF InOrder
    <3> QED
      BY <3>1, <3>2
  <2>2. CASE i = n + 1
    <3>1. longer[i][1] = s /\ longer[i][2] = k + 1
      BY <1>5, <2>2
    <3>2. ASSUME NEW j \in 1..i - 1, longer[j][1] = s PROVE longer[j][2] < k + 1
      <4>1. j \in 1..n /\ longer[j] = lines[j]
        BY <1>2, <2>2
      <4>2. lines[j][2] \in 1..k
        BY <1>3, <3>2, <4>1 DEF HoldsUpTo
      <4> QED
        BY <4>1, <4>2
    <3>3. ASSUME NEW m \in 1..k PROVE \E j \in 1..i - 1 : longer[j] = <<s, m>>
      <4>1. PICK j \in 1..n : lines[j] = <<s, m>>
        BY <1>3 DEF HoldsUpTo
      <4> QED
        BY <1>2, <2>2, <4>1
    <3>4. 1..(k + 1) - 1 = 1..k
      OBVIOUS
    <3> QED
      BY <3>1, <3>2, <3>3, <3>4
  <2>3. i <= n \/ i = n + 1
    BY <1>2
  <2> QED
    BY <2>1, <2>2, <2>3
<1>7. HoldsUpTo(longer, s, k + 1)
  <2>1. ASSUME NEW m \in 1..k + 1 PROVE \E i \in 1..n + 1 : longer[i] = <<s, m>>
    <3>1. CASE m = k + 1
      <4>1. n + 1 \in 1..n + 1
        BY <1>2
      <4> QED
        BY <1>2, <3>1, <4>1
    <3>2. CASE m <= k
      <4>1. m \in 1..k
        BY <3>2
      <4>2. PICK i \in 1..n : lines[i] = <<s, m>>
        BY <1>3, <4>1 DEF HoldsUpTo
      <4>3. i \in 1..n + 1
        BY <1>2
      <4> QED
        BY <1>2, <4>2, <4>3
    <3> QED
      BY <3>1, <3>2
  <2>2. ASSUME NEW i \in 1..n + 1, longer[i][1] = s PROVE longer[i][2] \in 1..k + 1
    <3>1. CASE i = n + 1
      BY <1>5, <3>1
    <3>2. CASE i \in 1..n
      BY <1>2, <1>3, <2>2, <3>2 DEF HoldsUpTo
    <3> QED
      BY <1>2, <3>1, <3>2
  <2> QED
    BY <1>3, <2>1, <2>2 DEF HoldsUpTo
<1>8. ASSUME NEW t \in Streams, NEW m \in Nat, t # s, HoldsUpTo(lines, t, m)
      PROVE  HoldsUpTo(longer, t, m)
  <2>1. ASSUME NEW p \in 1..m PROVE \E i \in 1..n + 1 : longer[i] = <<t, p>>
    <3>1. PICK i \in 1..n : lines[i] = <<t, p>>
      BY <1>3, <1>8 DEF HoldsUpTo
    <3> QED
      BY <1>2, <3>1
  <2>2. ASSUME NEW i \in 1..n + 1, longer[i][1] = t PROVE longer[i][2] \in 1..m
    <3>1. i # n + 1
      BY <1>5, <1>8, <2>2
    <3>2. i \in 1..n
      BY <1>2, <3>1
    <3> QED
      BY <1>2, <1>3, <1>8, <2>2, <3>2 DEF HoldsUpTo
  <2> QED
    BY <1>3, <2>1, <2>2 DEF HoldsUpTo
<1> QED
  BY <1>6, <1>7, <1>8 DEF longer

(***************************************************************************)
(* What comes first of lines in order is in order.                         *)
(***************************************************************************)
LEMMA FirstInOrder ==
    ASSUME NEW front \in Seq(Line), NEW back \in Seq(Line), InOrder(front \o back)
    PROVE  /\ InOrder(front)
           /\ \A i \in DOMAIN front :
                 i \in DOMAIN (front \o back) /\ (front \o back)[i] = front[i]
<1> DEFINE all == front \o back
           n == Len(front)
<1>1. /\ n \in Nat /\ Len(back) \in Nat /\ DOMAIN front = 1..n
      /\ all \in Seq(Line) /\ DOMAIN all = 1..n + Len(back)
      /\ \A i \in 1..n : all[i] = front[i]
  <2>1. n \in Nat /\ Len(back) \in Nat /\ DOMAIN front = 1..n
    BY LenProperties
  <2>2. /\ all \in Seq(Line) /\ Len(all) = n + Len(back)
        /\ \A i \in 1..n + Len(back) : all[i] = IF i <= n THEN front[i] ELSE back[i - n]
    BY ConcatProperties
  <2>3. DOMAIN all = 1..n + Len(back)
    BY <2>2, LenProperties
  <2> HIDE DEF all, n
  <2> QED
    BY <2>1, <2>2, <2>3
<1> HIDE DEF all, n
<1>2. \A i \in 1..n : i \in DOMAIN all
  BY <1>1
<1>3. InOrder(front)
  <2>1. InOrder(all)
    BY DEF all
  <2> SUFFICES ASSUME NEW i \in 1..n
               PROVE  /\ \A j \in 1..i - 1 : front[j][1] = front[i][1] => front[j][2] < front[i][2]
                      /\ \A m \in 1..front[i][2] - 1 :
                            \E j \in 1..i - 1 : front[j] = <<front[i][1], m>>
    BY <1>1 DEF InOrder
  <2>2. all[i] = front[i] /\ \A j \in 1..i - 1 : all[j] = front[j]
    BY <1>1
  <2>3. /\ \A j \in 1..i - 1 : all[j][1] = all[i][1] => all[j][2] < all[i][2]
        /\ \A m \in 1..all[i][2] - 1 : \E j \in 1..i - 1 : all[j] = <<all[i][1], m>>
    BY <1>2, <2>1 DEF InOrder
  <2> QED
    BY <2>2, <2>3
<1> QED
  BY <1>1, <1>2, <1>3 DEF all

-----------------------------------------------------------------------------
(***************************************************************************)
(* The steps keep the types and the waiting                                *)
(***************************************************************************)

(***************************************************************************)
(* Every step keeps the types: a send finds room in its channel, and the   *)
(* line in a reader's hands is one the copier has handed over.             *)
(***************************************************************************)
LEMMA RunTyped ==
    ASSUME TypeOK, \A s \in Streams : PipeInv(s), [RunNext]_runVars
    PROVE  TypeOK'
<1>1. /\ LogCap \in Nat /\ ErrCap \in Nat
      /\ errChan \in Nat /\ Len(logChan) \in Nat
  BY RunAssumption, LenProperties DEF TypeOK
<1>2. ASSUME stream' \in [Streams -> StreamState], OnlyStreams PROVE TypeOK'
  BY <1>2 DEF TypeOK, OnlyStreams, logFileVars
<1>3. CASE CommandStep
  <2>1. CASE \E endings \in SUBSET Endings : CommandEnds(endings)
    BY <2>1 DEF TypeOK, CommandEnds, logFileVars
  <2>2. CASE \E s \in Streams : PrintLine(s)
    BY <1>2, <2>2, StreamSteps DEF StreamBecomes, PrintLine
  <2> QED
    BY <1>3, <2>1, <2>2 DEF CommandStep, CommandExits, PrintBreaks, Endings
<1>4. ASSUME NEW s \in Streams, CopierStep(s) PROVE TypeOK'
  BY <1>2, <1>4, StreamSteps DEF StreamBecomes, CopierStep, CopierTakes, CopierEnds, CopierFails
<1>5. ASSUME NEW s \in Streams, ScanLine(s) \/ ScanFails(s) \/ ScanEnds(s) PROVE TypeOK'
  BY <1>2, <1>5, StreamSteps DEF StreamBecomes, ScanLine, ScanFails, ScanEnds
<1>6. ASSUME NEW s \in Streams, SendLine(s) PROVE TypeOK'
  <2>1. stream' \in [Streams -> StreamState]
    BY <1>6, StreamSteps DEF StreamBecomes
  <2>2. PICK line \in Streams \X Nat :
            /\ logChan' = Append(logChan, line) /\ Len(logChan) < LogCap
            /\ UNCHANGED <<command, errChan, writer, main, logFileVars>>
    <3>1. stream[s].taken - (IF stream[s].copier = "write" THEN 1 ELSE 0) \in Nat
      <4>1. stream[s].taken \in Nat /\ stream[s].reader = "send"
        BY <1>6 DEF TypeOK, StreamState, SendLine, Send
      <4> QED
        BY <4>1 DEF PipeInv, Handed
    <3> QED
      BY <1>6, <3>1 DEF SendLine, Send
  <2>3. logChan' \in Seq(Streams \X Nat) /\ Len(logChan') <= LogCap
    BY <1>1, <2>2, AppendProperties DEF TypeOK
  <2> QED
    BY <2>1, <2>2, <2>3 DEF TypeOK, logFileVars
<1>7. ASSUME NEW s \in Streams, SendReadError(s) PROVE TypeOK'
  <2>1. stream' \in [Streams -> StreamState]
    BY <1>7, StreamSteps DEF StreamBecomes
  <2>2. errChan' \in 0..ErrCap /\ UNCHANGED <<command, logChan, writer, main, logFileVars>>
    BY <1>1, <1>7 DEF SendReadError, SendErrors
  <2> QED
    BY <2>1, <2>2 DEF TypeOK, logFileVars
<1>8. CASE ReceiveLine
  <2>1. /\ Head(logChan) \in Streams \X Nat /\ Tail(logChan) \in Seq(Streams \X Nat)
        /\ Len(Tail(logChan)) <= LogCap
    BY <1>1, <1>8, HeadTailProperties DEF ReceiveLine, TypeOK
  <2> QED
    BY <1>8, <2>1 DEF TypeOK, ReceiveLine, BeginLine
<1>9. CASE LogLine
  <2>1. file' \in Seq(Streams \X Nat)
    BY <1>9, AppendProperties DEF TypeOK, LogLine, EndLine
  <2> QED
    BY <1>9, <2>1 DEF TypeOK, LogLine, EndLine
<1>10. CASE LogLineFails
  BY <1>10 DEF TypeOK, LogLineFails, CutLine
<1>11. CASE SendWriteError \/ WriterEnds
  BY <1>1, <1>11 DEF TypeOK, SendWriteError, WriterEnds, logFileVars
<1>12. CASE StartCommand \/ StartFails \/ WaitReturns \/ ReadersDone \/ WriterDone
  BY <1>12 DEF TypeOK, StartCommand, StartFails, WaitReturns, ReadersDone, WriterDone, OnlyMain,
               Ended, logFileVars
<1>13. CASE WaitPanics \/ BuilderKilled
  BY <1>13 DEF TypeOK, WaitPanics, BuilderKilled, CutLine, Ended
<1>14. CASE UNCHANGED runVars
  BY <1>14 DEF TypeOK, runVars, logFileVars
<1> QED
  BY <1>3, <1>4, <1>5, <1>6, <1>7, <1>8, <1>9, <1>10, <1>11, <1>12, <1>13, <1>14
     DEF RunNext, ReaderStep, WriterStep, MainStep

(***************************************************************************)
(* What no step of a stream changes leaves it as PipeInv wants it.         *)
(***************************************************************************)
LEMMA PipeKept ==
    ASSUME NEW s \in Streams, PipeInv(s), stream'[s] = stream[s],
           errChan' = 0 => errChan = 0,
           command \in Endings => command' \in Endings,
           main' \in {"readers", "writer", "returned"} =>
               \/ main \in {"readers", "writer", "returned"}
               \/ stream[s].copier \in {"done", "failed"}
    PROVE  PipeInv(s)'
BY DEF PipeInv, Handed

(***************************************************************************)
(* Every step keeps PipeInv.                                               *)
(***************************************************************************)
LEMMA PipesKept ==
    ASSUME RunInv, [RunNext]_runVars
    PROVE  \A s \in Streams : PipeInv(s)'
<1>1. TypeOK /\ errChan \in Nat
  BY DEF RunInv, TypeOK
<1>2. ASSUME NEW s \in Streams
      PROVE  /\ PipeInv(s)
             /\ stream[s].printed \in Nat /\ stream[s].taken \in Nat
             /\ stream[s].copier \in {"read", "write", "done", "failed"}
  BY <1>1 DEF RunInv, TypeOK, StreamState
<1>3. ASSUME NEW s \in Streams, UNCHANGED <<command, main>>, errChan' = 0 => errChan = 0,
             NEW printed, NEW taken, NEW copier, NEW reader,
             StreamBecomes(s, printed, taken, copier, reader), PipeInv(s)'
      PROVE  \A t \in Streams : PipeInv(t)'
  <2> SUFFICES ASSUME NEW t \in Streams, t # s PROVE PipeInv(t)'
    BY <1>3
  <2> QED
    BY <1>2, <1>3, PipeKept DEF StreamBecomes
<1>4. CASE CommandStep
  <2>1. CASE command = "running" /\ \E endings \in SUBSET Endings : CommandEnds(endings)
    BY <1>2, <2>1, PipeKept DEF CommandEnds
  <2>2. CASE \E s \in Streams : PrintLine(s)
    <3>1. PICK s \in Streams : PrintLine(s)
      BY <2>2
    <3>2. /\ command = "running" /\ UNCHANGED <<command, main, errChan>>
          /\ stream[s].copier # "failed"
      BY <3>1 DEF PrintLine, MorePrinted, OnlyStreams
    <3>3. StreamBecomes(s, stream[s].printed + 1, stream[s].taken, stream[s].copier,
                        stream[s].reader)
      BY <1>1, <3>1, StreamSteps
    <3>4. PipeInv(s)'
      BY <1>2, <3>2, <3>3 DEF PipeInv, Handed, StreamBecomes, Endings
    <3> QED
      BY <1>3, <3>2, <3>3, <3>4
  <2> QED
    BY <1>4, <2>1, <2>2 DEF CommandStep, CommandExits, PrintBreaks, MorePrinted, Endings
<1>5. ASSUME NEW s \in Streams, CopierTakes(s) PROVE \A t \in Streams : PipeInv(t)'
  <2>1. UNCHANGED <<command, main, errChan>> /\ stream[s].copier = "read"
        /\ stream[s].taken < stream[s].printed
    BY <1>5 DEF CopierTakes, OnlyStreams
  <2>2. StreamBecomes(s, stream[s].printed, stream[s].taken + 1, "write", stream[s].reader)
    BY <1>1, <1>5, StreamSteps
  <2>3. PipeInv(s)'
    BY <1>2, <2>1, <2>2 DEF PipeInv, Handed, StreamBecomes
  <2> QED
    BY <1>3, <2>1, <2>2, <2>3
<1>6. ASSUME NEW s \in Streams, CopierEnds(s) PROVE \A t \in Streams : PipeInv(t)'
  <2>1. /\ UNCHANGED <<command, main, errChan>> /\ stream[s].copier = "read"
        /\ stream[s].taken = stream[s].printed /\ command \in Endings
    BY <1>6 DEF CopierEnds, OnlyStreams
  <2>2. StreamBecomes(s, stream[s].printed, stream[s].taken, "done", stream[s].reader)
    BY <1>1, <1>6, StreamSteps
  <2>3. PipeInv(s)'
    BY <1>2, <2>1, <2>2 DEF PipeInv, Handed, StreamBecomes
  <2> QED
    BY <1>3, <2>1, <2>2, <2>3
<1>7. ASSUME NEW s \in Streams, CopierFails(s) PROVE \A t \in Streams : PipeInv(t)'
  <2>1. /\ UNCHANGED <<command, main, errChan>>
        /\ stream[s].copier = "write" /\ stream[s].reader = "done"
    BY <1>7 DEF CopierFails, OnlyStreams
  <2>2. StreamBecomes(s, stream[s].printed, stream[s].taken, "failed", stream[s].reader)
    BY <1>1, <1>7, StreamSteps
  <2>3. PipeInv(s)'
    BY <1>2, <2>1, <2>2 DEF PipeInv, Handed, StreamBecomes
  <2> QED
    BY <1>3, <2>1, <2>2, <2>3
<1>8. ASSUME NEW s \in Streams, ScanLine(s) PROVE \A t \in Streams : PipeInv(t)'
  <2>1. UNCHANGED <<command, main, errChan>> /\ stream[s].copier = "write"
    BY <1>8 DEF ScanLine, Offered, OnlyStreams
  <2>2. StreamBecomes(s, stream[s].printed, stream[s].taken, "read", "send")
    BY <1>1, <1>8, StreamSteps
  <2>3. PipeInv(s)'
    BY <1>2, <2>1, <2>2 DEF PipeInv, Handed, StreamBecomes
  <2> QED
    BY <1>3, <2>1, <2>2, <2>3
<1>9. ASSUME NEW s \in Streams, ScanFails(s) PROVE \A t \in Streams : PipeInv(t)'
  <2>1. UNCHANGED <<command, main, errChan>> /\ stream[s].copier = "write"
    BY <1>9 DEF ScanFails, Offered, OnlyStreams
  <2>2. PICK rest \in {"read", "write"} :
            StreamBecomes(s, stream[s].printed, stream[s].taken, rest, "error")
    BY <1>1, <1>9, StreamSteps
  <2>3. PipeInv(s)'
    BY <1>2, <2>1, <2>2 DEF PipeInv, Handed, StreamBecomes
  <2> QED
    BY <1>3, <2>1, <2>2, <2>3
<1>10. ASSUME NEW s \in Streams, ScanEnds(s) PROVE \A t \in Streams : PipeInv(t)'
  <2>1. UNCHANGED <<command, main, errChan>> /\ main = "readers" /\ stream[s].reader = "scan"
    BY <1>10 DEF ScanEnds, OnlyStreams
  <2>2. StreamBecomes(s, stream[s].printed, stream[s].taken, stream[s].copier, "done")
    BY <1>1, <1>10, StreamSteps
  <2>3. PipeInv(s)'
    BY <1>2, <2>1, <2>2 DEF PipeInv, Handed, StreamBecomes
  <2> QED
    BY <1>3, <2>1, <2>2, <2>3
<1>11. ASSUME NEW s \in Streams, SendLine(s) PROVE \A t \in Streams : PipeInv(t)'
  <2>1. UNCHANGED <<command, main, errChan>> /\ stream[s].reader = "send"
    BY <1>11 DEF SendLine, Send
  <2>2. StreamBecomes(s, stream[s].printed, stream[s].taken, stream[s].copier, "scan")
    BY <1>1, <1>11, StreamSteps
  <2>3. PipeInv(s)'
    BY <1>2, <2>1, <2>2 DEF PipeInv, Handed, StreamBecomes
  <2> QED
    BY <1>3, <2>1, <2>2, <2>3
<1>12. ASSUME NEW s \in Streams, SendReadError(s) PROVE \A t \in Streams : PipeInv(t)'
  <2>1. UNCHANGED <<command, main>> /\ errChan' = errChan + 1
    BY <1>12 DEF SendReadError, SendErrors
  <2>2. StreamBecomes(s, stream[s].printed, stream[s].taken, stream[s].copier, "done")
    BY <1>1, <1>12, StreamSteps
  <2>3. PipeInv(s)'
    BY <1>1, <1>2, <2>1, <2>2 DEF PipeInv, Handed, StreamBecomes
  <2> QED
    BY <1>1, <1>3, <2>1, <2>2, <2>3
<1>13. CASE WriterStep
  <2>1. UNCHANGED <<command, stream, main>> /\ (errChan' = 0 => errChan = 0)
    BY <1>1, <1>13 DEF WriterStep, ReceiveLine, LogLine, LogLineFails, SendWriteError, WriterEnds
  <2> QED
    BY <1>2, <2>1, PipeKept
<1>14. CASE MainStep \/ BuilderKilled
  <2>1. UNCHANGED <<stream, errChan>>
    BY <1>14 DEF MainStep, StartCommand, StartFails, WaitReturns, WaitPanics, ReadersDone,
                 WriterDone, BuilderKilled, OnlyMain
  <2>2. command \in Endings => command' = command
    BY <1>14 DEF RunInv, WaitInv, MainStep, StartCommand, StartFails, WaitReturns, WaitPanics,
                 ReadersDone, WriterDone, BuilderKilled, OnlyMain, Endings
  <2>3. main' \in {"readers", "writer", "returned"} =>
            \/ main \in {"readers", "writer", "returned"}
            \/ \A s \in Streams : stream[s].copier \in {"done", "failed"}
    BY <1>14 DEF MainStep, StartCommand, StartFails, WaitReturns, WaitDone, WaitPanics,
                 ReadersDone, WriterDone, BuilderKilled, OnlyMain
  <2> QED
    BY <1>2, <2>1, <2>2, <2>3, PipeKept
<1>15. CASE UNCHANGED runVars
  BY <1>2, <1>15, PipeKept DEF runVars
<1> QED
  BY <1>4, <1>5, <1>6, <1>7, <1>8, <1>9, <1>10, <1>11, <1>12, <1>13, <1>14, <1>15
     DEF RunNext, CopierStep, ReaderStep

(***************************************************************************)
(* Every step keeps WaitInv: a reader that is done stays so, and nothing is*)
(* sent to a writer that has ended.                                        *)
(***************************************************************************)
LEMMA WaitKept == ASSUME RunInv, [RunNext]_runVars PROVE WaitInv'
<1>1. WaitInv /\ TypeOK /\ errChan \in Nat
  BY DEF RunInv, TypeOK
<1>2. CASE CommandStep
  <2>1. UNCHANGED <<main, writer, errChan, logChan, partial>> /\ main # "start"
    BY <1>1, <1>2 DEF CommandStep, CommandExits, CommandEnds, PrintLine, PrintBreaks, MorePrinted,
                      OnlyStreams, logFileVars, WaitInv
  <2>2. AllReadersDone => AllReadersDone'
    <3>1. CASE UNCHANGED stream
      BY <3>1 DEF AllReadersDone
    <3>2. CASE \E s \in Streams : PrintLine(s)
      <4>1. PICK s \in Streams : PrintLine(s)
        BY <3>2
      <4>2. StreamBecomes(s, stream[s].printed + 1, stream[s].taken, stream[s].copier,
                          stream[s].reader)
        BY <1>1, <4>1, StreamSteps
      <4> QED
        BY <4>2 DEF StreamBecomes, AllReadersDone
    <3> QED
      BY <1>2, <3>1, <3>2 DEF CommandStep, CommandExits, CommandEnds, PrintBreaks
  <2> QED
    BY <1>1, <2>1, <2>2 DEF WaitInv
<1>3. ASSUME NEW s \in Streams, CopierStep(s) PROVE WaitInv'
  <2>1. UNCHANGED <<command, main, writer, errChan, logChan, partial>>
    BY <1>3 DEF CopierStep, CopierTakes, CopierEnds, CopierFails, OnlyStreams, logFileVars
  <2>2. AllReadersDone => AllReadersDone'
    BY <1>1, <1>3, StreamSteps DEF CopierStep, StreamBecomes, AllReadersDone
  <2> QED
    BY <1>1, <2>1, <2>2 DEF WaitInv
<1>4. ASSUME NEW s \in Streams, ScanLine(s) \/ ScanFails(s) \/ ScanEnds(s) PROVE WaitInv'
  <2>1. /\ UNCHANGED <<command, main, writer, errChan, logChan, partial>>
        /\ stream[s].reader = "scan"
    BY <1>4 DEF ScanLine, ScanFails, ScanEnds, Offered, OnlyStreams, logFileVars
  <2>2. ~AllReadersDone
    BY <2>1 DEF AllReadersDone
  <2> QED
    BY <1>1, <2>1, <2>2 DEF WaitInv
<1>5. ASSUME NEW s \in Streams, Alive, SendLine(s) \/ SendReadError(s) PROVE WaitInv'
  <2>1. /\ UNCHANGED <<command, main, writer, partial>>
        /\ errChan' = errChan \/ errChan' = errChan + 1
        /\ stream[s].reader \in {"send", "error"}
    BY <1>5 DEF SendLine, Send, SendReadError, SendErrors, logFileVars
  <2>2. ~AllReadersDone
    BY <2>1 DEF AllReadersDone
  <2>3. main \in {"start", "wait", "readers"}
    BY <1>1, <1>5, <2>2 DEF WaitInv, TypeOK, Alive, Ended
  <2> QED
    BY <1>1, <2>1, <2>2, <2>3 DEF WaitInv
<1>6. CASE ReceiveLine \/ LogLine \/ LogLineFails
  <2>1. UNCHANGED <<command, stream, main>> /\ writer' \in {"write", "error"} /\ writer = "write"
    BY <1>6 DEF ReceiveLine, LogLine, LogLineFails
  <2> QED
    BY <1>1, <2>1 DEF WaitInv, AllReadersDone
<1>7. CASE SendWriteError
  <2>1. UNCHANGED <<command, stream, main>> /\ errChan' = errChan + 1 /\ writer = "error"
    BY <1>7 DEF SendWriteError
  <2> QED
    BY <1>1, <2>1 DEF WaitInv, AllReadersDone
<1>8. CASE WriterEnds
  <2>1. /\ UNCHANGED <<command, stream, main, errChan, partial, logChan>>
        /\ main = "writer" /\ partial = NoLine /\ logChan = <<>>
    BY <1>8 DEF WriterEnds, logFileVars
  <2> QED
    BY <1>1, <2>1 DEF WaitInv, AllReadersDone
<1>9. CASE StartCommand \/ StartFails \/ WaitReturns \/ ReadersDone \/ WriterDone
  <2>1. UNCHANGED <<stream, errChan, partial, logChan>>
    BY <1>9 DEF StartCommand, StartFails, WaitReturns, ReadersDone, WriterDone, OnlyMain,
                logFileVars
  <2> USE <1>1, <2>1 DEF WaitInv, AllReadersDone
  <2>2. CASE StartCommand \/ StartFails
    BY <2>2 DEF StartCommand, StartFails, OnlyMain
  <2>3. CASE WaitReturns
    BY <2>3 DEF WaitReturns, WaitDone, OnlyMain
  <2>4. CASE ReadersDone
    BY <2>4 DEF ReadersDone, OnlyMain
  <2>5. CASE WriterDone
    BY <2>5 DEF WriterDone
  <2> QED
    BY <1>9, <2>2, <2>3, <2>4, <2>5
<1>10. CASE WaitPanics \/ BuilderKilled
  BY <1>1, <1>10 DEF WaitInv, AllReadersDone, WaitPanics, BuilderKilled, CutLine
<1>11. CASE UNCHANGED runVars
  BY <1>1, <1>11 DEF WaitInv, AllReadersDone, runVars, logFileVars
<1> QED
  BY <1>2, <1>3, <1>4, <1>5, <1>6, <1>7, <1>8, <1>9, <1>10, <1>11
     DEF RunNext, ReaderStep, WriterStep, MainStep

-----------------------------------------------------------------------------
(***************************************************************************)
(* The steps keep the order of the lines                                   *)
(***************************************************************************)

(***************************************************************************)
(* A line that is sent is the next of its stream.                          *)
(***************************************************************************)
LEMMA SendInOrder ==
    ASSUME RunInv, NEW s \in Streams, SendLine(s), Flowing
    PROVE  /\ InOrder(Sent')
           /\ \A t \in Streams : \E k \in 0..stream[t].taken : SentUpTo(t, k)'
<1>1. TypeOK /\ PipeInv(s) /\ FlowInv
  BY DEF RunInv
<1>2. /\ StreamBecomes(s, stream[s].printed, stream[s].taken, stream[s].copier, "scan")
      /\ stream[s].reader = "send"
  BY <1>1, StreamSteps DEF SendLine, Send
<1>3. PICK k \in 0..stream[s].taken : SentUpTo(s, k)
  BY <1>1 DEF FlowInv
<1>4. k = Handed(s) - 1 /\ HoldsUpTo(Sent, s, k) /\ InOrder(Sent)
  BY <1>1, <1>2, <1>3 DEF SentUpTo, FlowInv
<1>5. stream[s].taken \in Nat /\ k \in Nat /\ Handed(s) = k + 1 /\ k + 1 <= stream[s].taken
  BY <1>1, <1>4 DEF TypeOK, StreamState, Handed
<1>6. /\ logChan' = Append(logChan, <<s, k + 1>>)
      /\ UNCHANGED <<file, partial, errChan, main, writer>>
  BY <1>5 DEF SendLine, Send, Handed, logFileVars
<1>7. file \in Seq(Line) /\ logChan \in Seq(Line) /\ InHand \in Seq(Line) /\ Sent \in Seq(Line)
  BY <1>1, SentTyped DEF TypeOK, Line
<1>8. Sent' = Append(Sent, <<s, k + 1>>)
  <2>1. <<s, k + 1>> \in Line
    BY <1>5 DEF Line
  <2>2. (file \o InHand) \o Append(logChan, <<s, k + 1>>) = Append(Sent, <<s, k + 1>>)
    BY <1>7, <2>1, SentMoves DEF Sent
  <2> QED
    BY <1>6, <2>2 DEF Sent, InHand
<1>9. /\ InOrder(Sent')
      /\ HoldsUpTo(Sent', s, k + 1)
      /\ \A t \in Streams, m \in Nat : t # s /\ HoldsUpTo(Sent, t, m) => HoldsUpTo(Sent', t, m)
  BY <1>4, <1>5, <1>7, <1>8, NextLineInOrder
<1>10. SentUpTo(s, k + 1)'
  <2>1. stream'[s].reader = "scan" /\ Handed(s)' = Handed(s)
    BY <1>2 DEF StreamBecomes, Handed
  <2> QED
    BY <1>5, <1>9, <2>1 DEF SentUpTo
<1>11. ASSUME NEW t \in Streams PROVE \E m \in 0..stream[t].taken : SentUpTo(t, m)'
  <2>1. CASE t = s
    BY <1>5, <1>10, <2>1
  <2>2. CASE t # s
    <3>1. PICK m \in 0..stream[t].taken : SentUpTo(t, m)
      BY <1>1 DEF FlowInv
    <3>2. HoldsUpTo(Sent', t, m)
      BY <1>9, <2>2, <3>1 DEF SentUpTo
    <3>3. stream'[t] = stream[t] /\ errChan' = errChan
      BY <1>2, <1>6, <2>2 DEF StreamBecomes
    <3> QED
      BY <3>1, <3>2, <3>3 DEF SentUpTo, Handed
  <2> QED
    BY <2>1, <2>2
<1> QED
  BY <1>9, <1>11

(***************************************************************************)
(* What sends nothing keeps the order, if every scanner is as far as it was*)
(***************************************************************************)
LEMMA FlowKept ==
    ASSUME RunInv, Sent' = Sent, Flowing' => Flowing,
           \A s \in Streams :
               /\ stream[s].taken \in Nat /\ stream'[s].taken \in Nat
               /\ stream[s].taken <= stream'[s].taken
               /\ stream'[s].reader = "scan" =>
                     stream[s].reader = "scan" /\ Handed(s)' = Handed(s)
               /\ stream'[s].reader = "send" =>
                     \/ stream[s].reader = "send" /\ Handed(s)' = Handed(s)
                     \/ stream[s].reader = "scan" /\ Handed(s)' - 1 = Handed(s)
               /\ stream'[s].reader = "done" /\ errChan' = 0 =>
                     \/ /\ stream[s].reader = "done" /\ errChan = 0
                        /\ stream'[s].taken = stream[s].taken
                     \/ stream[s].reader = "scan" /\ stream'[s].taken = Handed(s)
    PROVE  FlowInv'
<1> SUFFICES ASSUME Flowing'
             PROVE  /\ InOrder(Sent')
                    /\ \A s \in Streams : \E k \in 0..stream'[s].taken : SentUpTo(s, k)'
  BY DEF FlowInv
<1>1. InOrder(Sent) /\ \A s \in Streams : \E k \in 0..stream[s].taken : SentUpTo(s, k)
  BY DEF RunInv, FlowInv
<1>2. ASSUME NEW s \in Streams PROVE \E k \in 0..stream'[s].taken : SentUpTo(s, k)'
  <2>1. PICK k \in 0..stream[s].taken : SentUpTo(s, k)
    BY <1>1
  <2>2. k \in 0..stream'[s].taken
    BY <2>1
  <2>3. SentUpTo(s, k)'
    BY <2>1 DEF SentUpTo
  <2> QED
    BY <2>2, <2>3
<1> QED
  BY <1>1, <1>2

(***************************************************************************)
(* Every step keeps FlowInv.                                               *)
(***************************************************************************)
LEMMA OrderOnTheWay == ASSUME RunInv, [RunNext]_runVars PROVE FlowInv'
<1>1. TypeOK /\ FlowInv /\ errChan \in Nat
  BY DEF RunInv, TypeOK
<1>2. ASSUME NEW s \in Streams
      PROVE  /\ PipeInv(s) /\ stream[s].taken \in Nat
             /\ stream[s].copier \in {"read", "write", "done", "failed"}
             /\ stream[s].reader \in {"scan", "send", "error", "done"}
  BY <1>1 DEF RunInv, TypeOK, StreamState
<1>3. ASSUME UNCHANGED <<stream, Sent>>, Flowing' => Flowing, errChan' = 0 => errChan = 0
      PROVE  FlowInv'
  BY <1>2, <1>3, FlowKept DEF Handed
<1>4. ASSUME NEW s \in Streams, OnlyStreams, NEW printed,
             NEW taken, NEW copier, NEW reader,
             StreamBecomes(s, printed, taken, copier, reader),
             taken \in Nat, stream[s].taken <= taken,
             reader = "scan" => stream[s].reader = "scan" /\ Handed(s)' = Handed(s),
             reader = "send" => \/ stream[s].reader = "send" /\ Handed(s)' = Handed(s)
                                \/ stream[s].reader = "scan" /\ Handed(s)' - 1 = Handed(s),
             reader = "done" /\ errChan = 0 =>
                 \/ stream[s].reader = "done" /\ taken = stream[s].taken
                 \/ stream[s].reader = "scan" /\ taken = Handed(s)
      PROVE  FlowInv'
  <2>1. UNCHANGED <<file, partial, logChan, errChan, writer, main>>
    BY <1>4 DEF OnlyStreams, logFileVars
  <2>2. Sent' = Sent /\ Flowing' = Flowing
    BY <2>1 DEF Sent, InHand, Flowing
  <2>3. ASSUME NEW t \in Streams, t # s
        PROVE  stream'[t] = stream[t] /\ Handed(t)' = Handed(t)
    BY <1>4, <2>3 DEF StreamBecomes, Handed
  <2> QED
    BY <1>2, <1>4, <2>1, <2>2, <2>3, FlowKept DEF StreamBecomes
<1>5. CASE CommandStep
  <2>1. CASE \E endings \in SUBSET Endings : CommandEnds(endings)
    BY <1>3, <2>1 DEF CommandEnds, logFileVars, Sent, InHand, Flowing
  <2>2. CASE \E s \in Streams : PrintLine(s)
    <3>1. PICK s \in Streams : PrintLine(s)
      BY <2>2
    <3>2. StreamBecomes(s, stream[s].printed + 1, stream[s].taken, stream[s].copier,
                        stream[s].reader)
      BY <1>1, <3>1, StreamSteps
    <3>3. OnlyStreams /\ Handed(s)' = Handed(s)
      BY <3>1, <3>2 DEF PrintLine, StreamBecomes, Handed
    <3> QED
      BY <1>2, <1>4, <3>2, <3>3
  <2> QED
    BY <1>5, <2>1, <2>2 DEF CommandStep, CommandExits, PrintBreaks, Endings
<1>6. ASSUME NEW s \in Streams, CopierTakes(s) PROVE FlowInv'
  <2>1. StreamBecomes(s, stream[s].printed, stream[s].taken + 1, "write", stream[s].reader)
    BY <1>1, <1>6, StreamSteps
  <2>2. OnlyStreams /\ stream[s].copier = "read" /\ Handed(s)' = Handed(s)
    BY <1>2, <1>6, <2>1 DEF CopierTakes, StreamBecomes, Handed
  <2>3. ~(stream[s].reader = "done" /\ errChan = 0)
    BY <1>2, <2>2 DEF PipeInv
  <2> QED
    BY <1>2, <1>4, <2>1, <2>2, <2>3
<1>7. ASSUME NEW s \in Streams, CopierEnds(s) PROVE FlowInv'
  <2>1. StreamBecomes(s, stream[s].printed, stream[s].taken, "done", stream[s].reader)
    BY <1>1, <1>7, StreamSteps
  <2>2. OnlyStreams /\ Handed(s)' = Handed(s)
    BY <1>7, <2>1 DEF CopierEnds, StreamBecomes, Handed
  <2> QED
    BY <1>2, <1>4, <2>1, <2>2
<1>8. ASSUME NEW s \in Streams, CopierFails(s) PROVE FlowInv'
  <2>1. StreamBecomes(s, stream[s].printed, stream[s].taken, "failed", stream[s].reader)
    BY <1>1, <1>8, StreamSteps
  <2>2. OnlyStreams /\ stream[s].reader = "done"
    BY <1>8 DEF CopierFails
  <2> QED
    BY <1>2, <1>4, <2>1, <2>2
<1>9. ASSUME NEW s \in Streams, ScanLine(s) PROVE FlowInv'
  <2>1. StreamBecomes(s, stream[s].printed, stream[s].taken, "read", "send")
    BY <1>1, <1>9, StreamSteps
  <2>2. OnlyStreams /\ stream[s].copier = "write" /\ stream[s].reader = "scan"
    BY <1>9 DEF ScanLine, Offered
  <2>3. Handed(s)' - 1 = Handed(s)
    BY <1>2, <2>1, <2>2 DEF StreamBecomes, Handed
  <2> QED
    BY <1>2, <1>4, <2>1, <2>2, <2>3
<1>10. ASSUME NEW s \in Streams, ScanFails(s) PROVE FlowInv'
  <2>1. PICK rest \in {"read", "write"} :
            StreamBecomes(s, stream[s].printed, stream[s].taken, rest, "error")
    BY <1>1, <1>10, StreamSteps
  <2>2. OnlyStreams
    BY <1>10 DEF ScanFails
  <2> QED
    BY <1>2, <1>4, <2>1, <2>2
<1>11. ASSUME NEW s \in Streams, ScanEnds(s) PROVE FlowInv'
  <2>1. StreamBecomes(s, stream[s].printed, stream[s].taken, stream[s].copier, "done")
    BY <1>1, <1>11, StreamSteps
  <2>2. OnlyStreams /\ stream[s].reader = "scan" /\ main = "readers"
    BY <1>11 DEF ScanEnds
  <2>3. stream[s].taken = Handed(s)
    BY <1>2, <2>2 DEF PipeInv, Handed
  <2> QED
    BY <1>2, <1>4, <2>1, <2>2, <2>3
<1>12. ASSUME NEW s \in Streams, SendLine(s) PROVE FlowInv'
  <2>1. Flowing' = Flowing
    BY <1>12 DEF SendLine, Send, Flowing
  <2>2. \A t \in Streams : stream'[t].taken = stream[t].taken
    BY <1>1, <1>12, StreamSteps DEF StreamBecomes
  <2> QED
    BY <1>12, <2>1, <2>2, SendInOrder DEF FlowInv
<1>13. ASSUME NEW s \in Streams, SendReadError(s) PROVE FlowInv'
  <2>1. StreamBecomes(s, stream[s].printed, stream[s].taken, stream[s].copier, "done")
    BY <1>1, <1>13, StreamSteps
  <2>2. UNCHANGED <<file, partial, logChan, writer, main>> /\ errChan' = errChan + 1
    BY <1>13 DEF SendReadError, SendErrors, logFileVars
  <2>3. Sent' = Sent /\ (Flowing' => Flowing) /\ errChan' # 0
    BY <1>1, <2>2 DEF Sent, InHand, Flowing
  <2>4. ASSUME NEW t \in Streams, t # s
        PROVE  stream'[t] = stream[t] /\ Handed(t)' = Handed(t)
    BY <2>1, <2>4 DEF StreamBecomes, Handed
  <2> QED
    BY <1>2, <2>1, <2>3, <2>4, FlowKept DEF StreamBecomes
<1>14. CASE ReceiveLine
  <2>1. /\ partial = NoLine /\ logChan # <<>> /\ partial' = Head(logChan)
        /\ logChan' = Tail(logChan)
        /\ UNCHANGED <<file, stream, errChan, writer, main>>
    BY <1>14 DEF ReceiveLine, BeginLine
  <2>2. file \in Seq(Line) /\ logChan \in Seq(Line)
    BY <1>1 DEF TypeOK, Line
  <2>3. Head(logChan) # NoLine
    BY <2>1, <2>2, HeadTailProperties, LineIsSome
  <2>4. (file \o <<>>) \o logChan = (file \o <<Head(logChan)>>) \o Tail(logChan)
    BY <2>1, <2>2, SentMoves
  <2>5. Sent' = Sent
    BY <2>1, <2>3, <2>4 DEF Sent, InHand
  <2> QED
    BY <1>3, <2>1, <2>5 DEF Flowing
<1>15. CASE LogLine
  <2>1. /\ partial # NoLine /\ partial' = NoLine
        /\ file' = Append(file, partial)
        /\ UNCHANGED <<logChan, stream, errChan, writer, main>>
    BY <1>15 DEF LogLine, EndLine
  <2>2. file \in Seq(Line) /\ logChan \in Seq(Line) /\ partial \in Line
    BY <1>1, <2>1 DEF TypeOK, Line
  <2>3. (file \o <<partial>>) \o logChan = (Append(file, partial) \o <<>>) \o logChan
    BY <2>2, SentMoves
  <2>4. Sent' = Sent
    BY <2>1, <2>3 DEF Sent, InHand
  <2> QED
    BY <1>3, <2>1, <2>4 DEF Flowing
<1>16. CASE LogLineFails \/ SendWriteError \/ WaitPanics \/ BuilderKilled
  <2>1. ~Flowing'
    BY <1>1, <1>16 DEF Flowing, LogLineFails, SendWriteError, WaitPanics, BuilderKilled
  <2> QED
    BY <2>1 DEF FlowInv
<1>17. CASE \/ WriterEnds \/ StartCommand \/ StartFails \/ WaitReturns \/ ReadersDone
            \/ WriterDone
  <2>1. UNCHANGED <<stream, logChan, errChan, file, partial>>
    BY <1>17 DEF WriterEnds, StartCommand, StartFails, WaitReturns, ReadersDone, WriterDone,
                 OnlyMain, logFileVars
  <2>2. Flowing' => Flowing
    BY <1>17 DEF WriterEnds, StartCommand, StartFails, WaitReturns, WaitDone, ReadersDone,
                 WriterDone, OnlyMain, Flowing
  <2> QED
    BY <1>3, <2>1, <2>2 DEF Sent, InHand
<1>18. CASE UNCHANGED runVars
  BY <1>3, <1>18 DEF runVars, logFileVars, Sent, InHand, Flowing
<1> QED
  BY <1>5, <1>6, <1>7, <1>8, <1>9, <1>10, <1>11, <1>12, <1>13, <1>14, <1>15, <1>16, <1>17, <1>18
     DEF RunNext, CopierStep, ReaderStep, WriterStep, MainStep

(***************************************************************************)
(* Every step keeps what is in the log file in order: only the writer adds *)
(* to it, and what it adds comes next of what was sent.                    *)
(***************************************************************************)
LEMMA OrderInFile == ASSUME RunInv, [RunNext]_runVars PROVE LoggedInOrder'
<1>1. TypeOK /\ LoggedInOrder
  BY DEF RunInv
<1>2. file \in Seq(Line) /\ logChan \in Seq(Line) /\ InHand \in Seq(Line)
  BY <1>1, SentTyped DEF TypeOK, Line
<1>3. DOMAIN file = 1..Len(file) /\ \A i \in DOMAIN file : file[i][1] \in Streams
  BY <1>2, LenProperties DEF Line
<1>4. ASSUME NEW s \in Streams
      PROVE  stream[s].printed \in Nat /\ stream[s].taken \in Nat /\ PipeInv(s)
  BY <1>1 DEF RunInv, TypeOK, StreamState
<1>5. CASE /\ UNCHANGED file
           /\ \A s \in Streams : stream'[s].printed \in Nat /\ stream[s].printed <= stream'[s].printed
  <2>1. \A i \in DOMAIN file : file[i][2] \in 1..stream'[file[i][1]].printed
    BY <1>1, <1>3, <1>4, <1>5 DEF LoggedInOrder
  <2> QED
    BY <1>1, <1>5, <2>1 DEF LoggedInOrder
<1>6. CASE Alive /\ LogLine
  <2>1. /\ Flowing /\ UNCHANGED stream
        /\ partial \in Line /\ file' = Append(file, partial)
        /\ file' = file \o InHand
    <3>1. /\ writer = "write" /\ partial # NoLine /\ file' = Append(file, partial)
          /\ UNCHANGED stream
      BY <1>6 DEF LogLine, EndLine
    <3>2. partial \in Line
      BY <1>1, <3>1 DEF TypeOK, Line
    <3>3. Append(file, partial) = file \o <<partial>>
      BY <1>2, <3>2, AppendIsConcat
    <3> QED
      BY <1>6, <3>1, <3>2, <3>3 DEF Flowing, Alive, Ended, InHand
  <2>2. InOrder(Sent) /\ \A s \in Streams : \E k \in 0..stream[s].taken : SentUpTo(s, k)
    BY <2>1 DEF RunInv, FlowInv
  <2>3. file' \in Seq(Line) /\ Sent = file' \o logChan
    BY <1>2, <2>1, AppendProperties DEF Sent
  <2>4. /\ InOrder(file')
        /\ \A i \in DOMAIN file' : i \in DOMAIN Sent /\ Sent[i] = file'[i]
    BY <1>2, <2>2, <2>3, FirstInOrder
  <2>5. ASSUME NEW i \in DOMAIN file' PROVE file'[i][2] \in 1..stream[file'[i][1]].printed
    <3>1. PICK s \in Streams : file'[i][1] = s
      BY <2>3, LenProperties DEF Line
    <3>2. PICK k \in 0..stream[s].taken : HoldsUpTo(Sent, s, k)
      BY <2>2 DEF SentUpTo
    <3>3. file'[i][2] \in 1..k
      BY <2>4, <3>1, <3>2 DEF HoldsUpTo
    <3>4. k \in Nat /\ k <= stream[s].printed
      BY <1>4, <3>2 DEF PipeInv
    <3> QED
      BY <1>4, <3>1, <3>3, <3>4
  <2> QED
    BY <2>1, <2>4, <2>5 DEF LoggedInOrder
<1>7. ASSUME UNCHANGED <<file, stream>> PROVE LoggedInOrder'
  BY <1>4, <1>5, <1>7
<1>8. CASE CommandStep
  <2>1. CASE \E endings \in SUBSET Endings : CommandEnds(endings)
    BY <1>7, <2>1 DEF CommandEnds, logFileVars
  <2>2. CASE \E s \in Streams : PrintLine(s)
    <3>1. PICK s \in Streams : PrintLine(s)
      BY <2>2
    <3>2. StreamBecomes(s, stream[s].printed + 1, stream[s].taken, stream[s].copier,
                        stream[s].reader)
      BY <1>1, <3>1, StreamSteps
    <3>3. file' = file
      BY <3>1 DEF PrintLine, OnlyStreams, logFileVars
    <3> QED
      BY <1>4, <1>5, <3>2, <3>3 DEF StreamBecomes
  <2> QED
    BY <1>8, <2>1, <2>2 DEF CommandStep, CommandExits, PrintBreaks, Endings
<1>9. ASSUME NEW s \in Streams, CopierStep(s) \/ ReaderStep(s) PROVE LoggedInOrder'
  <2>1. file' = file
    BY <1>9 DEF CopierStep, CopierTakes, CopierEnds, CopierFails, ReaderStep, ScanLine, ScanFails,
                ScanEnds, SendLine, Send, SendReadError, SendErrors, OnlyStreams, logFileVars
  <2>2. \A t \in Streams : stream'[t].printed = stream[t].printed
    BY <1>1, <1>9, StreamSteps DEF CopierStep, ReaderStep, StreamBecomes
  <2> QED
    BY <1>4, <1>5, <2>1, <2>2
<1>10. CASE ReceiveLine \/ LogLineFails \/ SendWriteError \/ WriterEnds
  BY <1>7, <1>10 DEF ReceiveLine, BeginLine, LogLineFails, CutLine, SendWriteError, WriterEnds,
                     logFileVars
<1>11. CASE MainStep \/ BuilderKilled
  BY <1>7, <1>11 DEF MainStep, StartCommand, StartFails, WaitReturns, WaitPanics, ReadersDone,
                     WriterDone, BuilderKilled, OnlyMain, CutLine, logFileVars
<1>12. CASE UNCHANGED runVars
  BY <1>7, <1>12 DEF runVars, logFileVars
<1> QED
  BY <1>6, <1>8, <1>9, <1>10, <1>11, <1>12 DEF RunNext, WriterStep

-----------------------------------------------------------------------------
(***************************************************************************)
(* errChan                                                                 *)
(***************************************************************************)

(***************************************************************************)
(* An error was sent by a reader that has ended, or by the writer when it  *)
(* had, and by each of them at most once.                                  *)
(***************************************************************************)
EndedReaders == {s \in Streams : stream[s].reader = "done"}

WriterErrors == IF writer \in {"signal", "done"} THEN 1 ELSE 0

ErrorsCounted == errChan <= Cardinality(EndedReaders) + WriterErrors

(***************************************************************************)
(* How many readers have ended: one more when one ends.                    *)
(***************************************************************************)
LEMMA ReadersCounted ==
    ASSUME TypeOK
    PROVE  /\ Cardinality(EndedReaders) \in Nat
           /\ \A s \in Streams : stream[s].reader # "done" =>
                 Cardinality(EndedReaders \cup {s}) = Cardinality(EndedReaders) + 1
           /\ \A s \in Streams : stream[s].reader # "done" =>
                 Cardinality(EndedReaders) < Cardinality(Streams)
<1>1. IsFiniteSet(Streams) /\ EndedReaders \subseteq Streams
  BY RunAssumption DEF EndedReaders
<1>2. IsFiniteSet(EndedReaders)
  BY <1>1, FS_Subset
<1>3. Cardinality(EndedReaders) \in Nat
  BY <1>2, FS_CardinalityType
<1>4. ASSUME NEW s \in Streams, stream[s].reader # "done"
      PROVE  /\ Cardinality(EndedReaders \cup {s}) = Cardinality(EndedReaders) + 1
             /\ Cardinality(EndedReaders) < Cardinality(Streams)
  <2>1. s \notin EndedReaders
    BY <1>4 DEF EndedReaders
  <2>2. Cardinality(EndedReaders \cup {s}) = Cardinality(EndedReaders) + 1
    BY <1>2, <2>1, FS_AddElement
  <2>3. EndedReaders \cup {s} \subseteq Streams
    BY <1>1
  <2>4. Cardinality(EndedReaders \cup {s}) <= Cardinality(Streams) /\ Cardinality(Streams) \in Nat
    BY <1>1, <2>3, FS_Subset, FS_CardinalityType
  <2> QED
    BY <1>3, <2>2, <2>4
<1> QED
  BY <1>3, <1>4

(***************************************************************************)
(* Every step keeps the count: a reader that sends an error ends with it,  *)
(* and so does the writer.                                                 *)
(***************************************************************************)
LEMMA ErrorsCountedNext == ASSUME TypeOK, ErrorsCounted, [RunNext]_runVars PROVE ErrorsCounted'
<1>1. errChan \in Nat
  BY RunAssumption DEF TypeOK
<1>2. Cardinality(EndedReaders) \in Nat
  BY ReadersCounted
<1>3. ASSUME UNCHANGED <<errChan, writer, EndedReaders>> PROVE ErrorsCounted'
  BY <1>3 DEF ErrorsCounted, WriterErrors
<1>4. ASSUME NEW s \in Streams, NEW printed, NEW taken, NEW copier, NEW reader,
             StreamBecomes(s, printed, taken, copier, reader),
             UNCHANGED <<errChan, writer>>,
             stream[s].reader = "done" <=> reader = "done"
      PROVE  ErrorsCounted'
  <2>1. EndedReaders' = EndedReaders
    BY <1>4 DEF EndedReaders, StreamBecomes
  <2> QED
    BY <1>3, <1>4, <2>1
<1>5. ASSUME NEW s \in Streams, NEW printed, NEW taken, NEW copier,
             StreamBecomes(s, printed, taken, copier, "done"),
             UNCHANGED writer,
             stream[s].reader # "done",
             errChan' \in {errChan, errChan + 1}
      PROVE  ErrorsCounted'
  <2>1. EndedReaders' = EndedReaders \cup {s}
    BY <1>5 DEF EndedReaders, StreamBecomes
  <2>2. Cardinality(EndedReaders') = Cardinality(EndedReaders) + 1
    BY <1>5, <2>1, ReadersCounted
  <2>3. WriterErrors' = WriterErrors /\ WriterErrors \in 0..1
    BY <1>5 DEF WriterErrors
  <2> QED
    BY <1>1, <1>2, <1>5, <2>2, <2>3 DEF ErrorsCounted
<1>6. CASE CommandStep
  <2>1. CASE \E endings \in SUBSET Endings : CommandEnds(endings)
    BY <1>3, <2>1 DEF CommandEnds, EndedReaders
  <2>2. CASE \E s \in Streams : PrintLine(s)
    <3>1. PICK s \in Streams : PrintLine(s)
      BY <2>2
    <3>2. StreamBecomes(s, stream[s].printed + 1, stream[s].taken, stream[s].copier,
                        stream[s].reader)
      BY <3>1, StreamSteps
    <3> QED
      BY <1>4, <3>1, <3>2 DEF PrintLine, OnlyStreams
  <2> QED
    BY <1>6, <2>1, <2>2 DEF CommandStep, CommandExits, PrintBreaks, Endings
<1>7. ASSUME NEW s \in Streams, CopierStep(s) PROVE ErrorsCounted'
  <2>1. UNCHANGED <<errChan, writer>>
    BY <1>7 DEF CopierStep, CopierTakes, CopierEnds, CopierFails, OnlyStreams
  <2>2. \E taken, copier :
           StreamBecomes(s, stream[s].printed, taken, copier, stream[s].reader)
    BY <1>7, StreamSteps DEF CopierStep
  <2> QED
    BY <1>4, <2>1, <2>2
<1>8. ASSUME NEW s \in Streams, ScanLine(s) \/ ScanFails(s) \/ SendLine(s) PROVE ErrorsCounted'
  <2>1. UNCHANGED <<errChan, writer>> /\ stream[s].reader # "done"
    BY <1>8 DEF ScanLine, ScanFails, SendLine, Send, Offered, OnlyStreams
  <2>2. \E copier, reader :
           /\ StreamBecomes(s, stream[s].printed, stream[s].taken, copier, reader)
           /\ reader # "done"
    <3>1. CASE ScanLine(s)
      BY <3>1, StreamSteps
    <3>2. CASE ScanFails(s)
      BY <3>2, StreamSteps
    <3>3. CASE SendLine(s)
      BY <3>3, StreamSteps
    <3> QED
      BY <1>8, <3>1, <3>2, <3>3
  <2> QED
    BY <1>4, <2>1, <2>2
<1>9. ASSUME NEW s \in Streams, ScanEnds(s) \/ SendReadError(s) PROVE ErrorsCounted'
  <2>1. UNCHANGED writer /\ stream[s].reader # "done" /\ errChan' \in {errChan, errChan + 1}
    BY <1>9 DEF ScanEnds, SendReadError, SendErrors, OnlyStreams
  <2>2. StreamBecomes(s, stream[s].printed, stream[s].taken, stream[s].copier, "done")
    BY <1>9, StreamSteps
  <2> QED
    BY <1>5, <2>1, <2>2
<1>10. CASE SendWriteError \/ WriterEnds
  <2>1. /\ EndedReaders' = EndedReaders /\ errChan' \in {errChan, errChan + 1}
        /\ WriterErrors = 0 /\ WriterErrors' = 1
    BY <1>10 DEF SendWriteError, WriterEnds, EndedReaders, WriterErrors
  <2> QED
    BY <1>1, <1>2, <2>1 DEF ErrorsCounted
<1>11. CASE ReceiveLine \/ LogLine \/ LogLineFails \/ WriterDone
  <2>1. UNCHANGED <<stream, errChan>> /\ WriterErrors' = WriterErrors
    BY <1>11 DEF ReceiveLine, LogLine, LogLineFails, WriterDone, WriterErrors
  <2> QED
    BY <2>1 DEF ErrorsCounted, EndedReaders
<1>12. CASE \/ StartCommand \/ StartFails \/ WaitReturns \/ WaitPanics \/ ReadersDone
            \/ BuilderKilled \/ UNCHANGED runVars
  BY <1>3, <1>12 DEF StartCommand, StartFails, WaitReturns, WaitPanics, ReadersDone,
                     BuilderKilled, OnlyMain, runVars, EndedReaders
<1> QED
  BY <1>6, <1>7, <1>8, <1>9, <1>10, <1>11, <1>12
     DEF RunNext, ReaderStep, WriterStep, MainStep

(***************************************************************************)
(* Who has an error has not sent it yet, so that errChan has room if it    *)
(* holds one error of each reader and one of the writer.                   *)
(***************************************************************************)
LEMMA CountLeavesRoom ==
    ASSUME TypeOK, ErrorsCounted, Cardinality(Streams) < ErrCap
    PROVE  ErrorsHaveRoom
<1>1. /\ errChan \in Nat /\ ErrCap \in Nat /\ Cardinality(Streams) \in Nat
      /\ Cardinality(EndedReaders) \in Nat
  BY RunAssumption, ReadersCounted, FS_CardinalityType DEF TypeOK
<1>2. Cardinality(EndedReaders) <= Cardinality(Streams)
  BY RunAssumption, FS_Subset DEF EndedReaders
<1>3. writer = "error" => errChan < ErrCap
  BY <1>1, <1>2 DEF ErrorsCounted, WriterErrors
<1>4. ASSUME NEW s \in Streams, stream[s].reader = "error" PROVE errChan < ErrCap
  <2>1. Cardinality(EndedReaders) < Cardinality(Streams)
    BY <1>4, ReadersCounted
  <2>2. WriterErrors \in 0..1
    BY DEF WriterErrors
  <2> QED
    BY <1>1, <2>1, <2>2 DEF ErrorsCounted
<1> QED
  BY <1>3, <1>4 DEF ErrorsHaveRoom

-----------------------------------------------------------------------------
(***************************************************************************)
(* RunInv                                                                  *)
(***************************************************************************)

(***************************************************************************)
(* Before the command is started nothing is printed or sent.               *)
(***************************************************************************)
LEMMA RunInvInit == RunInit => RunInv
<1> SUFFICES ASSUME RunInit PROVE RunInv
  OBVIOUS
<1>1. /\ command = "none" /\ main = "start" /\ writer = "write" /\ errChan = 0
      /\ logChan = <<>> /\ file = <<>> /\ partial = NoLine
  BY DEF RunInit, LogFileInit
<1>2. stream = [s \in Streams |-> [printed |-> 0, taken |-> 0,
                                   copier |-> "read", reader |-> "scan"]]
  BY DEF RunInit
<1>3. logChan \in Seq(Line) /\ Len(logChan) = 0 /\ file \in Seq(Line) /\ DOMAIN file = {}
  BY <1>1
<1>4. Sent = <<>>
  BY <1>1, ConcatEmptySeq DEF Sent, InHand
<1>5. TypeOK
  <2>1. stream \in [Streams -> StreamState]
    BY <1>2 DEF StreamState
  <2>2. errChan \in 0..ErrCap /\ Len(logChan) <= LogCap
    BY <1>1, <1>3, RunAssumption
  <2> QED
    BY <1>1, <1>3, <2>1, <2>2 DEF TypeOK, Line
<1>6. \A s \in Streams : PipeInv(s)
  BY <1>1, <1>2 DEF PipeInv, Handed
<1>7. WaitInv
  BY <1>1 DEF WaitInv
<1>8. FlowInv
  <2>1. \A s \in Streams : SentUpTo(s, 0) /\ 0 \in 0..stream[s].taken
    BY <1>2, <1>4 DEF SentUpTo, HoldsUpTo, Handed
  <2>2. InOrder(Sent)
    BY <1>4 DEF InOrder
  <2> QED
    BY <2>1, <2>2 DEF FlowInv
<1>9. LoggedInOrder
  BY <1>3 DEF LoggedInOrder, InOrder
<1> QED
  BY <1>5, <1>6, <1>7, <1>8, <1>9 DEF RunInv

(***************************************************************************)
(* RunInv is inductive.                                                    *)
(***************************************************************************)
LEMMA RunInvNext == RunInv /\ [RunNext]_runVars => RunInv'
<1> SUFFICES ASSUME RunInv, [RunNext]_runVars PROVE RunInv'
  OBVIOUS
<1>1. TypeOK'
  BY RunTyped DEF RunInv
<1>2. \A s \in Streams : PipeInv(s)'
  BY PipesKept
<1>3. WaitInv' /\ FlowInv' /\ LoggedInOrder'
  BY WaitKept, OrderOnTheWay, OrderInFile
<1> QED
  BY <1>1, <1>2, <1>3 DEF RunInv

(***************************************************************************)
(* What RunInv is for: the log is complete when runAndLog returns without  *)
(* an error, and logChan is closed when no reader can send any more.       *)
(***************************************************************************)
LEMMA RunInvMeans == RunInv => LogComplete /\ NoSendOnClosed
<1> SUFFICES ASSUME RunInv PROVE LogComplete /\ NoSendOnClosed
  OBVIOUS
<1>1. NoSendOnClosed
  BY DEF RunInv, WaitInv, NoSendOnClosed
<1>2. ASSUME main = "returned", errChan = 0, NEW s \in Streams, NEW n \in 1..stream[s].printed
      PROVE  \E i \in DOMAIN file : file[i] = <<s, n>>
  <2>1. TypeOK /\ PipeInv(s) /\ WaitInv /\ FlowInv
    BY DEF RunInv
  <2>2. writer = "done" /\ partial = NoLine /\ logChan = <<>> /\ stream[s].reader = "done"
    BY <1>2, <2>1 DEF WaitInv, AllReadersDone
  <2>3. stream[s].taken = stream[s].printed
    BY <1>2, <2>1 DEF PipeInv
  <2>4. Sent = file
    <3>1. file \in Seq(Line)
      BY <2>1 DEF TypeOK, Line
    <3>2. file \o <<>> = file
      BY <3>1, ConcatEmptySeq
    <3> QED
      BY <2>2, <3>2 DEF Sent, InHand
  <2>5. PICK k \in 0..stream[s].taken : SentUpTo(s, k)
    BY <1>2, <2>1, <2>2 DEF FlowInv, Flowing
  <2>6. k = stream[s].printed
    BY <1>2, <2>2, <2>3, <2>5 DEF SentUpTo
  <2> QED
    BY <2>4, <2>5, <2>6 DEF SentUpTo, HoldsUpTo
<1>3. LogComplete
  BY <1>2 DEF LogComplete
<1> QED
  BY <1>1, <1>3
=============================================================================
