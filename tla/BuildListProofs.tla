--------------------------- MODULE BuildListProofs ---------------------------
(***************************************************************************)
(* Theorems about CreateBuild and the list of builds for every number of   *)
(* requests and repositories, every pool, page size and word.              *)
(***************************************************************************)
EXTENDS BuildList, FiniteSetTheorems, TLAPS

(***************************************************************************)
(* A request has content once its handler accepted it.                     *)
(***************************************************************************)
Accepted(q) == at[q] \notin {"arrives", "rejected"}

AcceptedAreWanted ==
    /\ DOMAIN request = Requests
    /\ \A q \in Requests :
          IF Accepted(q)
          THEN request[q] \in Contents[q] /\ Accepts(request[q])
          ELSE request[q] = NoRequest

(***************************************************************************)
(* The counter counts the calls whose transaction committed.               *)
(***************************************************************************)
Committed(q) == at[q] \in {"created", "unanswered"}

CreatedFor(r) == {q \in Requests : Committed(q) /\ RepoOf(q) = r}

CounterCounts ==
    \A r \in Configured : counter[r] = Cardinality(CreatedFor(r))

(***************************************************************************)
(* The row lock: one transaction at a time has updated the counter of a    *)
(* repository, and the counter is still the one it read.                   *)
(***************************************************************************)
LockKept ==
    \A q \in Requests :
        /\ at[q] \in {"insert", "commit"} => number[q] # 0
        /\ at[q] \in {"arrives", "begin", "update", "waiting"} => number[q] = 0
        /\ HoldsLock(q) =>
              /\ number[q] = counter[RepoOf(q)] + 1
              /\ \A other \in Requests :
                    HoldsLock(other) /\ RepoOf(other) = RepoOf(q) => other = q

CreationInv == TypeOK /\ AcceptedAreWanted /\ CounterCounts /\ LockKept

(***************************************************************************)
(* An accepted request is for a configured repository.                     *)
(***************************************************************************)
LEMMA AcceptedRepo ==
    ASSUME AcceptedAreWanted, NEW q \in Requests, Accepted(q)
    PROVE  RepoOf(q) \in Configured /\ request[q] \in Request
BY CreationAssumption DEF AcceptedAreWanted, Accepts, AcceptsGitHub, AcceptsManual, RepoOf

(***************************************************************************)
(* Before the first request nothing is counted or locked.                  *)
(***************************************************************************)
LEMMA CreationInvInit == CreationInit => CreationInv
<1> SUFFICES ASSUME CreationInit PROVE CreationInv
  OBVIOUS
<1>1. Cardinality(Requests) \in Nat
  BY CreationAssumption, FS_CardinalityType
<1>2. TypeOK
  BY <1>1, CreationAssumption DEF CreationInit, TypeOK, Places
<1>3. \A r \in Configured : CreatedFor(r) = {}
  BY DEF CreationInit, CreatedFor, Committed
<1>4. CounterCounts
  BY <1>3, FS_EmptySet DEF CreationInit, CounterCounts
<1> QED
  BY <1>2, <1>4 DEF CreationInit, CreationInv, AcceptedAreWanted, Accepted, LockKept, HoldsLock

(***************************************************************************)
(* A call works with the number after those of the calls that committed,   *)
(* and it is not yet one of them.                                          *)
(***************************************************************************)
LEMMA NextNumberTyped ==
    ASSUME CreationInv, NEW q \in Requests, Accepted(q), ~Committed(q)
    PROVE  counter[RepoOf(q)] + 1 \in 1..Cardinality(Requests)
<1>1. RepoOf(q) \in Configured
  BY AcceptedRepo DEF CreationInv
<1>2. PICK C : C = CreatedFor(RepoOf(q))
  OBVIOUS
<1>3. C \subseteq Requests /\ q \notin C
  BY <1>2 DEF CreatedFor, Committed
<1>4. IsFiniteSet(C) /\ Cardinality(C) \in Nat /\ Cardinality(Requests) \in Nat
  BY <1>3, CreationAssumption, FS_Subset, FS_CardinalityType
<1>5. Cardinality(C \cup {q}) = Cardinality(C) + 1
  BY <1>3, <1>4, FS_AddElement
<1>6. Cardinality(C \cup {q}) <= Cardinality(Requests)
  BY <1>3, CreationAssumption, FS_Subset
<1>7. counter[RepoOf(q)] = Cardinality(C)
  BY <1>1, <1>2 DEF CreationInv, CounterCounts
<1> QED
  BY <1>4, <1>5, <1>6, <1>7

(***************************************************************************)
(* The calls of CreateBuild keep CreationInv.                              *)
(***************************************************************************)
LEMMA CreationInvStep ==
    ASSUME CreationInv, NEW q \in Requests, Step(q) \/ CancelOrFail(q)
    PROVE  CreationInv'
<1>1. TypeOK /\ AcceptedAreWanted /\ CounterCounts /\ LockKept
  BY DEF CreationInv
<1>2. Accepted(q) => RepoOf(q) \in Configured
  BY <1>1, AcceptedRepo
<1>3. Accepted(q) /\ ~Committed(q) => counter[RepoOf(q)] + 1 \in 1..Cardinality(Requests)
  BY NextNumberTyped
<1>0. Cardinality(Requests) \in Nat
  BY CreationAssumption, FS_CardinalityType
<1>4. CASE Handle(q)
  <2>1. PICK content \in Contents[q] :
          IF Accepts(content)
          THEN /\ request' = [request EXCEPT ![q] = content]
               /\ Goto(q, "begin")
          ELSE Goto(q, "rejected") /\ UNCHANGED request
    BY <1>4 DEF Handle
  <2>2. at[q] = "arrives" /\ UNCHANGED <<counter, rows, number, faults>>
    BY <1>4 DEF Handle
  <2>3. TypeOK'
    BY <1>1, <2>1, <2>2 DEF TypeOK, Goto, Places, AcceptedAreWanted
  <2>4. AcceptedAreWanted'
    BY <1>1, <2>1, <2>2 DEF TypeOK, AcceptedAreWanted, Accepted, Goto
  <2>5. \A o \in Requests : o # q => at'[o] = at[o] /\ RepoOf(o)' = RepoOf(o)
    BY <1>1, <2>1 DEF TypeOK, Goto, RepoOf, AcceptedAreWanted
  <2>6. at'[q] \in {"begin", "rejected"}
    BY <1>1, <2>1 DEF TypeOK, Goto
  <2>7. \A r \in Configured : CreatedFor(r)' = CreatedFor(r)
    BY <2>2, <2>5, <2>6 DEF CreatedFor, Committed
  <2>8. CounterCounts'
    BY <1>1, <2>2, <2>7 DEF CounterCounts
  <2>9. LockKept'
    BY <1>1, <2>2, <2>5, <2>6 DEF LockKept, HoldsLock
  <2> QED
    BY <2>3, <2>4, <2>8, <2>9 DEF CreationInv
<1>5. ASSUME NEW place \in Places \ {"arrives", "rejected", "created", "unanswered"}, Accepted(q),
             ~Committed(q), Goto(q, place), UNCHANGED <<request, counter>>,
             \/ UNCHANGED rows
             \/ /\ number[q] # 0
                /\ rows' = Append(rows, [repo |-> RepoOf(q), by |-> q, number |-> number[q]]),
             \/ UNCHANGED number
             \/ number' = [number EXCEPT ![q] = counter[RepoOf(q)] + 1],
             faults' \in 0..MaxFaults,
             LockKept'
      PROVE  CreationInv'
  <2>1. \A o \in Requests : RepoOf(o)' = RepoOf(o)
    BY <1>5 DEF RepoOf
  <2>2. \A o \in Requests : at'[o] = IF o = q THEN place ELSE at[o]
    BY <1>1, <1>5 DEF TypeOK, Goto
  <2>3. TypeOK'
    <3>1. rows' \in Seq([repo : Configured, by : Requests, number : 1..Cardinality(Requests)])
      <4>1. CASE UNCHANGED rows
        BY <1>1, <4>1 DEF TypeOK
      <4>2. CASE number[q] # 0 /\ rows' = Append(rows, [repo |-> RepoOf(q), by |-> q, number |-> number[q]])
        <5>1. number[q] \in 1..Cardinality(Requests)
          BY <1>0, <1>1, <4>2 DEF TypeOK
        <5> DEFINE row == [repo |-> RepoOf(q), by |-> q, number |-> number[q]]
        <5>2. row \in [repo : Configured, by : Requests, number : 1..Cardinality(Requests)]
          BY <1>2, <1>5, <5>1
        <5> HIDE DEF row
        <5>3. rows' = Append(rows, row)
          BY <4>2 DEF row
        <5> QED
          BY <1>1, <5>2, <5>3 DEF TypeOK
      <4> QED
        BY <1>5, <4>1, <4>2
    <3>2. number' \in [Requests -> 0..Cardinality(Requests)]
      BY <1>0, <1>1, <1>3, <1>5 DEF TypeOK
    <3> QED
      BY <1>1, <1>5, <3>1, <3>2 DEF TypeOK, Goto
  <2>4. AcceptedAreWanted'
    BY <1>1, <1>5, <2>2 DEF AcceptedAreWanted, Accepted
  <2>5. \A r \in Configured : CreatedFor(r)' = CreatedFor(r)
    BY <1>5, <2>1, <2>2 DEF CreatedFor, Committed
  <2>6. CounterCounts'
    BY <1>1, <1>5, <2>5 DEF CounterCounts
  <2> QED
    BY <1>5, <2>3, <2>4, <2>6 DEF CreationInv
<1>6. faults \in 0..MaxFaults /\ number \in [Requests -> 0..Cardinality(Requests)]
      /\ at \in [Requests -> Places]
  BY <1>1 DEF TypeOK
<1>7. ASSUME NEW place \in Places \ {"arrives", "rejected", "created", "unanswered"},
             at[q] \notin {"arrives", "rejected", "created", "unanswered"},
             Goto(q, place), UNCHANGED <<request, counter, number>>,
             place \in {"begin", "update", "waiting"} => number[q] = 0,
             place \in {"insert", "commit"} => number[q] # 0,
             place \in {"insert", "commit", "rollback"} /\ number[q] # 0 => HoldsLock(q)
      PROVE  LockKept'
  <2>1. \A o \in Requests : at'[o] = IF o = q THEN place ELSE at[o]
    BY <1>6, <1>7 DEF Goto
  <2>2. \A o \in Requests : RepoOf(o)' = RepoOf(o) /\ (HoldsLock(o)' => HoldsLock(o))
    BY <1>7, <2>1 DEF RepoOf, HoldsLock
  <2>3. \A o \in Requests : HoldsLock(o)' =>
           /\ number'[o] = counter'[RepoOf(o)'] + 1
           /\ \A other \in Requests :
                 HoldsLock(other)' /\ RepoOf(other)' = RepoOf(o)' => other = o
    BY <1>1, <1>7, <2>2 DEF LockKept
  <2> QED
    BY <1>1, <1>7, <2>1, <2>3 DEF LockKept
<1>8. CASE BeginTx(q) \/ WaitForLock(q)
  <2>1. number[q] = 0
    BY <1>1, <1>8 DEF LockKept, BeginTx, WaitForLock
  <2>2. LockKept'
    BY <1>7, <1>8, <2>1 DEF BeginTx, WaitForLock, OnlyAt, Places
  <2> QED
    BY <1>5, <1>6, <1>8, <2>2 DEF BeginTx, WaitForLock, OnlyAt, Places, Accepted, Committed
<1>9. CASE UpdateCounter(q)
  <2>1. /\ at[q] \in {"update", "waiting"} /\ ~Locked(RepoOf(q))
        /\ number' = [number EXCEPT ![q] = counter[RepoOf(q)] + 1]
        /\ Goto(q, "insert")
        /\ UNCHANGED <<request, counter, rows, faults>>
    BY <1>9 DEF UpdateCounter
  <2>2. counter[RepoOf(q)] + 1 \in Nat \ {0}
    BY <1>0, <1>3, <2>1 DEF Accepted, Committed
  <2>3. \A o \in Requests : /\ at'[o] = IF o = q THEN "insert" ELSE at[o]
                            /\ number'[o] = IF o = q THEN counter[RepoOf(q)] + 1 ELSE number[o]
                            /\ RepoOf(o)' = RepoOf(o)
    BY <1>6, <2>1 DEF Goto, RepoOf
  <2>4. \A o \in Requests : HoldsLock(o)' => o = q \/ HoldsLock(o)
    BY <2>3 DEF HoldsLock
  <2>5. \A o \in Requests \ {q} : HoldsLock(o) => RepoOf(o) # RepoOf(q)
    BY <2>1 DEF Locked
  <2>6. \A o \in Requests : HoldsLock(o)' =>
           /\ number'[o] = counter'[RepoOf(o)'] + 1
           /\ \A other \in Requests :
                 HoldsLock(other)' /\ RepoOf(other)' = RepoOf(o)' => other = o
    BY <1>1, <2>1, <2>3, <2>4, <2>5 DEF LockKept
  <2>7. LockKept'
    BY <1>1, <2>2, <2>3, <2>6 DEF LockKept
  <2> QED
    BY <1>5, <1>6, <2>1, <2>7 DEF Places, Accepted, Committed
<1>10. CASE InsertBuild(q) \/ InsertFails(q)
  <2>1. at[q] = "insert" /\ number[q] # 0 /\ HoldsLock(q)
    BY <1>1, <1>10 DEF LockKept, InsertBuild, InsertFails, CanInsert, HoldsLock
  <2>2. LockKept'
    BY <1>7, <1>10, <2>1 DEF InsertBuild, InsertFails, Insert, OnlyAt, Places
  <2> QED
    BY <1>5, <1>6, <1>10, <2>1, <2>2 DEF InsertBuild, InsertFails, Insert, OnlyAt, Places, Accepted,
       Committed
<1>11. CASE Rollback(q) \/ CancelCall(q)
  <2>1. LockKept'
    BY <1>7, <1>11 DEF Rollback, CancelCall, OnlyAt, Places, Done
  <2>2. faults' \in 0..MaxFaults
    BY <1>6, <1>11, CreationAssumption DEF Rollback, CancelCall, OnlyAt
  <2> QED
    BY <1>5, <1>6, <1>11, <2>1, <2>2 DEF Rollback, CancelCall, OnlyAt, Places, Accepted,
       Done, Committed
<1>12. CASE Commit(q) \/ CommitUnanswered(q)
  <2>0. PICK answer \in {"created", "unanswered"} : CommitNumber(q, number[q], answer)
    BY <1>12 DEF Commit, CommitUnanswered
  <2>1. /\ at[q] = "commit"
        /\ counter' = [counter EXCEPT ![RepoOf(q)] = number[q]]
        /\ at' = [other \in Requests |->
                    IF other = q THEN answer
                    ELSE IF at[other] = "waiting" /\ RepoOf(other) = RepoOf(q)
                         THEN "rollback" ELSE at[other]]
        /\ UNCHANGED <<request, rows, number>>
    BY <2>0 DEF CommitNumber
  <2>14. faults' \in 0..MaxFaults
    BY <1>6, <1>12, CreationAssumption DEF Commit, CommitUnanswered
  <2>2. RepoOf(q) \in Configured /\ HoldsLock(q) /\ number[q] = counter[RepoOf(q)] + 1
    BY <1>1, <1>2, <2>1 DEF Accepted, LockKept, HoldsLock
  <2>3. TypeOK'
    BY <1>1, <2>1, <2>2, <2>14 DEF TypeOK, Places
  <2>4. AcceptedAreWanted'
    BY <1>1, <2>1 DEF AcceptedAreWanted, Accepted
  <2>5. \A o \in Requests : RepoOf(o)' = RepoOf(o)
    BY <2>1 DEF RepoOf
  <2>6. \A r \in Configured : CreatedFor(r)' = IF r = RepoOf(q) THEN CreatedFor(r) \cup {q}
                                               ELSE CreatedFor(r)
    BY <2>1, <2>5 DEF CreatedFor, Committed
  <2>7. q \notin CreatedFor(RepoOf(q)) /\ IsFiniteSet(CreatedFor(RepoOf(q)))
    BY <2>1, CreationAssumption, FS_Subset DEF CreatedFor, Committed
  <2>8. Cardinality(CreatedFor(RepoOf(q)) \cup {q}) = Cardinality(CreatedFor(RepoOf(q))) + 1
    BY <2>7, FS_AddElement
  <2>9. CounterCounts'
    BY <1>1, <2>1, <2>2, <2>6, <2>8 DEF TypeOK, CounterCounts
  <2>10. \A o \in Requests : HoldsLock(o)' => o # q /\ HoldsLock(o)
    BY <1>1, <2>1 DEF HoldsLock, LockKept
  <2>11. \A o \in Requests : HoldsLock(o)' => RepoOf(o) # RepoOf(q) /\ RepoOf(o) \in Configured
    BY <1>1, <2>2, <2>10, AcceptedRepo DEF LockKept, HoldsLock, Accepted
  <2>12. \A o \in Requests : HoldsLock(o)' =>
           /\ number'[o] = counter'[RepoOf(o)'] + 1
           /\ \A other \in Requests :
                 HoldsLock(other)' /\ RepoOf(other)' = RepoOf(o)' => other = o
    BY <1>1, <2>1, <2>5, <2>10, <2>11 DEF LockKept, TypeOK
  <2>13. LockKept'
    BY <1>1, <2>1, <2>12 DEF LockKept
  <2> QED
    BY <2>3, <2>4, <2>9, <2>13 DEF CreationInv
<1> QED
  BY <1>4, <1>8, <1>9, <1>10, <1>11, <1>12 DEF Step, CancelOrFail

-----------------------------------------------------------------------------
(***************************************************************************)
(* A build is there because of a call that inserted it, and has the number *)
(* that call got under the lock; the call may have failed since, but only  *)
(* through a fault.                                                        *)
(***************************************************************************)
RowsHaveMakers ==
    \A i \in DOMAIN rows :
        LET q == rows[i].by IN
        /\ rows[i].repo = RepoOf(q)
        /\ \/ at[q] \in {"commit", "created"}
           \/ at[q] \in {"unanswered", "failed"} /\ faults > 0

MakersHaveRows ==
    \A q \in Requests :
        /\ at[q] = "commit" \/ Committed(q) =>
              \E i \in DOMAIN rows : CreatedBy(q) = {i} /\ rows[i].number = number[q]
        /\ Committed(q) => number[q] <= counter[RepoOf(q)]

NumbersInRow ==
    /\ \A r \in Configured : Numbers(r) \in {1..counter[r], 1..(counter[r] + 1)}
    /\ \A i, j \in DOMAIN rows :
          rows[i].repo = rows[j].repo /\ rows[i].number = rows[j].number => i = j

RowsInv == CreationInv /\ RowsHaveMakers /\ MakersHaveRows /\ NumbersInRow

(***************************************************************************)
(* What TypeOK says of one row, and of a row more.                         *)
(***************************************************************************)
LEMMA RowsTyped ==
    ASSUME CreationInv
    PROVE  /\ DOMAIN rows = 1..Len(rows) /\ Len(rows) \in Nat
           /\ \A i \in DOMAIN rows :
                 /\ rows[i].repo \in Configured /\ rows[i].by \in Requests
                 /\ rows[i].number \in Nat \ {0}
<1> DEFINE R == [repo : Configured, by : Requests, number : 1..Cardinality(Requests)]
<1>1. rows \in Seq(R)
  BY DEF CreationInv, TypeOK
<1> HIDE DEF R
<1>2. \A i \in DOMAIN rows : rows[i] \in R
  BY <1>1
<1> USE DEF R
<1>3. Cardinality(Requests) \in Nat
  BY CreationAssumption, FS_CardinalityType
<1> QED
  BY <1>1, <1>2, <1>3

(***************************************************************************)
(* Before the first request there is no build.                             *)
(***************************************************************************)
LEMMA RowsInit == CreationInit => RowsInv
<1> SUFFICES ASSUME CreationInit PROVE RowsInv
  OBVIOUS
<1>1. DOMAIN rows = {}
  BY DEF CreationInit
<1>2. \A r \in Configured : Numbers(r) = {} /\ counter[r] = 0
  BY <1>1 DEF Numbers, CreationInit
<1> QED
  BY <1>1, <1>2, CreationInvInit
     DEF CreationInit, RowsInv, RowsHaveMakers, MakersHaveRows, NumbersInRow, Committed

(***************************************************************************)
(* The INSERT adds the next number of its repository.                      *)
(***************************************************************************)
LEMMA RowsInsert ==
    ASSUME RowsInv, NEW q \in Requests, InsertBuild(q), CreationInv'
    PROVE  RowsInv'
<1>1. CreationInv /\ RowsHaveMakers /\ MakersHaveRows /\ NumbersInRow
  BY DEF RowsInv
<1>2. /\ at[q] = "insert" /\ number[q] \notin Numbers(RepoOf(q))
      /\ Goto(q, "commit")
      /\ UNCHANGED <<request, counter, number, faults>>
  BY DEF InsertBuild, CanInsert, Fits, Insert
<1>3. /\ RepoOf(q) \in Configured /\ number[q] # 0
      /\ number[q] = counter[RepoOf(q)] + 1
  BY <1>1, <1>2, AcceptedRepo DEF CreationInv, LockKept, HoldsLock, Accepted
<1>4. \A o \in Requests : at'[o] = IF o = q THEN "commit" ELSE at[o]
  BY <1>1, <1>2 DEF CreationInv, TypeOK, Goto
<1>5. /\ DOMAIN rows = 1..Len(rows) /\ Len(rows) \in Nat
      /\ DOMAIN rows' = DOMAIN rows \cup {Len(rows) + 1}
      /\ \A i \in DOMAIN rows : rows'[i] = rows[i]
      /\ rows'[Len(rows) + 1] = [repo |-> RepoOf(q), by |-> q, number |-> number[q]]
  BY <1>1, RowsTyped DEF InsertBuild, Insert
<1>6. \A o \in Requests : RepoOf(o)' = RepoOf(o)
  BY <1>2 DEF RepoOf
<1>7. PICK last : last = Len(rows) + 1
  OBVIOUS
<1>8. last \notin DOMAIN rows
  BY <1>5, <1>7
<1>9. RowsHaveMakers'
  BY <1>1, <1>2, <1>4, <1>5, <1>6, <1>7, RowsTyped DEF RowsHaveMakers
<1>10. CreatedBy(q) = {}
  BY <1>1, <1>2 DEF RowsHaveMakers, CreatedBy
<1>11. \A o \in Requests : CreatedBy(o)' = IF o = q THEN {last} ELSE CreatedBy(o)
  BY <1>5, <1>7, <1>8, <1>10 DEF CreatedBy
<1>12. MakersHaveRows'
  <2>1. \A o \in Requests \ {q} :
           at'[o] = "commit" \/ Committed(o)' =>
              \E i \in DOMAIN rows' : CreatedBy(o)' = {i} /\ rows'[i].number = number'[o]
    BY <1>1, <1>2, <1>4, <1>5, <1>11 DEF MakersHaveRows, Committed
  <2>2. CreatedBy(q)' = {last} /\ last \in DOMAIN rows' /\ rows'[last].number = number'[q]
    BY <1>2, <1>5, <1>7, <1>11
  <2>3. \A o \in Requests : Committed(o)' => number'[o] <= counter'[RepoOf(o)']
    BY <1>1, <1>2, <1>4, <1>6 DEF MakersHaveRows, Committed
  <2> QED
    BY <2>1, <2>2, <2>3 DEF MakersHaveRows
<1>13. \A r \in Configured : Numbers(r)' = IF r = RepoOf(q) THEN Numbers(r) \cup {number[q]}
                                           ELSE Numbers(r)
  BY <1>5, <1>7, <1>8 DEF Numbers
<1>14. \A r \in Configured : counter[r] \in Nat
  BY <1>1, CreationAssumption, FS_CardinalityType DEF CreationInv, TypeOK
<1>15. \A r \in Configured : Numbers(r)' \in {1..counter'[r], 1..(counter'[r] + 1)}
  <2> SUFFICES ASSUME NEW r \in Configured PROVE Numbers(r)' \in {1..counter[r], 1..(counter[r] + 1)}
    BY <1>2
  <2>1. CASE r = RepoOf(q)
    <3>1. Numbers(r) = 1..counter[r]
      BY <1>1, <1>2, <1>3, <1>14, <2>1 DEF NumbersInRow
    <3>2. (1..counter[r]) \cup {counter[r] + 1} = 1..(counter[r] + 1)
      BY <1>14
    <3> QED
      BY <1>3, <1>13, <2>1, <3>1, <3>2
  <2>2. CASE r # RepoOf(q)
    BY <1>1, <1>13, <2>2 DEF NumbersInRow
  <2> QED
    BY <2>1, <2>2
<1>16. \A i \in DOMAIN rows : rows[i].repo = RepoOf(q) => rows[i].number # number[q]
  BY <1>2 DEF Numbers
<1>17. \A i, j \in DOMAIN rows' :
          rows'[i].repo = rows'[j].repo /\ rows'[i].number = rows'[j].number => i = j
  BY <1>1, <1>5, <1>7, <1>16 DEF NumbersInRow
<1> QED
  BY <1>9, <1>12, <1>15, <1>17 DEF RowsInv, NumbersInRow

(***************************************************************************)
(* Every other step leaves the builds alone; a commit moves the counter up *)
(* to the build of its call.                                               *)
(***************************************************************************)
LEMMA RowsStep ==
    ASSUME RowsInv, NEW q \in Requests, Step(q) \/ CancelOrFail(q)
    PROVE  RowsInv'
<1>1. CreationInv /\ RowsHaveMakers /\ MakersHaveRows /\ NumbersInRow /\ CreationInv'
  BY CreationInvStep DEF RowsInv
<1>2. CASE InsertBuild(q)
  BY <1>1, <1>2, RowsInsert
<1>3. ASSUME UNCHANGED rows
      PROVE  /\ \A o \in Requests : CreatedBy(o)' = CreatedBy(o)
             /\ \A r \in Configured : Numbers(r)' = Numbers(r)
  BY <1>3 DEF CreatedBy, Numbers
<1>4. \A i \in DOMAIN rows : rows[i].by \in Requests
  BY <1>1, RowsTyped
<1>5. at \in [Requests -> Places] /\ DOMAIN request = Requests /\ faults \in Nat
      /\ number \in [Requests -> Nat] /\ counter \in [Configured -> Nat]
  BY <1>1, CreationAssumption, FS_CardinalityType
     DEF CreationInv, TypeOK, AcceptedAreWanted
<1>6. ASSUME at[q] # "commit" /\ ~Committed(q), UNCHANGED <<rows, counter>>,
             NEW place, Goto(q, place),
             place \notin {"commit", "created", "unanswered"},
             \A o \in Requests \ {q} : number'[o] = number[o] /\ request'[o] = request[o],
             faults' \in Nat, faults' >= faults,
             at[q] = "failed" => UNCHANGED request /\ place = "failed"
      PROVE  RowsInv'
  <2>1. \A o \in Requests : at'[o] = IF o = q THEN place ELSE at[o]
    BY <1>5, <1>6 DEF Goto
  <2>2. \A o \in Requests \ {q} : RepoOf(o)' = RepoOf(o)
    BY <1>6 DEF RepoOf
  <2>3. RowsHaveMakers'
    BY <1>1, <1>4, <1>5, <1>6, <2>1, <2>2 DEF RowsHaveMakers, RepoOf, Committed
  <2>4. MakersHaveRows'
    BY <1>1, <1>3, <1>6, <2>1, <2>2 DEF MakersHaveRows, Committed
  <2>5. NumbersInRow'
    BY <1>1, <1>3, <1>6 DEF NumbersInRow
  <2> QED
    BY <1>1, <2>3, <2>4, <2>5 DEF RowsInv
<1>7. CASE Handle(q) \/ BeginTx(q) \/ UpdateCounter(q) \/ WaitForLock(q) \/ InsertFails(q) \/ Rollback(q)
  <2>1. \A o \in Requests \ {q} : number'[o] = number[o] /\ request'[o] = request[o]
    BY <1>5, <1>7 DEF Handle, BeginTx, UpdateCounter, WaitForLock, InsertFails, Rollback, OnlyAt
  <2>2. \E place : place \notin {"commit", "created", "unanswered"} /\ Goto(q, place)
    BY <1>7 DEF Handle, BeginTx, UpdateCounter, WaitForLock, InsertFails, Rollback
  <2> QED
    BY <1>5, <1>6, <1>7, <2>1, <2>2 DEF Handle, BeginTx, UpdateCounter, WaitForLock,
       InsertFails, CanInsert, Rollback, OnlyAt, Committed
<1>8. CASE CancelCall(q)
  <2>1. /\ at[q] \notin Done /\ faults' = faults + 1 /\ Goto(q, "failed")
        /\ UNCHANGED <<request, counter, rows, number>>
    BY <1>8 DEF CancelCall
  <2>2. \A o \in Requests : at'[o] = IF o = q THEN "failed" ELSE at[o]
    BY <1>5, <2>1 DEF Goto
  <2>3. \A o \in Requests : RepoOf(o)' = RepoOf(o)
    BY <2>1 DEF RepoOf
  <2>4. RowsHaveMakers'
    BY <1>1, <1>4, <1>5, <2>1, <2>2, <2>3 DEF RowsHaveMakers
  <2>5. MakersHaveRows'
    BY <1>1, <1>3, <2>1, <2>2, <2>3 DEF MakersHaveRows, Committed
  <2>6. NumbersInRow'
    BY <1>1, <1>3, <2>1 DEF NumbersInRow
  <2> QED
    BY <1>1, <2>4, <2>5, <2>6 DEF RowsInv
<1>9. CASE Commit(q) \/ CommitUnanswered(q)
  <2>0. PICK answer \in {"created", "unanswered"} :
           /\ CommitNumber(q, number[q], answer)
           /\ faults' \in Nat /\ faults' >= faults
           /\ answer = "unanswered" => faults' > 0
    BY <1>5, <1>9 DEF Commit, CommitUnanswered
  <2>1. /\ at[q] = "commit"
        /\ counter' = [counter EXCEPT ![RepoOf(q)] = number[q]]
        /\ at' = [other \in Requests |->
                    IF other = q THEN answer
                    ELSE IF at[other] = "waiting" /\ RepoOf(other) = RepoOf(q)
                         THEN "rollback" ELSE at[other]]
        /\ UNCHANGED <<request, rows, number>>
    BY <2>0 DEF CommitNumber
  <2>2. RepoOf(q) \in Configured /\ number[q] = counter[RepoOf(q)] + 1
    BY <1>1, <2>1, AcceptedRepo DEF CreationInv, LockKept, HoldsLock, Accepted
  <2>3. \A o \in Requests : RepoOf(o)' = RepoOf(o)
    BY <2>1 DEF RepoOf
  <2>4. RowsHaveMakers'
    BY <1>1, <1>4, <1>5, <2>0, <2>1, <2>3 DEF RowsHaveMakers
  <2>5. \A r \in Configured : counter'[r] = IF r = RepoOf(q) THEN counter[r] + 1 ELSE counter[r]
    BY <1>5, <2>1, <2>2
  <2>6. \A o \in Requests : Committed(o) => RepoOf(o) \in Configured
    BY <1>1, AcceptedRepo DEF CreationInv, Accepted, Committed
  <2>7. MakersHaveRows'
    <3>1. \A o \in Requests : Committed(o)' => number'[o] <= counter'[RepoOf(o)']
      BY <1>1, <1>5, <2>1, <2>2, <2>3, <2>5, <2>6 DEF MakersHaveRows, Committed
    <3> QED
      BY <1>1, <1>3, <2>1, <3>1 DEF MakersHaveRows, Committed
  <2>8. number[q] \in Numbers(RepoOf(q))
    <3>1. PICK i \in DOMAIN rows : CreatedBy(q) = {i} /\ rows[i].number = number[q]
      BY <1>1, <2>1 DEF MakersHaveRows
    <3>2. rows[i].by = q
      BY <3>1 DEF CreatedBy
    <3> QED
      BY <1>1, <3>1, <3>2 DEF RowsHaveMakers, Numbers
  <2>9. Numbers(RepoOf(q)) = 1..(counter[RepoOf(q)] + 1)
    BY <1>1, <1>5, <2>2, <2>8 DEF NumbersInRow
  <2>10. NumbersInRow'
    BY <1>1, <1>3, <2>1, <2>5, <2>9 DEF NumbersInRow
  <2> QED
    BY <1>1, <2>4, <2>7, <2>10 DEF RowsInv
<1> QED
  BY <1>2, <1>7, <1>8, <1>9 DEF Step, CancelOrFail

-----------------------------------------------------------------------------
(***************************************************************************)
(* Why a call fails when none is cut short: PostgreSQL does not take its   *)
(* text, or there is another accepted request for the repository, whose    *)
(* transaction or whose row is in its way.                                 *)
(***************************************************************************)
Rival(q, other) ==
    other # q /\ Accepted(other) /\ RepoOf(other) = RepoOf(q)

FailuresExplained ==
    \A q \in Requests :
        at[q] = "rollback" \/ (at[q] = "failed" /\ faults = 0) =>
            \/ ~Storable(request[q].meta)
            \/ \E other \in Requests : Rival(q, other)

ListingInv == RowsInv /\ FailuresExplained

(***************************************************************************)
(* An accepted request keeps its content: what explains a failure stays.   *)
(***************************************************************************)
LEMMA RivalsStay ==
    ASSUME RowsInv, NEW q \in Requests, Step(q) \/ CancelOrFail(q), NEW o \in Requests
    PROVE  /\ Accepted(o) => Accepted(o)' /\ request'[o] = request[o]
           /\ faults = 0 \/ faults' # 0
<1>1. at \in [Requests -> Places] /\ DOMAIN request = Requests /\ faults \in Nat
  BY CreationAssumption DEF RowsInv, CreationInv, TypeOK, AcceptedAreWanted
<1> QED
  BY <1>1 DEF Step, Handle, BeginTx, UpdateCounter, WaitForLock, InsertBuild, Insert,
     InsertFails, Commit, CommitNumber, Rollback, CancelOrFail, CancelCall,
     CommitUnanswered, OnlyAt, Goto, Accepted

(***************************************************************************)
(* A call gives up for one of these reasons.                               *)
(***************************************************************************)
LEMMA FailuresStep ==
    ASSUME ListingInv, NEW q \in Requests, Step(q) \/ CancelOrFail(q)
    PROVE  ListingInv'
<1>1. RowsInv /\ FailuresExplained /\ RowsInv' /\ CreationInv
  BY RowsStep DEF ListingInv, RowsInv
<1>2. at \in [Requests -> Places] /\ DOMAIN request = Requests /\ faults \in Nat
  BY <1>1, CreationAssumption DEF RowsInv, CreationInv, TypeOK, AcceptedAreWanted
<1>3. \A o, other \in Requests : Accepted(o) /\ Rival(o, other) => Rival(o, other)'
  BY <1>1, RivalsStay DEF Rival, RepoOf
<1> DEFINE Explained(o) == ~Storable(request[o].meta) \/ \E other \in Requests : Rival(o, other)
<1>4. \A o \in Requests : Accepted(o) /\ Explained(o) => Explained(o)'
  BY <1>1, <1>3, RivalsStay
<1>5. ASSUME NEW o \in Requests,
             at'[o] = "rollback" \/ (at'[o] = "failed" /\ faults' = 0)
      PROVE  Explained(o)'
  <2>1. CASE at[o] = "rollback" \/ (at[o] = "failed" /\ faults = 0)
    BY <1>1, <1>4, <2>1 DEF FailuresExplained, Accepted
  <2>2. CASE o = q /\ InsertFails(q)
    <3>1. at[q] = "insert" /\ ~Fits(q)
      BY <2>2 DEF InsertFails, CanInsert
    <3>2. CASE ~Storable(request[q].meta)
      BY <1>4, <2>2, <3>1, <3>2 DEF Accepted
    <3>3. CASE number[q] \in Numbers(RepoOf(q))
      <4>1. PICK i \in DOMAIN rows : rows[i].repo = RepoOf(q)
        BY <3>3 DEF Numbers
      <4>2. rows[i].by \in Requests
        BY <1>1, RowsTyped
      <4>3. Rival(q, rows[i].by)
        BY <1>1, <3>1, <4>1 DEF RowsInv, RowsHaveMakers, Rival, Accepted
      <4> QED
        BY <1>4, <2>2, <3>1, <4>2, <4>3 DEF Accepted
    <3> QED
      BY <3>1, <3>2, <3>3 DEF Fits
  <2>3. CASE o # q /\ (Commit(q) \/ CommitUnanswered(q)) /\ at[o] = "waiting"
    <3>1. at[q] = "commit" /\ RepoOf(q) = RepoOf(o)
      BY <1>2, <1>5, <2>3 DEF Commit, CommitUnanswered, CommitNumber
    <3>2. Rival(o, q)
      BY <2>3, <3>1 DEF Rival, Accepted
    <3> QED
      BY <1>4, <2>3, <3>2 DEF Accepted
  <2>4. \/ at[o] = "rollback" \/ (at[o] = "failed" /\ faults = 0)
        \/ o = q /\ InsertFails(q)
        \/ o # q /\ (Commit(q) \/ CommitUnanswered(q)) /\ at[o] = "waiting"
    BY <1>1, <1>2, <1>5, RivalsStay
       DEF Step, Handle, BeginTx, UpdateCounter, WaitForLock, InsertBuild, Insert,
           InsertFails, Commit, CommitNumber, Rollback, CancelOrFail, CancelCall,
     CommitUnanswered, OnlyAt, Goto
  <2> QED
    BY <2>1, <2>2, <2>3, <2>4
<1> QED
  BY <1>1, <1>5 DEF ListingInv, FailuresExplained

(***************************************************************************)
(* ListingInv holds at the start and is kept by every step, those of the   *)
(* viewer included: it writes nothing of this.                             *)
(***************************************************************************)
LEMMA ListingInit == Init => ListingInv
BY RowsInit DEF Init, ListingInv, FailuresExplained, CreationInit

LEMMA ListingNext == ListingInv /\ [Next]_listVars => ListingInv'
<1> SUFFICES ASSUME ListingInv, [Next]_listVars PROVE ListingInv'
  OBVIOUS
<1>1. CASE CreationNext
  BY <1>1, FailuresStep DEF CreationNext
<1>2. CASE UNCHANGED creationVars
  <2>1. UNCHANGED <<request, at, counter, rows, number, faults>>
    BY <1>2 DEF creationVars
  <2>2. TypeOK' = TypeOK
    BY <2>1 DEF TypeOK
  <2>3. AcceptedAreWanted' = AcceptedAreWanted /\ CounterCounts' = CounterCounts
    BY <2>1 DEF AcceptedAreWanted, Accepted, CounterCounts, CreatedFor,
       Committed, RepoOf
  <2>4. LockKept' = LockKept
    BY <2>1 DEF LockKept, HoldsLock, RepoOf
  <2>5. RowsHaveMakers' = RowsHaveMakers /\ MakersHaveRows' = MakersHaveRows
    BY <2>1 DEF RowsHaveMakers, MakersHaveRows, Committed, CreatedBy, RepoOf
  <2>6. NumbersInRow' = NumbersInRow /\ FailuresExplained' = FailuresExplained
    BY <2>1 DEF NumbersInRow, Numbers, FailuresExplained, Rival, Accepted, RepoOf
  <2> QED
    BY <2>2, <2>3, <2>4, <2>5, <2>6 DEF ListingInv, RowsInv, CreationInv
<1> QED
  BY <1>1, <1>2 DEF Next, ListStep, listVars, Open, FollowNext, FollowPrevious, PollList,
     Ask, ListBuilds, CountBuilds

(***************************************************************************)
(* Types of the requests, the tables and the transactions.                 *)
(***************************************************************************)
THEOREM CreationTyped == Spec => []TypeOK
<1>1. ListingInv => TypeOK
  BY DEF ListingInv, RowsInv, CreationInv
<1> QED
  BY <1>1, ListingInit, ListingNext, PTL DEF Spec

(***************************************************************************)
(* The builds of a repository are numbered 1, 2, 3, ... and no number is   *)
(* given twice, though the INSERT is outside of the transaction.           *)
(***************************************************************************)
THEOREM NumbersStayDense == Spec => []NumbersDense
<1>1. ListingInv => NumbersDense
  <2> SUFFICES ASSUME ListingInv, NEW r \in Configured
               PROVE  Cardinality(Numbers(r)) = Cardinality({i \in DOMAIN rows : rows[i].repo = r})
    BY DEF ListingInv, RowsInv, NumbersInRow, NumbersDense
  <2>1. PICK own : own = {i \in DOMAIN rows : rows[i].repo = r}
    OBVIOUS
  <2>2. PICK f : f = [i \in own |-> rows[i].number]
    OBVIOUS
  <2>3. f \in Bijection(own, Numbers(r))
    BY <2>1, <2>2 DEF ListingInv, RowsInv, NumbersInRow, Numbers, Bijection, Injection,
       Surjection, IsInjective
  <2>4. IsFiniteSet(own)
    <3>1. own \in SUBSET (1..Len(rows)) /\ Len(rows) \in Nat
      BY <2>1, RowsTyped DEF ListingInv, RowsInv
    <3>2. IsFiniteSet(1..Len(rows))
      BY <3>1, FS_Interval
    <3> QED
      BY <3>1, <3>2, FS_Subset
  <2>5. ExistsBijection(own, Numbers(r))
    BY <2>3 DEF ExistsBijection
  <2> QED
    BY <2>1, <2>4, <2>5, FS_Bijection
<1> QED
  BY <1>1, ListingInit, ListingNext, PTL DEF Spec

(***************************************************************************)
(* Success means one build, counted; failure means none, unless a call was *)
(* cut short.                                                              *)
(***************************************************************************)
THEOREM AnswersStayTrue == Spec => []AnswersAreTrue
<1>1. ListingInv => AnswersAreTrue
  <2> SUFFICES ASSUME ListingInv PROVE SuccessIsTrue /\ (faults = 0 => FailureIsTrue)
    BY DEF AnswersAreTrue
  <2>1. RowsHaveMakers /\ MakersHaveRows /\ CreationInv
    BY DEF ListingInv, RowsInv
  <2>2. SuccessIsTrue
    <3> SUFFICES ASSUME NEW q \in Requests, at[q] = "created"
                 PROVE  \E i \in DOMAIN rows :
                          /\ CreatedBy(q) = {i}
                          /\ rows[i].repo = request[q].repo
                          /\ rows[i].number <= counter[rows[i].repo]
      BY DEF SuccessIsTrue
    <3>1. PICK i \in DOMAIN rows : CreatedBy(q) = {i} /\ rows[i].number = number[q]
      BY <2>1 DEF MakersHaveRows, Committed
    <3>2. rows[i].by = q
      BY <3>1 DEF CreatedBy
    <3> QED
      BY <2>1, <3>1, <3>2 DEF MakersHaveRows, Committed, RowsHaveMakers, RepoOf
  <2>3. faults = 0 => FailureIsTrue
    BY <2>1 DEF RowsHaveMakers, FailureIsTrue, CreatedBy, Done
  <2> QED
    BY <2>2, <2>3
<1> QED
  BY <1>1, ListingInit, ListingNext, PTL DEF Spec

(***************************************************************************)
(* A valid request with no rival gets its build, but for its text.         *)
(***************************************************************************)
THEOREM LoneRequestsAreBuilt == Spec => []LoneRequestsSucceed
<1>1. ListingInv => LoneRequestsSucceed
  <2> SUFFICES ASSUME ListingInv, NEW q \in Requests, at[q] = "failed", faults = 0,
                      \A other \in Requests \ {q} : RepoOf(other) # RepoOf(q)
               PROVE  CutsCharacter(request[q].meta) \/ request[q].meta.nul
    BY DEF LoneRequestsSucceed
  <2>1. ~Storable(request[q].meta)
    BY DEF ListingInv, FailuresExplained, Rival
  <2>2. request[q] \in Request /\ Accepts(request[q])
    BY AcceptedRepo DEF ListingInv, RowsInv, CreationInv, AcceptedAreWanted, Accepted
  <2>3. Valid(request[q].meta) /\ request[q].meta \in Meta
    BY <2>2 DEF Accepts, AcceptsGitHub, AcceptsManual, Request
  <2> QED
    BY <2>1, <2>3 DEF Storable, Valid, Meta, MaxRef, MaxLink, MaxAuthor, ShaLength
<1> QED
  BY <1>1, ListingInit, ListingNext, PTL DEF Spec

(***************************************************************************)
(* A repository whose counter was overtaken by a build stays stuck: every  *)
(* later call computes the number of that build and fails.                 *)
(***************************************************************************)
THEOREM WedgedStays == Spec => WedgedForEver
<1>1. ListingInv /\ [Next]_listVars => [\A r \in Configured : Wedged(r) => Wedged(r)']_creationVars
  <2> SUFFICES ASSUME ListingInv, [Next]_listVars, NEW r \in Configured, Wedged(r)
               PROVE  Wedged(r)' \/ UNCHANGED creationVars
    OBVIOUS
  <2>1. CASE UNCHANGED creationVars
    BY <2>1
  <2>2. ASSUME NEW q \in Requests, Step(q) \/ CancelOrFail(q) PROVE Wedged(r)'
    <3>1. at \in [Requests -> Places] /\ DOMAIN request = Requests /\ CreationInv
      BY DEF ListingInv, RowsInv, CreationInv, TypeOK, AcceptedAreWanted
    <3>2. \A o \in Requests : RepoOf(o)' = r /\ RepoOf(o) # r => at'[o] # "commit"
      BY <2>2, <3>1 DEF Step, Handle, BeginTx, UpdateCounter, WaitForLock, InsertBuild, Insert,
         InsertFails, Commit, CommitNumber, Rollback, CancelOrFail, CancelCall,
     CommitUnanswered, OnlyAt, Goto, RepoOf
    <3>3. \A o \in Requests : RepoOf(o) = r /\ at'[o] = "commit" => o = q /\ InsertBuild(q)
      BY <2>2, <3>1 DEF Wedged, Step, Handle, BeginTx, UpdateCounter, WaitForLock,
         InsertBuild, Insert, InsertFails, Commit, CommitNumber, Rollback, CancelOrFail,
         CancelCall, CommitUnanswered, OnlyAt, Goto
    <3>4. RepoOf(q) = r => ~InsertBuild(q)
      <4> SUFFICES ASSUME RepoOf(q) = r, InsertBuild(q) PROVE FALSE
        OBVIOUS
      <4>1. at[q] = "insert" /\ number[q] \notin Numbers(r)
        BY DEF InsertBuild, CanInsert, Fits
      <4>2. number[q] = counter[r] + 1
        BY <3>1, <4>1 DEF CreationInv, LockKept, HoldsLock
      <4> QED
        BY <4>1, <4>2 DEF Wedged
    <3>5. \A o \in Requests : RepoOf(o)' = r => at'[o] # "commit"
      BY <3>2, <3>3, <3>4
    <3>6. counter'[r] = counter[r]
      BY <2>2, <3>1 DEF Wedged, Step, Handle, BeginTx, UpdateCounter, WaitForLock,
         InsertBuild, Insert, InsertFails, Commit, CommitNumber, Rollback, CancelOrFail,
         CancelCall, CommitUnanswered, OnlyAt, CreationInv, TypeOK
    <3>7. /\ DOMAIN rows \subseteq DOMAIN rows'
          /\ \A i \in DOMAIN rows : rows'[i] = rows[i]
      BY <2>2, <3>1, RowsTyped DEF Step, Handle, BeginTx, UpdateCounter, WaitForLock,
         InsertBuild, Insert, InsertFails, Commit, CommitNumber, Rollback, CancelOrFail,
         CancelCall, CommitUnanswered, OnlyAt
    <3>8. Numbers(r) \subseteq Numbers(r)'
      BY <3>7 DEF Numbers
    <3> QED
      BY <3>5, <3>6, <3>8 DEF Wedged
  <2> QED
    BY <2>1, <2>2 DEF Next, CreationNext, ListStep, listVars, Open, FollowNext,
       FollowPrevious, PollList, Ask, ListBuilds, CountBuilds
<1> QED
  BY <1>1, ListingInit, ListingNext, PTL DEF Spec, WedgedForEver

-----------------------------------------------------------------------------
(***************************************************************************)
(* What is known of the viewer, whatever is created meanwhile: builds only *)
(* move to later pages.                                                    *)
(***************************************************************************)
ViewTyped ==
    view \in [at : {"blank", "asked", "listed", "shown", "error"},
              page : 0..(Word - 1), followed : BOOLEAN, cards : SUBSET Nat,
              next : 0..Word, missed : SUBSET (Nat \ {0})]

(***************************************************************************)
(* A page that PostgreSQL answered lies in the lower half of the offsets,  *)
(* so the page after it does not wrap.                                     *)
(***************************************************************************)
NoWrap ==
    /\ view.at \in {"listed", "shown"} => Offset(view.page) < Word \div 2
    /\ LinksLeadOn

LinksLeadToBuilds ==
    /\ view.followed /\ view.at = "asked" => Offset(view.page) < Len(rows)
    /\ view.followed /\ view.at \in {"listed", "shown"} =>
          Offset(view.page) < Len(rows) /\ view.cards # {}
    /\ view.at = "shown" /\ view.next # NoPage => Offset(view.next) < Len(rows)

(***************************************************************************)
(* What a walk has missed is on the pages it has not yet come to, and as   *)
(* long as there is something missed no page number has wrapped.           *)
(***************************************************************************)
OnPagesFrom(set, page) == \A i \in set : Len(rows) - i >= page * PageSize

MissedIsAhead ==
    view.missed # {} =>
        /\ view.at = "asked" =>
              /\ view.page * PageSize < Word
              /\ OnPagesFrom(view.missed, view.page)
        /\ view.at = "listed" =>
              /\ (view.page + 1) * PageSize < Word
              /\ OnPagesFrom(view.missed \ view.cards, view.page + 1)
        /\ view.at = "shown" =>
              /\ (view.page + 1) * PageSize < Word
              /\ OnPagesFrom(view.missed, view.page + 1)
              /\ view.next = view.page + 1

ViewInv == ViewTyped /\ NoWrap /\ LinksLeadToBuilds /\ MissedIsAhead

(***************************************************************************)
(* Quotient and remainder, and that there is only one remainder.           *)
(***************************************************************************)
LEMMA DivMod ==
    ASSUME NEW x \in Int, NEW w \in Int, w > 0
    PROVE  /\ x = w * (x \div w) + (x % w) /\ x \div w \in Int
           /\ x % w \in Int /\ 0 <= x % w /\ x % w < w
<1>1. x = w * (x \div w) + (x % w)
  BY SMTT(30)
<1>2. x \div w \in Int
  OBVIOUS
<1>3. x % w \in Int /\ 0 <= x % w /\ x % w < w
  OBVIOUS
<1> QED
  BY <1>1, <1>2, <1>3

LEMMA OneRemainder ==
    ASSUME NEW w \in Int, w > 0, NEW q \in Int, NEW p \in Int, NEW r \in Int, NEW s \in Int,
           0 <= r, r < w, 0 <= s, s < w, w * q + r = w * p + s
    PROVE  r = s
<1>1. w * (q - p) = s - r
  OBVIOUS
<1>2. CASE q - p >= 1
  <2>1. w * (q - p) >= w
    BY <1>2
  <2> QED
    BY <1>1, <2>1
<1>3. CASE q - p <= -1
  <2>1. w * (q - p) <= -w
    BY <1>3
  <2> QED
    BY <1>1, <2>1
<1>4. CASE q = p
  BY <1>4
<1> QED
  BY <1>2, <1>3, <1>4

(***************************************************************************)
(* Adding what does not reach the next multiple; a multiple.               *)
(***************************************************************************)
LEMMA ModAdd ==
    ASSUME NEW x \in Int, NEW w \in Int, w > 0, NEW a \in Int, 0 <= a, (x % w) + a < w
    PROVE  (x + a) % w = (x % w) + a
<1>1. PICK q \in Int, r \in Int : x = w * q + r /\ r = x % w /\ 0 <= r
  BY DivMod
<1>2. PICK y \in Int : y = x + a
  OBVIOUS
<1>3. PICK p \in Int, s \in Int : y = w * p + s /\ s = y % w /\ 0 <= s /\ s < w
  BY DivMod
<1>4. w * p + s = w * q + (r + a)
  BY <1>1, <1>2, <1>3
<1>5. r + a \in Int /\ 0 <= r + a /\ r + a < w
  BY <1>1
<1> QED
  BY <1>1, <1>2, <1>3, <1>4, <1>5, OneRemainder

LEMMA ModMult ==
    ASSUME NEW k \in Int, NEW w \in Int, w > 0
    PROVE  (w * k) % w = 0
<1>1. PICK y \in Int : y = w * k
  OBVIOUS
<1>2. PICK p \in Int, s \in Int : y = w * p + s /\ s = y % w /\ 0 <= s /\ s < w
  BY DivMod
<1>3. w * p + s = w * k + 0
  BY <1>1, <1>2
<1> QED
  BY <1>1, <1>2, <1>3, OneRemainder

(***************************************************************************)
(* Arithmetic of the pages.                                                *)
(***************************************************************************)
LEMMA PageArithmetic ==
    ASSUME NEW page \in Nat
    PROVE  /\ page * PageSize \in Nat
           /\ (page + 1) * PageSize = page * PageSize + PageSize
           /\ page <= page * PageSize
           /\ Offset(page) \in 0..(Word - 1)
           /\ page * PageSize < Word => Offset(page) = page * PageSize
<1>1. PageSize \in Nat \ {0} /\ Word \in Nat \ {0}
  BY ListAssumption
<1>2. page * PageSize \in Nat /\ (page + 1) * PageSize = page * PageSize + PageSize
  BY <1>1
<1>3. page <= page * PageSize
  BY <1>1
<1>4. ASSUME NEW x \in Nat PROVE x % Word \in 0..(Word - 1) /\ (x < Word => x % Word = x)
  BY <1>1, <1>4
<1> QED
  BY <1>2, <1>3, <1>4 DEF Offset

(***************************************************************************)
(* The page after one in the lower half begins where that one ends, and it *)
(* is not page 0 again.                                                    *)
(***************************************************************************)
LEMMA NextOffset ==
    ASSUME NEW page \in 0..(Word - 1), Offset(page) < Word \div 2,
           NextPage(page) # NoPage
    PROVE  Offset(NextPage(page)) = Offset(page) + PageSize
<1>1. /\ PageSize \in Nat \ {0} /\ Word \in Nat \ {0} /\ page \in Nat
      /\ Word % 2 = 0 /\ 2 * PageSize <= Word
  BY ListAssumption
<1>2. PICK x \in Nat : x = page * PageSize
  BY <1>1
<1>3. (x % Word) + PageSize < Word
  BY <1>1, <1>2 DEF Offset
<1>4. (x + PageSize) % Word = (x % Word) + PageSize
  BY <1>1, <1>2, <1>3, ModAdd
<1>5. Offset(page + 1) = Offset(page) + PageSize
  BY <1>1, <1>2, <1>4, PageArithmetic DEF Offset
<1>6. page + 1 # Word
  <2> SUFFICES ASSUME page + 1 = Word PROVE FALSE
    OBVIOUS
  <2>1. Offset(page + 1) = 0
    BY <1>1, ModMult DEF Offset
  <2>2. Offset(page) \in Nat
    BY <1>1, PageArithmetic
  <2> QED
    BY <1>1, <1>5, <2>1, <2>2
<1>7. NextPage(page) = page + 1
  BY <1>1, <1>6 DEF NextPage
<1> QED
  BY <1>5, <1>7

(***************************************************************************)
(* Webhooks only make the list longer.                                     *)
(***************************************************************************)
LEMMA ListGrows ==
    ASSUME RowsInv, CreationNext \/ UNCHANGED creationVars
    PROVE  Len(rows) \in Nat /\ Len(rows') \in Nat /\ Len(rows') >= Len(rows)
<1>1. CreationInv
  BY DEF RowsInv
<1>2. Len(rows) \in Nat /\ rows \in Seq([repo : Configured, by : Requests,
                                       number : 1..Cardinality(Requests)])
  BY <1>1, RowsTyped DEF CreationInv, TypeOK
<1>3. CASE UNCHANGED creationVars
  BY <1>2, <1>3 DEF creationVars
<1>4. ASSUME NEW q \in Requests, Step(q) \/ CancelOrFail(q)
      PROVE  Len(rows') \in Nat /\ Len(rows') >= Len(rows)
  BY <1>2, <1>4 DEF Step, Handle, BeginTx, UpdateCounter, WaitForLock, InsertBuild, Insert,
     InsertFails, Commit, CommitNumber, Rollback, CancelOrFail, CancelCall,
     CommitUnanswered, OnlyAt
<1> QED
  BY <1>2, <1>3, <1>4 DEF CreationNext

(***************************************************************************)
(* Everything known of the viewer stays true of a longer list.             *)
(***************************************************************************)
LEMMA ViewKeptByWebhooks ==
    ASSUME ViewInv, UNCHANGED view, Len(rows) \in Nat, Len(rows') \in Nat,
           Len(rows') >= Len(rows)
    PROVE  ViewInv'
<1>1. view.page \in Nat /\ view.next \in Nat /\ view.cards \subseteq Nat /\ view.missed \subseteq Nat
  BY ListAssumption DEF ViewInv, ViewTyped
<1>2. \A page \in Nat : Offset(page) \in Nat /\ page * PageSize \in Nat
  BY PageArithmetic, ListAssumption
<1>3. \A set \in SUBSET Nat, page \in Nat : OnPagesFrom(set, page) => OnPagesFrom(set, page)'
  BY <1>2 DEF OnPagesFrom
<1>4. ViewTyped'
  BY DEF ViewInv, ViewTyped
<1>0. PICK o : o = Offset(view.page) /\ o \in Nat
  BY <1>1, <1>2
<1>7. Offset(view.page)' = o /\ Offset(view.next)' = Offset(view.next)
  BY <1>0 DEF Offset
<1>9. NoWrap'
  BY <1>0, <1>7 DEF ViewInv, NoWrap, LinksLeadOn
<1>5. LinksLeadToBuilds'
  <2>1. \A x \in Nat : x < Len(rows) => x < Len(rows')
    OBVIOUS
  <2>2. Offset(view.next) \in Nat
    BY <1>1, <1>2
  <2> QED
    BY <1>0, <1>7, <2>1, <2>2 DEF ViewInv, LinksLeadToBuilds
<1>6. MissedIsAhead'
  <2>1. view.missed \ view.cards \in SUBSET Nat /\ view.page + 1 \in Nat
    BY <1>1
  <2> QED
    BY <1>1, <1>3, <2>1 DEF ViewInv, MissedIsAhead
<1> QED
  BY <1>4, <1>5, <1>6, <1>9 DEF ViewInv

(***************************************************************************)
(* Asking for a page: there is nothing to know of its cards yet.           *)
(***************************************************************************)
LEMMA ViewAsk ==
    ASSUME NEW page \in 0..(Word - 1), NEW followed \in BOOLEAN,
           NEW missed \in SUBSET (Nat \ {0}), Ask(page, followed, missed),
           followed => Offset(page) < Len(rows),
           missed # {} => page * PageSize < Word /\ OnPagesFrom(missed, page)
    PROVE  ViewInv'
<1>1. /\ view' = [at |-> "asked", page |-> page, followed |-> followed,
                  cards |-> {}, next |-> NoPage, missed |-> missed]
      /\ UNCHANGED rows
  BY DEF Ask, creationVars
<1>2. ViewTyped'
  BY <1>1, ListAssumption DEF ViewTyped, NoPage
<1> QED
  BY <1>1, <1>2 DEF ViewInv, NoWrap, LinksLeadOn, LinksLeadToBuilds, MissedIsAhead,
     OnPagesFrom, Offset

(***************************************************************************)
(* The two queries of a page.                                              *)
(***************************************************************************)
LEMMA ViewListBuilds ==
    ASSUME ViewInv, RowsInv, ListBuilds
    PROVE  ViewInv'
<1>1. view.at = "asked" /\ UNCHANGED rows /\ ViewTyped
  BY DEF ListBuilds, creationVars, ViewInv
<1>2. view.page \in Nat /\ Len(rows) \in Nat /\ DOMAIN rows = 1..Len(rows)
  BY <1>1, RowsTyped, ListAssumption DEF ViewTyped, RowsInv
<1>3. /\ Offset(view.page) \in 0..(Word - 1)
      /\ (view.page + 1) * PageSize = view.page * PageSize + PageSize
      /\ view.page * PageSize < Word => Offset(view.page) = view.page * PageSize
      /\ view.page * PageSize \in Nat
  BY <1>2, PageArithmetic
<1>4. CASE Offset(view.page) >= Word \div 2
  <2>1. view' = [view EXCEPT !.at = "error"]
    BY <1>4 DEF ListBuilds
  <2> QED
    BY <1>1, <2>1 DEF ViewInv, ViewTyped, NoWrap, LinksLeadOn, LinksLeadToBuilds,
       MissedIsAhead
<1>5. CASE ~(Offset(view.page) >= Word \div 2)
  <2>1. view' = [view EXCEPT !.at = "listed", !.cards = Window(view.page)]
    BY <1>5 DEF ListBuilds
  <2>2. \A i \in Window(view.page) : i \in Nat \ {0} /\ Len(rows) - i >= Offset(view.page)
    BY <1>2, <1>3 DEF Window
  <2>3. /\ view'.at = "listed" /\ view'.cards = Window(view.page)
        /\ view'.page = view.page /\ view'.followed = view.followed
        /\ view'.missed = view.missed /\ view'.next = view.next
    BY <1>1, <2>1 DEF ViewTyped
  <2>4. ViewTyped'
    BY <1>1, <2>1, <2>2 DEF ViewTyped
  <2>8. NoWrap'
    BY <1>3, <1>5, <2>3, ListAssumption DEF NoWrap, LinksLeadOn, Offset
  <2>5. Offset(view.page) < Len(rows) => Len(rows) - Offset(view.page) \in Window(view.page)
    <3>1. PICK o \in Nat : o = Offset(view.page)
      BY <1>3, ListAssumption
    <3>2. o < Len(rows) => Len(rows) - o \in DOMAIN rows
      BY <1>2
    <3> QED
      BY <1>2, <3>1, <3>2, ListAssumption DEF Window
  <2>6. LinksLeadToBuilds'
    BY <1>1, <2>3, <2>5 DEF ViewInv, LinksLeadToBuilds, Offset
  <2>7. MissedIsAhead'
    <3> SUFFICES ASSUME view.missed # {}
                 PROVE  /\ (view.page + 1) * PageSize < Word
                        /\ \A i \in view.missed \ Window(view.page) :
                              Len(rows) - i >= (view.page + 1) * PageSize
      BY <1>1, <2>3 DEF MissedIsAhead, OnPagesFrom
    <3>1. /\ view.page * PageSize < Word
          /\ \A i \in view.missed : Len(rows) - i >= view.page * PageSize
      BY <1>1 DEF ViewInv, MissedIsAhead, OnPagesFrom
    <3>2. (view.page + 1) * PageSize < Word
      BY <1>3, <1>5, <3>1, ListAssumption
    <3>3. ASSUME NEW i \in view.missed, i \notin Window(view.page)
          PROVE  Len(rows) - i >= (view.page + 1) * PageSize
      <4>1. i \in Nat \ {0}
        BY <1>1 DEF ViewTyped
      <4>2. i \in DOMAIN rows
        BY <1>2, <1>3, <3>1, <4>1
      <4> QED
        BY <1>2, <1>3, <3>1, <3>3, <4>1, <4>2, ListAssumption DEF Window
    <3> QED
      BY <3>2, <3>3
  <2> QED
    BY <2>4, <2>6, <2>7, <2>8 DEF ViewInv
<1> QED
  BY <1>4, <1>5

LEMMA ViewCountBuilds ==
    ASSUME ViewInv, RowsInv, CountBuilds
    PROVE  ViewInv'
<1>1. view.at = "listed" /\ UNCHANGED rows /\ ViewTyped
  BY DEF CountBuilds, creationVars, ViewInv
<1>2. view.page \in 0..(Word - 1) /\ Len(rows) \in Nat
  BY <1>1, RowsTyped DEF ViewTyped, RowsInv
<1>3. /\ view'.at = "shown" /\ view'.cards = view.cards /\ view'.next = NextPage(view.page)
      /\ view'.page = view.page /\ view'.followed = view.followed
      /\ view'.missed = view.missed \ view.cards
  BY <1>1 DEF CountBuilds, ViewTyped
<1>4. view.page + 1 \in 1..Word /\ Word \in Nat \ {0} /\ PageSize \in Nat \ {0}
  BY <1>2, ListAssumption
<1>5. (view.page + 1) % Word = IF view.page + 1 = Word THEN 0 ELSE view.page + 1
  BY <1>4
<1>6. NextPage(view.page) \in 0..Word
  BY <1>4, <1>5 DEF NextPage, NoPage
<1>7. ViewTyped'
  BY <1>1, <1>3, <1>6 DEF CountBuilds, ViewTyped
<1>8. NoWrap'
  <2>1. Offset(view.page) < Word \div 2
    BY <1>1 DEF ViewInv, NoWrap
  <2>2. NextPage(view.page) # NoPage =>
           Offset(NextPage(view.page)) = Offset(view.page) + PageSize
    BY <1>2, <2>1, NextOffset
  <2> QED
    BY <1>3, <2>1, <2>2 DEF NoWrap, LinksLeadOn, Offset
<1>9. NextPage(view.page) # NoPage => Offset(NextPage(view.page)) < Len(rows)
  <2> SUFFICES ASSUME ((view.page + 1) * PageSize) % Word < Len(rows)
               PROVE  Offset((view.page + 1) % Word) < Len(rows)
    BY DEF NextPage
  <2>1. CASE view.page + 1 = Word
    <3>1. Offset(0) = 0
      BY <1>4 DEF Offset
    <3>2. Offset(view.page + 1) \in Nat /\ Offset(view.page + 1) < Len(rows)
      BY <1>4, PageArithmetic DEF Offset
    <3> QED
      BY <1>2, <1>5, <2>1, <3>1, <3>2
  <2>2. CASE view.page + 1 # Word
    BY <1>5, <2>2 DEF Offset
  <2> QED
    BY <2>1, <2>2
<1>10. LinksLeadToBuilds'
  BY <1>1, <1>3, <1>9 DEF ViewInv, LinksLeadToBuilds, Offset
<1>11. MissedIsAhead'
  <2> SUFFICES ASSUME view.missed \ view.cards # {}
               PROVE  /\ (view.page + 1) * PageSize < Word
                      /\ \A i \in view.missed \ view.cards :
                            Len(rows) - i >= (view.page + 1) * PageSize
                      /\ NextPage(view.page) = view.page + 1
    BY <1>1, <1>3 DEF MissedIsAhead, OnPagesFrom
  <2>1. /\ (view.page + 1) * PageSize < Word
        /\ \A i \in view.missed \ view.cards : Len(rows) - i >= (view.page + 1) * PageSize
    BY <1>1 DEF ViewInv, MissedIsAhead, OnPagesFrom
  <2>2. PICK i \in view.missed \ view.cards : i \in Nat \ {0}
    BY <1>1 DEF ViewTyped
  <2>6. PICK n \in Nat : n = view.page + 1
    BY <1>4
  <2>3. /\ (view.page + 1) * PageSize \in Nat
        /\ Offset(view.page + 1) = (view.page + 1) * PageSize
        /\ view.page + 1 <= (view.page + 1) * PageSize
    BY <2>1, <2>6, PageArithmetic
  <2>4. Offset(view.page + 1) < Len(rows)
    BY <1>2, <2>1, <2>2, <2>3
  <2>5. view.page + 1 # Word
    BY <1>4, <2>1, <2>3
  <2> QED
    BY <1>5, <2>1, <2>4, <2>5 DEF NextPage, Offset
<1> QED
  BY <1>7, <1>8, <1>10, <1>11 DEF ViewInv

(***************************************************************************)
(* ViewInv is inductive relative to the invariant of the builds.           *)
(***************************************************************************)
LEMMA ViewNext == RowsInv /\ ViewInv /\ [Next]_listVars => ViewInv'
<1> SUFFICES ASSUME RowsInv, ViewInv, [Next]_listVars PROVE ViewInv'
  OBVIOUS
<1>1. ViewTyped /\ Len(rows) \in Nat /\ DOMAIN rows = 1..Len(rows)
  BY RowsTyped DEF ViewInv, RowsInv
<1>2. Word \in Nat \ {0} /\ PageSize \in Nat \ {0}
  BY ListAssumption
<1>3. CASE CreationNext /\ UNCHANGED view
  BY <1>3, ListGrows, ViewKeptByWebhooks
<1>4. CASE UNCHANGED listVars
  BY <1>4, ListGrows, ViewKeptByWebhooks DEF listVars
<1>5. ASSUME NEW page \in TypedPages, Open(page) PROVE ViewInv'
  <2>1. page \in 0..(Word - 1)
    BY ListAssumption
  <2>2. CASE page = 0
    <3>1. OnPagesFrom(DOMAIN rows, 0) /\ DOMAIN rows \in SUBSET (Nat \ {0})
      BY <1>1, <1>2 DEF OnPagesFrom
    <3>2. Ask(page, FALSE, DOMAIN rows)
      BY <1>5, <2>2 DEF Open
    <3>3. page * PageSize < Word /\ OnPagesFrom(DOMAIN rows, page)
      BY <1>2, <2>2, <3>1
    <3> QED
      BY <2>1, <3>1, <3>2, <3>3, ViewAsk
  <2>3. CASE page # 0
    BY <1>5, <2>1, <2>3, ViewAsk DEF Open
  <2> QED
    BY <2>2, <2>3
<1>6. CASE FollowNext
  <2>1. view.at = "shown" /\ view.next # NoPage /\ Ask(view.next, TRUE, view.missed)
    BY <1>6 DEF FollowNext
  <2>2. view.next \in 0..(Word - 1) /\ view.missed \in SUBSET (Nat \ {0})
    BY <1>1, <1>2, <2>1 DEF ViewTyped, NoPage
  <2>3. Offset(view.next) < Len(rows)
    BY <2>1 DEF ViewInv, LinksLeadToBuilds
  <2>4. view.missed # {} => view.next * PageSize < Word /\ OnPagesFrom(view.missed, view.next)
    BY <2>1 DEF ViewInv, MissedIsAhead
  <2> QED
    BY <2>1, <2>2, <2>3, <2>4, ViewAsk
<1>7. CASE FollowPrevious
  <2>1. view.page \in 0..(Word - 1) /\ view.page > 0 /\ Ask(view.page - 1, FALSE, {})
    BY <1>1, <1>7 DEF FollowPrevious, ViewTyped
  <2>2. PICK page \in 0..(Word - 1) : page = view.page - 1
    BY <1>2, <2>1
  <2>3. Ask(page, FALSE, {})
    BY <2>1, <2>2
  <2> QED
    BY <2>3, ViewAsk
<1>8. CASE PollList
  <2>1. view.at = "shown" /\ Ask(view.page, view.followed, view.missed)
    BY <1>8 DEF PollList
  <2>2. /\ view.page \in 0..(Word - 1) /\ view.followed \in BOOLEAN
        /\ view.missed \in SUBSET (Nat \ {0})
    BY <1>1 DEF ViewTyped
  <2>3. view.followed => Offset(view.page) < Len(rows)
    BY <2>1 DEF ViewInv, LinksLeadToBuilds
  <2>4. view.missed # {} => view.page * PageSize < Word /\ OnPagesFrom(view.missed, view.page)
    <3>1. /\ (view.page + 1) * PageSize = view.page * PageSize + PageSize
          /\ view.page * PageSize \in Nat
      BY <2>2, PageArithmetic
    <3> QED
      BY <1>1, <1>2, <2>1, <2>2, <3>1 DEF ViewInv, MissedIsAhead, OnPagesFrom
  <2> QED
    BY <2>1, <2>2, <2>3, <2>4, ViewAsk
<1>9. CASE ListBuilds
  BY <1>9, ViewListBuilds
<1>10. CASE CountBuilds
  BY <1>10, ViewCountBuilds
<1> QED
  BY <1>3, <1>4, <1>5, <1>6, <1>7, <1>8, <1>9, <1>10 DEF Next, ListStep

LEMMA ViewInit == Init => ViewInv
BY ListAssumption DEF Init, ListInit, ViewInv, ViewTyped, NoWrap, LinksLeadOn,
   LinksLeadToBuilds, MissedIsAhead, NoPage

(***************************************************************************)
(* Who follows the links from page 0 to the end has seen all the builds    *)
(* that were there at the start.                                           *)
(***************************************************************************)
THEOREM WalksSeeAll == Spec => []WalkSeesAll
<1>1. ViewInv => WalkSeesAll
  <2> SUFFICES ASSUME ViewInv, view.at = "shown", view.next = NoPage, view.missed # {}
               PROVE  FALSE
    BY DEF WalkSeesAll
  <2>1. view.next = view.page + 1 /\ (view.page + 1) * PageSize < Word /\ view.page \in 0..(Word - 1)
    BY DEF ViewInv, ViewTyped, MissedIsAhead
  <2>2. view.page + 1 <= (view.page + 1) * PageSize /\ (view.page + 1) * PageSize \in Nat
    BY <2>1, ListAssumption, PageArithmetic
  <2> QED
    BY <2>1, <2>2, ListAssumption DEF NoPage
<1>2. ListingInv => RowsInv
  BY DEF ListingInv
<1> QED
  BY <1>1, <1>2, ListingInit, ListingNext, ViewInit, ViewNext, PTL DEF Spec

(***************************************************************************)
(* The link to the next page leads to a page with builds on it.            *)
(***************************************************************************)
THEOREM LinksHaveBuilds == Spec => []NextHasBuilds
<1>1. ViewInv => NextHasBuilds
  BY DEF ViewInv, LinksLeadToBuilds, NextHasBuilds
<1>2. ListingInv => RowsInv
  BY DEF ListingInv
<1> QED
  BY <1>1, <1>2, ListingInit, ListingNext, ViewInit, ViewNext, PTL DEF Spec

(***************************************************************************)
(* The link to the next page leads to where this one ends, and not round   *)
(* the end of a word, for every page size and width of a word.             *)
(***************************************************************************)
THEOREM LinksGoOn == Spec => []LinksLeadOn
<1>1. ViewInv => LinksLeadOn
  BY DEF ViewInv, NoWrap
<1>2. ListingInv => RowsInv
  BY DEF ListingInv
<1> QED
  BY <1>1, <1>2, ListingInit, ListingNext, ViewInit, ViewNext, PTL DEF Spec
=============================================================================
