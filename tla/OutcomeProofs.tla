--------------------------- MODULE OutcomeProofs ---------------------------
(***************************************************************************)
(* Theorems about what becomes of the outcome of a build: who may report   *)
(* it, that the database records it, and that GitHub shows it.             *)
(***************************************************************************)
EXTENDS CIServerProofs

USE DEF NULL, NoCache, CacheIds

(***************************************************************************)
(* The row in hand when a status is sent agrees with the tables: GitHub is *)
(* told after the transaction, about a build that only this loop changes.  *)
(* (A start whose record failed is reported all the same.)                 *)
(***************************************************************************)
CurAgrees ==
    /\ pc = "finishStatus" =>
          cur.build \in Created /\ builds[cur.build].result = cur.result
    /\ pc = "startStatus" =>
          /\ cur.build \in Created /\ builds[cur.build].result = NULL
          /\ "db" \in happened \/ builds[cur.build].started

StatusInv == TrackInv /\ StatusesAreTrue /\ EndedCommitsShowResults /\ CurAgrees

(***************************************************************************)
(* Before the first webhook GitHub shows no status and no build is started.*)
(***************************************************************************)
LEMMA StatusInit == Init => StatusInv
  BY TrackInit DEF Init, StatusInv, StatusesAreTrue, EndedCommitsShowResults, StartedBuilds,
     Created, CurAgrees, ProcessorInit, DBInit

(***************************************************************************)
(* A build keeps its repository and commit in every transaction, so that   *)
(* its statuses go to one place; and once it has a result it keeps that.   *)
(***************************************************************************)
LEMMA RowsKept ==
    ASSUME StatusInv, [Next]_vars
    PROVE  /\ DOMAIN builds \subseteq DOMAIN builds'
           /\ \A b \in DOMAIN builds :
                 /\ StatusKey(b)' = StatusKey(b)
                 /\ builds[b].result # NULL => builds'[b].result = builds[b].result
<1>1. Typed /\ DBTypeOK /\ RunningIffTracked /\ FinishListTracked
  BY DEF StatusInv, TrackInv, Typed, TypeOK
<1>2. CASE UNCHANGED builds
  BY <1>2 DEF StatusKey
<1>3. ASSUME NEW repo \in Repos, NEW main \in BOOLEAN, NEW commit \in Commits,
             Webhook(repo, main, commit)
      PROVE  /\ DOMAIN builds \subseteq DOMAIN builds'
             /\ \A b \in DOMAIN builds : builds'[b] = builds[b]
  <2>1. PICK b \in Ids :
           /\ DOMAIN builds = 1..(b - 1)
           /\ builds' = Put(builds, b, [repo |-> repo, main |-> main, commit |-> commit,
                                        started |-> FALSE, result |-> NULL])
    BY <1>3 DEF Webhook, CreateBuild
  <2>2. b \notin DOMAIN builds
    BY <2>1, BoundsAssumption DEF Ids
  <2> QED
    BY <2>1, <2>2 DEF Put
<1>4. ASSUME pc = "finishTx", FinishBuild(cur.build, cur.result, cur.cacheFiles)
      PROVE  /\ DOMAIN builds' = DOMAIN builds
             /\ \A b \in DOMAIN builds :
                   /\ b # cur.build => builds'[b] = builds[b]
                   /\ StatusKey(b)' = StatusKey(b)
             /\ builds[cur.build].result = NULL
  <2>1. cur.build \in DOMAIN builds /\ builds[cur.build].result = NULL
    BY <1>1, <1>4 DEF FinishListTracked, RunningIffTracked, Created, DBTypeOK
  <2> QED
    BY <1>1, <1>4, <2>1 DEF FinishBuild, DBTypeOK, BuildRow, StatusKey
<1>5. CASE RecordResult
  BY <1>4, <1>5 DEF RecordResult
<1>6. CASE RecordResultFails
  BY <1>2, <1>4, <1>6 DEF RecordResultFails, dbVars
<1>7. CASE RecordStart
  BY <1>1, <1>7 DEF RecordStart, StartBuild, DBTypeOK, BuildRow, StatusKey
<1> QED
  BY <1>2, <1>3, <1>5, <1>6, <1>7
     DEF Next, vars, dbVars, StatusKey, BuilderNext, ServerStops, ServerStarts, ProcessorStep,
         ListBuilders, SkipRunning, ReadExitCode, CleanExitCodeFails, SendFinalStatus,
         FinalStatusFails, GetPendingBuilds, SkipUnconfigured, StartBuilder,
         StartBuilderFails, RecordStartFails, SendPendingStatus, PendingStatusFails,
         ListBuildDirsInUse, ReadDirs, RemoveUnusedDir, RemoveUnusedDirFails,
         FinishPoll, QueryFails

(***************************************************************************)
(* The row in hand goes on to agree with the tables.                       *)
(***************************************************************************)
LEMMA CurAgreesNext == StatusInv /\ [Next]_vars => CurAgrees'
<1> SUFFICES ASSUME StatusInv, [Next]_vars PROVE CurAgrees'
  OBVIOUS
<1>1. Typed /\ DBTypeOK /\ RunningIffTracked /\ FinishListTracked /\ StartListPending
  BY DEF StatusInv, TrackInv, Typed, TypeOK
<1>2. CASE RecordResult
  <2>1. cur.build \in DOMAIN builds
    BY <1>1, <1>2 DEF RecordResult, FinishListTracked, RunningIffTracked, Created, DBTypeOK
  <2> QED
    BY <1>1, <1>2, <2>1 DEF RecordResult, FinishBuild, DBTypeOK, CurAgrees, Created
<1>3. ASSUME pc = "startTx"
      PROVE  cur.build \in DOMAIN builds /\ builds[cur.build].result = NULL
  BY <1>1, <1>3 DEF StartListPending, PendingBuilds
<1>4. CASE RecordStart
  BY <1>1, <1>3, <1>4 DEF RecordStart, StartBuild, AfterStart, DBTypeOK, BuildRow, CurAgrees, Created
<1>5. CASE RecordStartFails
  BY <1>3, <1>5 DEF RecordStartFails, AfterStart, Fault, dbVars, CurAgrees, Created
<1>6. ASSUME NEW repo \in Repos, NEW main \in BOOLEAN, NEW commit \in Commits,
             Webhook(repo, main, commit)
      PROVE  CurAgrees'
  <2>1. PICK b \in Ids :
           /\ DOMAIN builds = 1..(b - 1)
           /\ builds' = Put(builds, b, [repo |-> repo, main |-> main, commit |-> commit,
                                        started |-> FALSE, result |-> NULL])
    BY <1>6 DEF Webhook, CreateBuild
  <2>2. b \notin DOMAIN builds
    BY <2>1, BoundsAssumption DEF Ids
  <2> QED
    BY <1>6, <2>1, <2>2 DEF Webhook, Put, CurAgrees, Created, StatusInv, processorVars,
                            localVars, faultVars
<1>7. ASSUME UNCHANGED <<builds, pc, cur>>, happened \subseteq happened' PROVE CurAgrees'
  BY <1>7 DEF CurAgrees, Created, StatusInv
<1>8. ASSUME pc' \notin {"finishStatus", "startStatus"} PROVE CurAgrees'
  BY <1>8 DEF CurAgrees
<1> QED
  BY <1>2, <1>4, <1>5, <1>6, <1>7, <1>8
     DEF Next, vars, processorVars, localVars, dbVars, faultVars, Fault, BuilderNext,
         BuilderFails, BuilderDies, BuilderDiesWriting, ServerStops, ServerStarts,
         ProcessorStep, ListBuilders, SkipRunning, ReadExitCode, CleanExitCodeFails,
         RecordResultFails, SendFinalStatus, FinalStatusFails, GetPendingBuilds,
         SkipUnconfigured, StartBuilder, StartBuilderFails, SendPendingStatus,
         PendingStatusFails, ListBuildDirsInUse, ReadDirs, RemoveUnusedDir,
         RemoveUnusedDirFails, FinishPoll, QueryFails

(***************************************************************************)
(* GitHub shows what the two requests tell it, of the row in hand.         *)
(***************************************************************************)
LEMMA StatusesChange ==
    ASSUME StatusInv, [Next]_vars
    PROVE  \/ UNCHANGED statuses
           \/ /\ pc \in {"finishStatus", "startStatus"}
              /\ UNCHANGED builds
              /\ cur.build \in Created /\ StatusKey(cur.build) \in StatusKeys
              /\ \A k \in StatusKeys \ {StatusKey(cur.build)} : statuses'[k] = statuses[k]
              /\ statuses'[StatusKey(cur.build)] =
                    [state |-> IF pc = "finishStatus" THEN cur.result ELSE "pending",
                     build |-> cur.build]
<1>1. DBTypeOK /\ statuses \in [StatusKeys -> CommitStatus \cup {NoStatus}]
  BY DEF StatusInv, TrackInv, Typed, TypeOK, ProcessorTypeOK
<1>2. ASSUME cur.build \in Created PROVE StatusKey(cur.build) \in StatusKeys
  BY <1>1, <1>2 DEF Created, DBTypeOK, BuildRow, StatusKey, StatusKeys
<1>3. CASE SendFinalStatus
  BY <1>1, <1>2, <1>3 DEF SendFinalStatus, StatusInv, CurAgrees, dbVars
<1>4. CASE SendPendingStatus
  BY <1>1, <1>2, <1>4 DEF SendPendingStatus, StatusInv, CurAgrees, dbVars
<1> QED
  BY <1>3, <1>4
     DEF Next, vars, Webhook, BuilderNext, ServerStops, ServerStarts, processorVars,
         ProcessorStep, ListBuilders, SkipRunning, ReadExitCode, CleanExitCodeFails,
         RecordResult, RecordResultFails, FinalStatusFails, GetPendingBuilds,
         SkipUnconfigured, StartBuilder, StartBuilderFails, RecordStart,
         RecordStartFails, AfterStart, PendingStatusFails, ListBuildDirsInUse, ReadDirs,
         RemoveUnusedDir, RemoveUnusedDirFails, FinishPoll, QueryFails

(***************************************************************************)
(* What GitHub was told stays true, and what it is told is.                *)
(***************************************************************************)
LEMMA TrueNext == StatusInv /\ [Next]_vars => StatusesAreTrue'
<1> SUFFICES ASSUME StatusInv, [Next]_vars, NEW k \in StatusKeys, statuses'[k] # NoStatus,
                    NEW b, b = statuses'[k].build
             PROVE  /\ b \in Created' /\ <<builds'[b].repo, builds'[b].commit>> = k
                    /\ statuses'[k].state \in Results => builds'[b].result = statuses'[k].state
  BY DEF StatusesAreTrue, StatusKey
<1>1. CASE statuses'[k] = statuses[k]
  <2>1. /\ statuses[k].build \in Created /\ StatusKey(statuses[k].build) = k
        /\ statuses[k].state \in Results =>
              builds[statuses[k].build].result = statuses[k].state
    BY <1>1 DEF StatusInv, StatusesAreTrue
  <2> QED
    BY <1>1, <2>1, RowsKept DEF Created, Results, StatusKey
<1>2. CASE statuses'[k] # statuses[k]
  <2>1. /\ pc \in {"finishStatus", "startStatus"} /\ UNCHANGED builds
        /\ cur.build \in Created /\ k = StatusKey(cur.build)
        /\ statuses'[k] = [state |-> IF pc = "finishStatus" THEN cur.result ELSE "pending",
                           build |-> cur.build]
    BY <1>2, StatusesChange
  <2> QED
    BY <2>1 DEF StatusInv, CurAgrees, Created, StatusKey, Results
<1> QED
  BY <1>1, <1>2

(***************************************************************************)
(* Undisturbed, a commit is told the result of the build that ends last.   *)
(***************************************************************************)
LEMMA EndedNext == StatusInv /\ [Next]_vars => EndedCommitsShowResults'
<1> SUFFICES ASSUME StatusInv, [Next]_vars,
                    HasGitHub, {"restart", "db", "github"} \cap happened' = {},
                    NEW k \in StatusKeys,
                    StartedBuilds(k)' # {},
                    \A b \in StartedBuilds(k)' : builds'[b].result # NULL
             PROVE  \/ statuses'[k].state \in Results
                    \/ pc' = "finishStatus" /\ StatusKey(cur.build)' = k
  BY DEF EndedCommitsShowResults
<1>1. /\ Typed /\ DBTypeOK /\ RunningIffTracked /\ FinishListTracked /\ StartListPending
      /\ statuses \in [StatusKeys -> CommitStatus \cup {NoStatus}]
  BY DEF StatusInv, TrackInv, Typed, TypeOK, ProcessorTypeOK
<1>2. {"restart", "db", "github"} \cap happened = {}
  BY DEF Next, vars, Webhook, BuilderNext, BuilderFails, BuilderDies, BuilderDiesWriting,
         ServerStops, ServerStarts, faultVars, Fault, ProcessorStep, ListBuilders,
         SkipRunning, ReadExitCode, CleanExitCodeFails, RecordResult, RecordResultFails,
         SendFinalStatus, FinalStatusFails, GetPendingBuilds, SkipUnconfigured,
         StartBuilder, StartBuilderFails, RecordStart, RecordStartFails,
         SendPendingStatus, PendingStatusFails, ListBuildDirsInUse, ReadDirs,
         RemoveUnusedDir, RemoveUnusedDirFails, FinishPoll, QueryFails
<1>3. ASSUME StartedBuilds(k) # {}, \A b \in StartedBuilds(k) : builds[b].result # NULL
      PROVE  \/ statuses[k].state \in Results
             \/ pc = "finishStatus" /\ StatusKey(cur.build) = k
  BY <1>2, <1>3 DEF StatusInv, EndedCommitsShowResults
<1>4. ASSUME \A b \in StartedBuilds(k) : builds'[b].started
      PROVE  StartedBuilds(k) \subseteq StartedBuilds(k)'
  BY <1>4, RowsKept DEF StartedBuilds, Created
<1>5. CASE RecordStart
  <2>1. cur.build \in DOMAIN builds /\ builds[cur.build].result = NULL
    BY <1>1, <1>5 DEF RecordStart, StartListPending, PendingBuilds
  <2>2. /\ DOMAIN builds' = DOMAIN builds
        /\ \A b \in DOMAIN builds :
              /\ b # cur.build => builds'[b] = builds[b]
              /\ StatusKey(b)' = StatusKey(b)
        /\ builds'[cur.build].started /\ builds'[cur.build].result = NULL
    BY <1>1, <1>5, <2>1 DEF RecordStart, StartBuild, DBTypeOK, BuildRow, StatusKey
  <2>3. StatusKey(cur.build) # k
    BY <2>1, <2>2 DEF StartedBuilds, Created
  <2>4. StartedBuilds(k)' = StartedBuilds(k)
    BY <2>2, <2>3 DEF StartedBuilds, Created
  <2>5. \A b \in StartedBuilds(k) : builds[b].result # NULL
    BY <2>2, <2>3, <2>4 DEF StartedBuilds, Created
  <2> QED
    BY <1>3, <1>5, <2>4, <2>5 DEF RecordStart, AfterStart
<1>6. CASE RecordResult
  <2>1. /\ cur.build \in DOMAIN builds /\ builds[cur.build].started
        /\ StatusKey(cur.build)' = StatusKey(cur.build)
    BY <1>1, <1>6, RowsKept DEF RecordResult, FinishListTracked, RunningIffTracked, Created, DBTypeOK
  <2>2. pc' = "finishStatus" /\ cur' = cur
    BY <1>6 DEF RecordResult
  <2>3. CASE StatusKey(cur.build) = k
    BY <2>1, <2>2, <2>3 DEF StatusKey
  <2>4. CASE StatusKey(cur.build) # k
    <3>1. /\ DOMAIN builds' = DOMAIN builds
          /\ \A b \in DOMAIN builds : b # cur.build => builds'[b] = builds[b]
      BY <1>1, <1>6, <2>1 DEF RecordResult, FinishBuild, DBTypeOK
    <3>2. StartedBuilds(k)' = StartedBuilds(k)
      BY <2>1, <2>4, <3>1, RowsKept DEF StartedBuilds, Created
    <3>3. \A b \in StartedBuilds(k) : builds[b].result # NULL
      BY <2>4, <3>1, <3>2 DEF StartedBuilds, Created
    <3> QED
      BY <1>3, <1>6, <3>2, <3>3 DEF RecordResult
  <2> QED
    BY <2>3, <2>4
<1>7. ASSUME UNCHANGED builds
      PROVE  /\ StartedBuilds(k)' = StartedBuilds(k)
             /\ statuses[k].state \in Results
                   \/ (pc = "finishStatus" /\ StatusKey(cur.build) = k)
  <2>1. StartedBuilds(k)' = StartedBuilds(k)
    BY <1>7 DEF StartedBuilds, Created, StatusKey
  <2> QED
    BY <1>3, <1>7, <2>1
<1>8. CASE SendFinalStatus
  <2>1. statuses' = [statuses EXCEPT ![StatusKey(cur.build)] =
                        [state |-> cur.result, build |-> cur.build]]
        /\ pc = "finishStatus" /\ UNCHANGED builds
    BY <1>8 DEF SendFinalStatus, dbVars
  <2>2. cur.result \in Results
    BY <1>1, <2>1 DEF Typed, CurTyped
  <2> QED
    BY <1>1, <1>7, <2>1, <2>2
<1>9. CASE SendPendingStatus
  <2>1. statuses' = [statuses EXCEPT ![StatusKey(cur.build)] =
                        [state |-> "pending", build |-> cur.build]]
        /\ pc = "startStatus" /\ UNCHANGED builds
    BY <1>9 DEF SendPendingStatus, dbVars
  <2>2. /\ cur.build \in DOMAIN builds /\ builds[cur.build].result = NULL
        /\ builds[cur.build].started
    BY <1>2, <2>1 DEF StatusInv, CurAgrees, Created
  <2>3. StatusKey(cur.build) # k
    BY <1>7, <2>1, <2>2 DEF StartedBuilds, Created
  <2> QED
    BY <1>1, <1>7, <2>1, <2>3
<1>10. ASSUME NEW repo \in Repos, NEW main \in BOOLEAN, NEW commit \in Commits,
              Webhook(repo, main, commit)
       PROVE  \/ statuses'[k].state \in Results
              \/ pc' = "finishStatus" /\ StatusKey(cur.build)' = k
  <2>1. PICK b \in Ids :
           /\ DOMAIN builds = 1..(b - 1)
           /\ builds' = Put(builds, b, [repo |-> repo, main |-> main, commit |-> commit,
                                        started |-> FALSE, result |-> NULL])
    BY <1>10 DEF Webhook, CreateBuild
  <2>2. /\ b \notin DOMAIN builds /\ DOMAIN builds' = DOMAIN builds \cup {b}
        /\ ~builds'[b].started
        /\ \A o \in DOMAIN builds : builds'[o] = builds[o]
    BY <2>1, BoundsAssumption DEF Ids, Put
  <2>3. StartedBuilds(k)' = StartedBuilds(k)
    BY <2>2, RowsKept DEF StartedBuilds, Created
  <2>4. \A o \in StartedBuilds(k) : builds[o].result # NULL
    BY <2>2, <2>3 DEF StartedBuilds, Created
  <2>5. UNCHANGED <<pc, cur, statuses>>
    BY <1>10 DEF Webhook, processorVars, localVars
  <2>6. pc = "finishStatus" => StatusKey(cur.build)' = StatusKey(cur.build)
    BY <2>2, <2>5 DEF StatusInv, CurAgrees, Created, StatusKey
  <2> QED
    BY <1>3, <2>3, <2>4, <2>5, <2>6
<1>11. ~ServerStops /\ ~FinalStatusFails /\ ~PendingStatusFails /\ ~RecordResultFails
       /\ ~RecordStartFails
  BY DEF ServerStops, FinalStatusFails, PendingStatusFails, RecordResultFails,
         RecordStartFails, Fault
<1>12. ASSUME UNCHANGED <<builds, statuses>>, pc = "finishStatus" => UNCHANGED <<pc, cur>>
       PROVE  \/ statuses'[k].state \in Results
              \/ pc' = "finishStatus" /\ StatusKey(cur.build)' = k
  BY <1>7, <1>12 DEF StatusKey
<1> QED
  BY <1>5, <1>6, <1>8, <1>9, <1>10, <1>11, <1>12
     DEF Next, vars, processorVars, localVars, dbVars, BuilderNext, ServerStarts,
         ProcessorStep, ListBuilders, SkipRunning, ReadExitCode, CleanExitCodeFails,
         GetPendingBuilds, SkipUnconfigured, StartBuilder, StartBuilderFails,
         ListBuildDirsInUse, ReadDirs, RemoveUnusedDir, RemoveUnusedDirFails,
         FinishPoll, QueryFails

(***************************************************************************)
(* StatusInv is inductive.                                                 *)
(***************************************************************************)
LEMMA StatusNext == StatusInv /\ [Next]_vars => StatusInv'
  BY TrackNext, CurAgreesNext, TrueNext, EndedNext DEF StatusInv

(***************************************************************************)
(* What GitHub shows of a commit is true: it names a build of the commit,  *)
(* and a final status is the result the database has for that build, after *)
(* any restart, lost transaction or lost request.                          *)
(***************************************************************************)
THEOREM StatusTrue == Spec => []StatusesAreTrue
<1>1. StatusInv => StatusesAreTrue
  BY DEF StatusInv
<1> QED
  BY <1>1, StatusInit, StatusNext, PTL DEF Spec

(***************************************************************************)
(* A commit does not stay pending when its builds have ended: if all the   *)
(* builds of the commit that were started have a result, GitHub shows a    *)
(* final status, or it is being sent.                                      *)
(***************************************************************************)
THEOREM EndedCommitsShown == Spec => []EndedCommitsShowResults
<1>1. StatusInv => EndedCommitsShowResults
  BY DEF StatusInv
<1> QED
  BY <1>1, StatusInit, StatusNext, PTL DEF Spec

(***************************************************************************)
(* A pending status is only sent of a build that has no result yet.        *)
(***************************************************************************)
THEOREM PendingInTime == Spec => NoLatePending
<1> DEFINE InTime == \A k \in StatusKeys :
          statuses'[k] # statuses[k] /\ statuses'[k].state = "pending"
              => builds[statuses'[k].build].result = NULL
<1>1. StatusInv /\ [Next]_vars => [InTime]_vars
  <2> SUFFICES ASSUME StatusInv, [Next]_vars, NEW k \in StatusKeys,
                      statuses'[k] # statuses[k], statuses'[k].state = "pending"
               PROVE  builds[statuses'[k].build].result = NULL
    OBVIOUS
  <2>1. /\ pc \in {"finishStatus", "startStatus"}
        /\ statuses'[k] = [state |-> IF pc = "finishStatus" THEN cur.result ELSE "pending",
                           build |-> cur.build]
    BY StatusesChange
  <2>2. pc = "finishStatus" => cur.result \in Results
    BY DEF StatusInv, TrackInv, Typed, CurTyped
  <2> QED
    BY <2>1, <2>2 DEF StatusInv, CurAgrees, Results
<1> QED
  BY <1>1, StatusInit, StatusNext, PTL DEF Spec, NoLatePending

-----------------------------------------------------------------------------
(***************************************************************************)
(* While no restart and no database error came between a start and its     *)
(* record.  LiveBuildersAreTracked is then inductive with two facts about  *)
(* what the build loop has in hand: the rows of its list name the builders *)
(* of the table, and the builder of a build that is finished is gone.      *)
(***************************************************************************)
Undisturbed == {"restart", "db"} \cap happened = {}

ListNamesBuilders == \A row \in finishList : row.pid = builders[row.build].pid

FinishedIsGone ==
    Undisturbed /\ pc = "finishTx" => \A p \in Pids : procs[p].build # cur.build

LiveInv ==
    TrackInv /\ LiveBuildersAreTracked /\ ListNamesBuilders /\ FinishedIsGone

(***************************************************************************)
(* Before the first webhook there is no builder.                           *)
(***************************************************************************)
LEMMA LiveInit == Init => LiveInv
  BY TrackInit DEF Init, LiveInv, LiveBuildersAreTracked, ListNamesBuilders,
     FinishedIsGone, ProcessorInit, BuilderInit

(***************************************************************************)
(* An undisturbed build that runs has one process, the one in the table.   *)
(***************************************************************************)
LEMMA OneLiveBuilder ==
    ASSUME LiveInv, Undisturbed, NEW p \in Pids, procs[p] # Free,
           procs[p].build \in DOMAIN builders
    PROVE  builders[procs[p].build].pid = p
  BY DEF LiveInv, LiveBuildersAreTracked, Undisturbed, TrackInv, StartListPending,
         RunningIffTracked, PendingBuilds, Created, Typed, TypeOK, DBTypeOK

(***************************************************************************)
(* The build loop starts and records one builder at a time, and finishes a *)
(* build once the builder named in the table is gone.                      *)
(***************************************************************************)
LEMMA LiveProcessor ==
    ASSUME LiveInv, ProcessorStep, TrackInv'
    PROVE  LiveInv'
<1>1. Typed /\ TrackInv /\ DBTypeOK /\ FinishListTracked /\ StartListPending
  BY DEF LiveInv, TrackInv, Typed, TypeOK
<1>2. \A p \in Pids : procs[p].build \in Ids => procs[p] # Free
  BY BoundsAssumption DEF Free, Ids
<1> USE DEF LiveInv, LiveBuildersAreTracked, ListNamesBuilders, FinishedIsGone, Undisturbed
<1>3. CASE ListBuilders
  BY <1>3 DEF ListBuilders, dbVars, builderVars, faultVars
<1>4. CASE SkipRunning
  BY <1>4 DEF SkipRunning, dbVars, builderVars, faultVars
<1>5. ASSUME pc = "finish", NEW row \in finishList, ~IsRunning(row.pid, row.build),
             Undisturbed
      PROVE  \A p \in Pids : procs[p].build # row.build
  <2>1. row.build \in DOMAIN builders /\ row.build \in Ids
    BY <1>1 DEF FinishListTracked, DBTypeOK
  <2> QED
    BY <1>2, <1>5, <2>1, OneLiveBuilder DEF IsRunning
<1>6. CASE ReadExitCode
  <2>1. PICK row \in finishList :
           /\ ~IsRunning(row.pid, row.build)
           /\ cur'.build = row.build
           /\ finishList' = finishList \ {row}
    BY <1>6 DEF ReadExitCode, Handle
  <2> QED
    BY <1>5, <1>6, <2>1 DEF ReadExitCode, dbVars, builderVars, faultVars
<1>7. CASE CleanExitCodeFails
  <2>1. PICK row \in finishList :
           /\ ~IsRunning(row.pid, row.build)
           /\ cur'.build = row.build
           /\ finishList' = finishList \ {row}
    BY <1>7 DEF CleanExitCodeFails, Handle
  <2> QED
    BY <1>5, <1>7, <2>1 DEF CleanExitCodeFails, Fault, dbVars, builderVars
<1>8. ASSUME pc = "finishTx", FinishBuild(cur.build, cur.result, cur.cacheFiles),
             pc' \in {"finish", "finishStatus"},
             happened \subseteq happened', UNCHANGED <<finishList, procs>>
      PROVE  LiveInv'
  <2>1. DOMAIN builders' = DOMAIN builders \ {cur.build}
        /\ \A b \in DOMAIN builders' : builders'[b] = builders[b]
    BY <1>8 DEF FinishBuild, Restrict
  <2>2. ListNamesBuilders'
    BY <1>1, <1>8, <2>1 DEF FinishListTracked
  <2>3. LiveBuildersAreTracked'
    BY <1>8, <2>1
  <2> QED
    BY <1>8, <2>2, <2>3
<1>9. CASE RecordResult
  BY <1>8, <1>9 DEF RecordResult, faultVars, builderVars
<1>10. CASE RecordResultFails
  BY <1>8, <1>10 DEF RecordResultFails, Fault, builderVars, dbVars
<1>11. CASE StartBuilder
  <2>1. PICK row \in startList, p \in Pids :
           /\ StartProcess(p, row.build, row.cache, RunDeploy(row.build))
           /\ cur'.build = row.build
           /\ cur'.pid = p
    BY <1>11 DEF StartBuilder
  <2>2. /\ \A o \in Pids \ {p} : procs'[o] = procs[o]
        /\ procs'[p].build = row.build
    BY <1>1, <2>1 DEF StartProcess, Typed, TypeOK, BuilderTypeOK
  <2>3. LiveBuildersAreTracked'
    BY <1>11, <2>1, <2>2 DEF StartBuilder, dbVars, faultVars
  <2> QED
    BY <1>11, <2>3 DEF StartBuilder, dbVars, faultVars
<1>12. CASE RecordStart
  <2>1. cur.build \notin DOMAIN builders
    BY <1>12 DEF RecordStart, StartBuild
  <2>2. /\ DOMAIN builders' = DOMAIN builders \cup {cur.build}
        /\ \A b \in DOMAIN builders : builders'[b] = builders[b]
        /\ builders'[cur.build].pid = cur.pid
    BY <1>12, <2>1 DEF RecordStart, StartBuild, Put
  <2> QED
    BY <1>1, <1>12, <2>2 DEF RecordStart, AfterStart, builderVars, faultVars, FinishListTracked
<1>13. CASE RecordStartFails
  BY <1>13 DEF RecordStartFails, AfterStart, Fault, dbVars
<1>14. ASSUME UNCHANGED <<dbVars, procs, finishList>>, happened \subseteq happened',
              pc # "startTx", pc' # "finishTx"
       PROVE  LiveInv'
  BY <1>14 DEF dbVars
<1> QED
  BY <1>3, <1>4, <1>6, <1>7, <1>9, <1>10, <1>11, <1>12, <1>13, <1>14
     DEF ProcessorStep, localVars, builderVars, faultVars, Fault, SendFinalStatus,
         FinalStatusFails, GetPendingBuilds, SkipUnconfigured, StartBuilderFails,
         SendPendingStatus, PendingStatusFails, ListBuildDirsInUse, ReadDirs,
         RemoveUnusedDir, RemoveUnusedDirFails, FinishPoll, QueryFails

(***************************************************************************)
(* What the process under a pid is for never changes while it lives.       *)
(***************************************************************************)
LEMMA BuilderKeepsParameters ==
    ASSUME Typed, NEW p \in Pids, BuilderNext(p)
    PROVE  /\ \A o \in Pids \ {p} : procs'[o] = procs[o]
           /\ procs[p] # Free
           /\ \/ procs'[p] = Free
              \/ /\ procs'[p].build = procs[p].build
                 /\ procs'[p].cache = procs[p].cache
                 /\ procs'[p].deploy = procs[p].deploy
<1>1. procs \in [Pids -> Process \cup {Free}]
  BY DEF Typed, TypeOK, BuilderTypeOK
<1>2. procs[p] # Free => procs[p] \in Process
  BY <1>1
<1>3. Free.step \notin Steps
  BY DEF Free, Steps
<1> USE <1>1, <1>2, <1>3 DEF At, Goto, Exit, Process, Steps
<1>4. CASE BuilderStep(p)
  <2>1. ASSUME \/ CreateEmptyDir(p) \/ CopyCache(p) \/ FinishCopy(p) \/ Checkout(p)
        PROVE  \E step \in Steps : procs[p].step \in Steps /\ Goto(p, step)
    BY <2>1 DEF CreateEmptyDir, CopyCache, FinishCopy, Checkout
  <2>2. ASSUME \/ MkdirFails(p) \/ CopyCacheFails(p) \/ CopyAborts(p)
               \/ RunBuildErrs(p) \/ ReportExitCode(p)
        PROVE  procs[p].step \in Steps /\ Exit(p)
    BY <2>2 DEF MkdirFails, CopyCacheFails, CopyAborts, RunBuildErrs, ReportExitCode
  <2>3. CASE RunBuildCmd(p)
    BY <2>3 DEF RunBuildCmd
  <2>4. CASE RunDeployCmd(p)
    BY <2>4 DEF RunDeployCmd
  <2> QED
    BY <1>4, <2>1, <2>2, <2>3, <2>4 DEF BuilderStep
<1>5. CASE BuilderFails(p)
  BY <1>5 DEF BuilderFails, BuilderDies, BuilderDiesWriting
<1> QED
  BY <1>4, <1>5 DEF BuilderNext

(***************************************************************************)
(* LiveInv is inductive.                                                   *)
(***************************************************************************)
LEMMA LiveNext == LiveInv /\ [Next]_vars => LiveInv'
<1> SUFFICES ASSUME LiveInv, [Next]_vars PROVE LiveInv'
  OBVIOUS
<1>1. TrackInv /\ TrackInv' /\ Typed
  BY TrackNext DEF LiveInv, TrackInv
<1>2. CASE ProcessorStep
  BY <1>1, <1>2, LiveProcessor
<1> USE DEF LiveInv, LiveBuildersAreTracked, ListNamesBuilders, FinishedIsGone,
            Undisturbed, dbVars, localVars, processorVars
<1>3. ASSUME NEW p \in Pids, BuilderNext(p) PROVE LiveInv'
  <2>1. UNCHANGED <<processorVars, dbVars>> /\ happened \subseteq happened'
    BY <1>3 DEF BuilderNext, BuilderFails, BuilderDies, BuilderDiesWriting, Fault, faultVars
  <2>2. /\ \A o \in Pids \ {p} : procs'[o] = procs[o]
        /\ procs[p] # Free
        /\ procs'[p] = Free \/ procs'[p].build = procs[p].build
    BY <1>1, <1>3, BuilderKeepsParameters
  <2>3. Undisturbed' => Undisturbed
    BY <2>1
  <2>4. LiveBuildersAreTracked'
    BY <2>1, <2>2, <2>3
  <2>5. FinishedIsGone'
    <3>1. pc = "finishTx" => cur.build # Free.build
      BY <1>1, BoundsAssumption DEF Typed, CurTyped, CurRow, Free, Ids
    <3> QED
      BY <2>1, <2>2, <2>3, <3>1
  <2> QED
    BY <1>1, <2>1, <2>4, <2>5
<1>4. ASSUME NEW repo \in Repos, NEW main \in BOOLEAN, NEW commit \in Commits,
             Webhook(repo, main, commit)
      PROVE  LiveInv'
  BY <1>1, <1>4 DEF Webhook, CreateBuild, builderVars, faultVars
<1>5. CASE ServerStops
  BY <1>1, <1>5 DEF ServerStops, LocalReset, Fault
<1>6. CASE ServerStarts
  BY <1>1, <1>6 DEF ServerStarts, builderVars, faultVars
<1>7. CASE UNCHANGED vars
  BY <1>1, <1>7 DEF vars, builderVars, faultVars
<1> QED
  BY <1>2, <1>3, <1>4, <1>5, <1>6, <1>7 DEF Next

(***************************************************************************)
(* No build is built or deployed by two processes, as long as no restart   *)
(* and no database error separates a start from its record.                *)
(***************************************************************************)
THEOREM OneBuilderPerBuild == Spec => []LiveBuildersAreTracked
<1>1. LiveInv => LiveBuildersAreTracked
  BY DEF LiveInv
<1> QED
  BY <1>1, LiveInit, LiveNext, PTL DEF Spec

-----------------------------------------------------------------------------
(***************************************************************************)
(* A verdict that is reported is where the next step finds it.  A build    *)
(* that was not started has none; one that has no result has none, or has  *)
(* one in its file and no builder left; one in hand has the result that    *)
(* stands for it.                                                          *)
(***************************************************************************)
UndisturbedFiles == {"restart", "db", "fs"} \cap happened = {}

Unstarted(b) ==
    b \notin Created \/ (b \in PendingBuilds /\ ~(pc = "startTx" /\ cur.build = b))

Unrecorded(b) ==
    /\ b \in Created => builds[b].result = NULL
    /\ ~(pc = "finishTx" /\ cur.build = b)

InFile(b) ==
    /\ \E code \in ExitCodes :
          reported[b] = {code} /\ exitCodes[b] = FormatExitCode(code)
    /\ \A p \in Pids : procs[p].build # b

StandsFor(b, result) ==
    reported[b] # {} => \E code \in reported[b] : result = ResultOf(FormatExitCode(code))

Kept ==
    /\ \A b \in Ids : Unstarted(b) => reported[b] = {}
    /\ \A b \in Ids : Unrecorded(b) => reported[b] = {} \/ InFile(b)
    /\ pc = "finishTx" => StandsFor(cur.build, cur.result)
    /\ VerdictRecorded

KeptInv == LiveInv /\ (UndisturbedFiles => Kept)

(***************************************************************************)
(* Before the first webhook nothing is reported.                           *)
(***************************************************************************)
LEMMA KeptInit == Init => KeptInv
  BY LiveInit DEF Init, KeptInv, Kept, StandsFor, VerdictRecorded, ProcessorInit,
     BuilderInit, DBInit, Created

(***************************************************************************)
(* Steps that touch no verdict: they may only bring builds on from "not    *)
(* started".                                                               *)
(***************************************************************************)
LEMMA KeptUntouched ==
    ASSUME Kept, UNCHANGED <<exitCodes, reported>>, DOMAIN builds' = DOMAIN builds,
           \A b \in DOMAIN builds : builds'[b].result = builds[b].result,
           PendingBuilds' \subseteq PendingBuilds,
           \A p \in Pids : procs'[p] = procs[p],
           pc = "startTx" => cur.build \notin PendingBuilds',
           pc # "finishTx", pc' # "finishTx"
    PROVE  Kept'
<1> USE DEF Kept, Created
<1>1. \A b \in Ids : Unstarted(b)' => Unstarted(b)
  BY DEF Unstarted
<1>2. \A b \in Ids : Unrecorded(b)' => Unrecorded(b)
  BY DEF Unrecorded
<1>3. \A b \in Ids : InFile(b) => InFile(b)'
  BY DEF InFile
<1>4. VerdictRecorded'
  BY DEF VerdictRecorded
<1> QED
  BY <1>1, <1>2, <1>3, <1>4

(***************************************************************************)
(* An undisturbed builder is the only one of a build that was started and  *)
(* whose result is not yet in hand.                                        *)
(***************************************************************************)
LEMMA LiveBuilderUnrecorded ==
    ASSUME LiveInv, Undisturbed, NEW p \in Pids, procs[p] # Free
    PROVE  /\ procs[p].build \in Ids
           /\ Unrecorded(procs[p].build)
           /\ ~Unstarted(procs[p].build)
           /\ \A o \in Pids \ {p} : procs[o].build # procs[p].build
<1> DEFINE b == procs[p].build
<1>1. Typed /\ TrackInv /\ procs[p] \in Process
  BY DEF LiveInv, TrackInv, Typed, TypeOK, BuilderTypeOK
<1>2. b \in Ids
  BY <1>1 DEF Process
<1>3. \/ b \in DOMAIN builders /\ builders[b].pid = p
      \/ pc = "startTx" /\ cur.build = b /\ cur.pid = p
  BY DEF LiveInv, LiveBuildersAreTracked, Undisturbed
<1>4. \/ b \in DOMAIN builders
      \/ pc = "startTx" /\ cur.build = b /\ b \in PendingBuilds
  BY <1>1, <1>3 DEF TrackInv, StartListPending
<1>5. b \in DOMAIN builds /\ builds[b].result = NULL
  BY <1>1, <1>4 DEF TrackInv, RunningIffTracked, Created, PendingBuilds, Typed, TypeOK, DBTypeOK
<1>6. b \in DOMAIN builders => b \notin PendingBuilds
  BY <1>1, <1>2 DEF TrackInv, RunningIffTracked, PendingBuilds
<1>7. ~(pc = "finishTx" /\ cur.build = b)
  BY DEF LiveInv, FinishedIsGone
<1>8. \A o \in Pids \ {p} : procs[o].build # b
  <2> SUFFICES ASSUME NEW o \in Pids \ {p}, procs[o].build = b PROVE FALSE
    OBVIOUS
  <2>1. procs[o] # Free
    BY <1>2, BoundsAssumption DEF Free, Ids
  <2>2. \/ b \in DOMAIN builders /\ builders[b].pid = o
        \/ pc = "startTx" /\ cur.build = b /\ cur.pid = o
    BY <2>1 DEF LiveInv, LiveBuildersAreTracked, Undisturbed
  <2> QED
    BY <1>1, <1>3, <1>6, <2>2 DEF TrackInv, StartListPending
<1> QED
  BY <1>2, <1>4, <1>5, <1>6, <1>7, <1>8 DEF Unrecorded, Unstarted, Created

(***************************************************************************)
(* The build loop takes a verdict from its file into its hand and from     *)
(* there to the table.                                                     *)
(***************************************************************************)
LEMMA KeptProcessor ==
    ASSUME LiveInv, UndisturbedFiles => Kept, ProcessorStep, UndisturbedFiles'
    PROVE  Kept'
<1>1. /\ Typed /\ TrackInv /\ DBTypeOK /\ RunningIffTracked
      /\ FinishListTracked /\ StartListPending
  BY DEF LiveInv, TrackInv, Typed, TypeOK
<1>2. UndisturbedFiles
  BY DEF UndisturbedFiles, faultVars, Fault, ProcessorStep, ListBuilders, SkipRunning,
         ReadExitCode, CleanExitCodeFails, RecordResult, RecordResultFails,
         SendFinalStatus, FinalStatusFails, GetPendingBuilds, SkipUnconfigured,
         StartBuilder, StartBuilderFails, RecordStart, RecordStartFails,
         SendPendingStatus, PendingStatusFails, ListBuildDirsInUse, ReadDirs,
         RemoveUnusedDir, RemoveUnusedDirFails, FinishPoll, QueryFails
<1>3. Kept
  BY <1>2
<1>4. exitCodes \in [Ids -> FileContents] /\ procs \in [Pids -> Process \cup {Free}]
  BY <1>1 DEF Typed, TypeOK, FSTypeOK, BuilderTypeOK
<1>5. CASE ReadExitCode
  <2>1. PICK row \in finishList :
           /\ ~IsRunning(row.pid, row.build)
           /\ Handle(row.build, ResultOf(exitCodes[row.build]))
           /\ CleanExitCode(row.build)
    BY <1>5 DEF ReadExitCode
  <2>2. row.build \in Ids /\ row.build \in DOMAIN builders
    BY <1>1 DEF FinishListTracked, DBTypeOK
  <2>3. Unrecorded(row.build)
    BY <1>1, <1>5, <2>2 DEF Unrecorded, RunningIffTracked, ReadExitCode
  <2>4. \A b \in Ids \ {row.build} : exitCodes'[b] = exitCodes[b]
    BY <1>4, <2>1 DEF CleanExitCode
  <2>5. /\ pc = "finish" /\ pc' = "finishTx"
        /\ cur'.build = row.build /\ cur'.result = ResultOf(exitCodes[row.build])
        /\ UNCHANGED <<builds, procs, reported>>
    BY <1>5, <2>1 DEF ReadExitCode, Handle, dbVars, builderVars
  <2>6. StandsFor(cur.build, cur.result)'
    BY <1>3, <2>2, <2>3, <2>5 DEF Kept, StandsFor, InFile
  <2>7. \A b \in Ids : Unstarted(b)' => Unstarted(b)
    BY <2>5 DEF Unstarted, Created, PendingBuilds
  <2>8. \A b \in Ids : Unrecorded(b)' => b # row.build /\ Unrecorded(b)
    BY <2>5 DEF Unrecorded, Created
  <2>9. \A b \in Ids \ {row.build} : InFile(b) => InFile(b)'
    BY <2>4, <2>5 DEF InFile
  <2>10. VerdictRecorded'
    BY <1>3, <2>5 DEF Kept, VerdictRecorded, Created
  <2> QED
    BY <1>3, <2>5, <2>6, <2>7, <2>8, <2>9, <2>10 DEF Kept
<1>6. CASE RecordResult
  <2>1. /\ cur.build \in DOMAIN builders /\ cur.build \in DOMAIN builds
        /\ cur.result \in Results /\ cur.cacheFiles \in BOOLEAN
    BY <1>1, <1>6 DEF RecordResult, FinishListTracked, RunningIffTracked, Created,
                      DBTypeOK, Typed, CurTyped, CurRow
  <2>2. PendingBuilds' = PendingBuilds
    BY <1>1, <1>6, <2>1, FinishBuildTracked DEF RecordResult
  <2>3. /\ DOMAIN builds' = DOMAIN builds
        /\ \A b \in DOMAIN builds : b # cur.build => builds'[b] = builds[b]
        /\ builds'[cur.build].result = cur.result
    BY <1>1, <1>6, <2>1 DEF RecordResult, FinishBuild, DBTypeOK, BuildRow
  <2>4. /\ pc = "finishTx" /\ pc' \in {"finish", "finishStatus"}
        /\ UNCHANGED <<exitCodes, reported, procs>>
    BY <1>6 DEF RecordResult, fsVars, builderVars
  <2>5. cur.result # NULL
    BY <2>1 DEF Results
  <2>6. \A b \in Ids : Unrecorded(b)' => Unrecorded(b)
    BY <2>1, <2>3, <2>4, <2>5 DEF Unrecorded, Created
  <2>7. \A b \in Ids : Unstarted(b)' => Unstarted(b)
    BY <2>2, <2>3, <2>4 DEF Unstarted, Created
  <2>8. VerdictRecorded'
    BY <1>3, <2>1, <2>3, <2>4 DEF Kept, VerdictRecorded, StandsFor, Created
  <2>9. \A b \in Ids : InFile(b) => InFile(b)'
    BY <2>4 DEF InFile
  <2> QED
    BY <1>3, <2>4, <2>6, <2>7, <2>8, <2>9 DEF Kept
<1>7. CASE StartBuilder
  <2>1. PICK row \in startList, p \in Pids :
           /\ StartProcess(p, row.build, row.cache, RunDeploy(row.build))
           /\ cur'.build = row.build
    BY <1>7 DEF StartBuilder
  <2>2. row.build \in PendingBuilds
    BY <1>1 DEF StartListPending
  <2>3. /\ \A o \in Pids \ {p} : procs'[o] = procs[o]
        /\ procs'[p].build = row.build
        /\ reported' = reported
    BY <1>4, <2>1 DEF StartProcess
  <2>4. pc = "start" /\ pc' = "startTx" /\ UNCHANGED <<builds, exitCodes>>
    BY <1>7 DEF StartBuilder, dbVars, fsVars
  <2>5. \A b \in Ids : Unstarted(b)' => Unstarted(b)
    BY <2>4 DEF Unstarted, PendingBuilds, Created
  <2>6. \A b \in Ids : Unrecorded(b)' => Unrecorded(b)
    BY <2>4 DEF Unrecorded, Created
  <2>7. Unstarted(row.build)
    BY <2>2, <2>4 DEF Unstarted
  <2>8. \A b \in Ids \ {row.build} : InFile(b) => InFile(b)'
    BY <2>3, <2>4 DEF InFile
  <2>9. VerdictRecorded'
    BY <1>3, <2>3, <2>4 DEF Kept, VerdictRecorded, Created
  <2> QED
    BY <1>3, <2>3, <2>4, <2>5, <2>6, <2>7, <2>8, <2>9 DEF Kept
<1>8. CASE RecordStart
  <2>1. cur.build \in PendingBuilds /\ cur.pid \in Pids /\ cur.cache \in CacheIds
    BY <1>1, <1>8 DEF RecordStart, StartListPending, Typed, CurTyped, CurRow
  <2>2. PendingBuilds' = PendingBuilds \ {cur.build}
    BY <1>1, <1>8, <2>1, StartBuildTracked DEF RecordStart
  <2>3. /\ DOMAIN builds' = DOMAIN builds
        /\ \A b \in DOMAIN builds : builds'[b].result = builds[b].result
    BY <1>1, <1>8 DEF RecordStart, StartBuild, DBTypeOK, BuildRow
  <2> QED
    BY <1>3, <1>8, <2>2, <2>3, KeptUntouched DEF RecordStart, AfterStart, fsVars, builderVars
<1>9. ~CleanExitCodeFails /\ ~RecordResultFails /\ ~RecordStartFails
  BY DEF CleanExitCodeFails, RecordResultFails, RecordStartFails, Fault, UndisturbedFiles
<1>10. ASSUME UNCHANGED <<dbVars, exitCodes, reported, procs>>,
              pc \notin {"startTx", "finishTx"}, pc' # "finishTx"
       PROVE  Kept'
  <2>1. PendingBuilds' = PendingBuilds
    BY <1>10 DEF PendingBuilds, dbVars
  <2> QED
    BY <1>3, <1>10, <2>1, KeptUntouched DEF dbVars
<1> QED
  BY <1>5, <1>6, <1>7, <1>8, <1>9, <1>10
     DEF ProcessorStep, localVars, fsVars, builderVars, ListBuilders, SkipRunning,
         SendFinalStatus, FinalStatusFails, GetPendingBuilds, SkipUnconfigured,
         StartBuilderFails, SendPendingStatus, PendingStatusFails, ListBuildDirsInUse,
         ReadDirs, RemoveUnusedDir, RemoveUnusedDirFails, FinishPoll, QueryFails

(***************************************************************************)
(* A builder reports once, and is gone then.                               *)
(***************************************************************************)
LEMMA KeptBuilder ==
    ASSUME LiveInv, UndisturbedFiles, Kept, NEW p \in Pids, BuilderNext(p)
    PROVE  Kept'
<1>1. Typed /\ Undisturbed
  BY DEF LiveInv, TrackInv, Undisturbed, UndisturbedFiles
<1>2. /\ exitCodes \in [Ids -> FileContents]
      /\ reported \in [Ids -> SUBSET ExitCodes]
      /\ procs \in [Pids -> Process \cup {Free}]
  BY <1>1 DEF Typed, TypeOK, FSTypeOK, BuilderTypeOK
<1>3. /\ \A o \in Pids \ {p} : procs'[o] = procs[o]
      /\ procs[p] # Free
      /\ procs'[p] = Free \/ procs'[p].build = procs[p].build
  BY <1>1, BuilderKeepsParameters
<1>0. PICK b \in Ids : b = procs[p].build
  BY <1>1, <1>3, LiveBuilderUnrecorded
<1>4. /\ Unrecorded(b) /\ ~Unstarted(b)
      /\ \A o \in Pids \ {p} : procs[o].build # b
  BY <1>0, <1>1, <1>3, LiveBuilderUnrecorded
<1>5. reported[b] = {}
  BY <1>0, <1>4 DEF Kept, InFile
<1>6. UNCHANGED <<pc, cur, builds>>
  BY DEF BuilderNext, processorVars, localVars, dbVars
<1>7. Free.build \notin Ids
  BY BoundsAssumption DEF Free, Ids
<1>8. \A o \in Ids : (Unstarted(o)' <=> Unstarted(o)) /\ (Unrecorded(o)' <=> Unrecorded(o))
  BY <1>6 DEF Unstarted, Unrecorded, Created, PendingBuilds
<1>9. \A o \in Ids \ {b}, q \in Pids : procs[q].build # o => procs'[q].build # o
  BY <1>0, <1>3, <1>7
<1>10. pc = "finishTx" => cur.build \in Ids
  BY <1>1 DEF Typed, CurTyped, CurRow
<1>11. ASSUME \A o \in Ids \ {b} : reported'[o] = reported[o] /\ exitCodes'[o] = exitCodes[o],
              reported'[b] = {} \/ InFile(b)'
       PROVE  Kept'
  <2>1. \A o \in Ids \ {b} : InFile(o) => InFile(o)'
    BY <1>9, <1>11 DEF InFile
  <2>2. pc' = "finishTx" => cur'.build # b
    BY <1>4, <1>6 DEF Unrecorded
  <2>3. VerdictRecorded'
    <3>1. b \in DOMAIN builds => builds[b].result = NULL
      BY <1>4 DEF Unrecorded, Created
    <3>2. DOMAIN builds \subseteq Ids
      BY <1>1 DEF Typed, TypeOK, DBTypeOK
    <3> QED
      BY <1>6, <1>11, <3>1, <3>2 DEF Kept, VerdictRecorded, Created
  <2> QED
    BY <1>4, <1>6, <1>8, <1>10, <1>11, <2>1, <2>2, <2>3 DEF Kept, StandsFor
<1>12. CASE ReportExitCode(p)
  <2>1. procs[p].code \in ExitCodes /\ procs'[p] = Free
    BY <1>1, <1>2, <1>12 DEF ReportExitCode, Typed, CodesTyped, Exit
  <2>2. InFile(b)'
    BY <1>0, <1>2, <1>3, <1>4, <1>5, <1>7, <1>12, <2>1 DEF ReportExitCode, WriteExitCode, InFile
  <2> QED
    BY <1>0, <1>2, <1>11, <1>12, <2>2 DEF ReportExitCode, WriteExitCode
<1>13. CASE BuilderDiesWriting(p)
  BY <1>0, <1>2, <1>5, <1>11, <1>13 DEF BuilderDiesWriting, TearExitCode
<1>14. CASE UNCHANGED <<exitCodes, reported>>
  BY <1>5, <1>11, <1>14
<1> QED
  BY <1>12, <1>13, <1>14
     DEF BuilderNext, BuilderStep, BuilderFails, BuilderDies, fsVars, CreateEmptyDir,
         MkdirFails, CopyCache, CopyCacheFails, FinishCopy, CopyAborts, Checkout,
         RunBuildCmd, RunDeployCmd, RunBuildErrs

(***************************************************************************)
(* KeptInv is inductive.                                                   *)
(***************************************************************************)
LEMMA KeptNext == KeptInv /\ [Next]_vars => KeptInv'
<1> SUFFICES ASSUME KeptInv, [Next]_vars, UndisturbedFiles' PROVE Kept'
  BY LiveNext DEF KeptInv
<1>1. LiveInv
  BY DEF KeptInv
<1>2. CASE ProcessorStep
  BY <1>1, <1>2, KeptProcessor DEF KeptInv
<1>3. ASSUME NEW p \in Pids, BuilderNext(p) PROVE Kept'
  <2>1. UndisturbedFiles
    BY <1>3 DEF BuilderNext, BuilderFails, BuilderDies, BuilderDiesWriting, Fault,
                UndisturbedFiles, faultVars
  <2> QED
    BY <1>1, <1>3, <2>1, KeptBuilder DEF KeptInv
<1>4. ASSUME NEW repo \in Repos, NEW main \in BOOLEAN, NEW commit \in Commits,
             Webhook(repo, main, commit)
      PROVE  Kept'
  <2>1. PICK b \in Ids :
           /\ DOMAIN builds = 1..(b - 1)
           /\ builds' = Put(builds, b, [repo |-> repo, main |-> main, commit |-> commit,
                                        started |-> FALSE, result |-> NULL])
    BY <1>4 DEF Webhook, CreateBuild
  <2>2. UNCHANGED <<happened, pc, cur, exitCodes, reported, procs>>
    BY <1>4 DEF Webhook, processorVars, localVars, fsVars, builderVars, faultVars
  <2>3. Kept
    BY <2>2 DEF KeptInv, UndisturbedFiles
  <2>4. /\ b \notin DOMAIN builds /\ DOMAIN builds' = DOMAIN builds \cup {b}
        /\ builds'[b].result = NULL
        /\ \A o \in DOMAIN builds : builds'[o] = builds[o]
    BY <2>1, BoundsAssumption DEF Ids, Put
  <2>5. \A o \in Ids : Unstarted(o)' => Unstarted(o)
    BY <2>2, <2>4 DEF Unstarted, PendingBuilds, Created
  <2>6. \A o \in Ids : Unrecorded(o)' => Unrecorded(o)
    BY <2>2, <2>4 DEF Unrecorded, Created
  <2>7. \A o \in Ids : InFile(o)' = InFile(o)
    BY <2>2 DEF InFile
  <2>8. VerdictRecorded'
    BY <2>2, <2>3, <2>4 DEF Kept, VerdictRecorded, Created
  <2> QED
    BY <2>2, <2>3, <2>5, <2>6, <2>7, <2>8 DEF Kept, StandsFor
<1>5. CASE ServerStops
  BY <1>5 DEF ServerStops, Fault, UndisturbedFiles
<1>6. CASE ServerStarts
  <2>1. Kept
    BY <1>6 DEF KeptInv, ServerStarts, UndisturbedFiles, faultVars
  <2> QED
    BY <1>6, <2>1, KeptUntouched
       DEF ServerStarts, PendingBuilds, localVars, dbVars, fsVars, builderVars
<1>7. CASE UNCHANGED vars
  BY <1>7 DEF vars, KeptInv, UndisturbedFiles, Kept, Unstarted, Unrecorded, InFile,
     StandsFor, VerdictRecorded, Created, PendingBuilds, processorVars, localVars,
     dbVars, fsVars, builderVars, faultVars
<1> QED
  BY <1>2, <1>3, <1>4, <1>5, <1>6, <1>7 DEF Next

(***************************************************************************)
(* A verdict that a builder wrote is the one in the database, unless a     *)
(* restart, a database error or a file that could not be deleted came      *)
(* between; the death of builders and lost requests do not matter.         *)
(***************************************************************************)
THEOREM VerdictsKept == Spec => []VerdictKept
<1>1. KeptInv => VerdictKept
  BY DEF KeptInv, Kept, VerdictKept, UndisturbedFiles
<1> QED
  BY <1>1, KeptInit, KeptNext, PTL DEF Spec
=============================================================================
