-------------------------- MODULE LifecycleProofs --------------------------
(***************************************************************************)
(* CIServer implements BuildLifecycle.  The tables are mapped to the status*)
(* and the repository of each id and the cache of each repository; then    *)
(* every step of the server, a builder or a fault is a step of the         *)
(* lifecycle or changes nothing an observer of the database can see.       *)
(***************************************************************************)
EXTENDS CIServerProofs

USE DEF NULL, NoCache, CacheIds

(***************************************************************************)
(* The mapped variables, as the lifecycle sees them.                       *)
(***************************************************************************)
mappedVars ==
    <<[b \in Ids |-> StatusOf(b)], [b \in Ids |-> RepoOf(b)], cacheId>>

(***************************************************************************)
(* Before the first webhook no id is used and no repository has a cache.   *)
(***************************************************************************)
LEMMA MappedInit == Init => Lifecycle!Init
  BY DEF Init, DBInit, Lifecycle!Init, StatusOf, RepoOf, Created, Lifecycle!NoRepo

(***************************************************************************)
(* Who reads only the two tables and the caches sees no step that does not *)
(* change them.                                                            *)
(***************************************************************************)
LEMMA MappedStutter == UNCHANGED dbVars => UNCHANGED mappedVars
  BY DEF dbVars, mappedVars, StatusOf, RepoOf, Created

(***************************************************************************)
(* A webhook uses an id greater than all before.                           *)
(***************************************************************************)
LEMMA MappedCreate ==
    ASSUME TrackInv, NEW repo \in Repos, NEW main \in BOOLEAN, NEW commit \in Commits,
           CreateBuild(repo, main, commit)
    PROVE  \E b \in Ids : Lifecycle!Create(b, repo)
<1>1. PICK b \in Ids :
         /\ DOMAIN builds = 1..(b - 1)
         /\ builds' = Put(builds, b, [repo |-> repo, main |-> main, commit |-> commit,
                                      started |-> FALSE, result |-> NULL])
         /\ UNCHANGED <<builders, cacheId>>
  BY DEF CreateBuild
<1>2. b \notin DOMAIN builds /\ \A o \in DOMAIN builds : o < b
  BY <1>1, BoundsAssumption DEF Ids
<1>3. /\ DOMAIN builds' = DOMAIN builds \cup {b}
      /\ builds'[b].result = NULL /\ builds'[b].repo = repo
      /\ \A o \in DOMAIN builds : builds'[o] = builds[o]
  BY <1>1, <1>2 DEF Put
<1>4. b \notin DOMAIN builders
  BY <1>2 DEF TrackInv, RunningIffTracked, Created
<1>5. \A o \in Ids : StatusOf(o)' = IF o = b THEN "pending" ELSE StatusOf(o)
  BY <1>1, <1>2, <1>3, <1>4 DEF StatusOf, Created
<1>6. \A o \in Ids : RepoOf(o)' = IF o = b THEN repo ELSE RepoOf(o)
  BY <1>1, <1>2, <1>3 DEF RepoOf, Created
<1>7. \A o \in Ids : StatusOf(o) # "none" => o < b
  BY <1>2 DEF StatusOf, Created
<1> QED
  BY <1>1, <1>5, <1>6, <1>7 DEF Lifecycle!Create

(***************************************************************************)
(* The record of a start makes a pending build a running one.              *)
(***************************************************************************)
LEMMA MappedStart ==
    ASSUME TrackInv, NEW b \in PendingBuilds, NEW pid \in Pids, NEW cache \in CacheIds,
           StartBuild(b, pid, cache)
    PROVE  Lifecycle!Start(b)
<1>1. DBTypeOK /\ RunningIffTracked
  BY DEF TrackInv, Typed, TypeOK
<1>2. b \in Ids /\ b \in DOMAIN builds /\ builds[b].result = NULL /\ b \notin DOMAIN builders
  BY <1>1 DEF PendingBuilds, RunningIffTracked, DBTypeOK
<1>3. /\ DOMAIN builds' = DOMAIN builds
      /\ \A o \in DOMAIN builds :
            builds'[o].result = builds[o].result /\ builds'[o].repo = builds[o].repo
      /\ DOMAIN builders' = DOMAIN builders \cup {b}
      /\ cacheId' = cacheId
  BY <1>1 DEF StartBuild, Put, DBTypeOK, BuildRow
<1>4. StatusOf(b) = "pending"
  BY <1>2 DEF StatusOf, Created
<1>5. \A o \in Ids : StatusOf(o)' = IF o = b THEN "running" ELSE StatusOf(o)
  BY <1>2, <1>3 DEF StatusOf, Created
<1>6. \A o \in Ids : RepoOf(o)' = RepoOf(o)
  BY <1>3 DEF RepoOf, Created
<1> QED
  BY <1>2, <1>3, <1>4, <1>5, <1>6 DEF Lifecycle!Start

(***************************************************************************)
(* The record of a result ends a running build, which becomes the cache of *)
(* its repository only if it is younger than the one there is.             *)
(***************************************************************************)
LEMMA MappedFinish ==
    ASSUME TrackInv, NEW b \in DOMAIN builders, NEW result \in Results,
           NEW cacheFiles \in BOOLEAN, FinishBuild(b, result, cacheFiles)
    PROVE  Lifecycle!Finish(b, result)
<1>1. DBTypeOK /\ RunningIffTracked
  BY DEF TrackInv, Typed, TypeOK
<1>2. b \in Ids /\ b \in DOMAIN builds /\ builds[b].result = NULL
  BY <1>1 DEF RunningIffTracked, DBTypeOK, Created
<1>3. /\ DOMAIN builds' = DOMAIN builds
      /\ \A o \in DOMAIN builds :
            /\ o # b => builds'[o] = builds[o]
            /\ builds'[o].repo = builds[o].repo
      /\ builds'[b].result = result
      /\ DOMAIN builders' = DOMAIN builders \ {b}
  BY <1>1, <1>2 DEF FinishBuild, Restrict, DBTypeOK, BuildRow
<1>4. result # NULL
  BY DEF Results
<1>5. StatusOf(b) = "running"
  BY <1>2 DEF StatusOf, Created
<1>6. \A o \in Ids : StatusOf(o)' = IF o = b THEN result ELSE StatusOf(o)
  BY <1>2, <1>3, <1>4 DEF StatusOf, Created
<1>7. \A o \in Ids : RepoOf(o)' = RepoOf(o)
  BY <1>3 DEF RepoOf, Created
<1>8. RepoOf(b) = builds[b].repo /\ builds[b].repo \in Repos
  BY <1>1, <1>2 DEF RepoOf, Created, DBTypeOK, BuildRow
<1>9. cacheId' = cacheId \/ Lifecycle!BecomesCache(b)
  <2>1. CASE cacheFiles /\ cacheId[builds[b].repo] < b
    <3>1. cacheId' = [cacheId EXCEPT ![builds[b].repo] = b]
      BY <1>1, <2>1 DEF FinishBuild, MoveCache, DBTypeOK
    <3> QED
      BY <1>2, <1>8, <2>1, <3>1 DEF Lifecycle!BecomesCache
  <2>2. CASE ~(cacheFiles /\ cacheId[builds[b].repo] < b)
    BY <1>1, <2>2 DEF FinishBuild, MoveCache, DBTypeOK
  <2> QED
    BY <2>1, <2>2
<1> QED
  BY <1>2, <1>5, <1>6, <1>7, <1>9 DEF Lifecycle!Finish

(***************************************************************************)
(* Every step of CIServer is one of the lifecycle or a stuttering step.    *)
(***************************************************************************)
LEMMA MappedNext == TrackInv /\ [Next]_vars => [Lifecycle!Next]_mappedVars
<1> SUFFICES ASSUME TrackInv, [Next]_vars
             PROVE  Lifecycle!Next \/ UNCHANGED dbVars
  BY MappedStutter
<1>1. Typed /\ FinishListTracked /\ StartListPending /\ DBTypeOK
  BY DEF TrackInv, Typed, TypeOK
<1>2. ASSUME NEW repo \in Repos, NEW main \in BOOLEAN, NEW commit \in Commits,
             Webhook(repo, main, commit)
      PROVE  Lifecycle!Next
  BY <1>2, MappedCreate DEF Webhook, Lifecycle!Next
<1>3. CASE RecordStart
  <2>1. cur.build \in PendingBuilds /\ cur.pid \in Pids /\ cur.cache \in CacheIds
    BY <1>1, <1>3 DEF RecordStart, StartListPending, Typed, CurTyped, CurRow
  <2>2. cur.build \in Ids
    BY <1>1, <2>1 DEF PendingBuilds, DBTypeOK
  <2> QED
    BY <1>3, <2>1, <2>2, MappedStart DEF RecordStart, Lifecycle!Next
<1>4. ASSUME pc = "finishTx", FinishBuild(cur.build, cur.result, cur.cacheFiles)
      PROVE  Lifecycle!Next
  <2>1. /\ cur.build \in DOMAIN builders
        /\ cur.result \in Results /\ cur.cacheFiles \in BOOLEAN
    BY <1>1, <1>4 DEF FinishListTracked, Typed, CurTyped, CurRow
  <2>2. cur.build \in Ids
    BY <1>1, <2>1 DEF DBTypeOK
  <2> QED
    BY <1>4, <2>1, <2>2, MappedFinish DEF Lifecycle!Next
<1>5. CASE RecordResult
  BY <1>4, <1>5 DEF RecordResult
<1>6. CASE RecordResultFails
  BY <1>4, <1>6 DEF RecordResultFails
<1> QED
  BY <1>2, <1>3, <1>5, <1>6
     DEF Next, vars, BuilderNext, ServerStops, ServerStarts, ProcessorStep,
         ListBuilders, SkipRunning, ReadExitCode, CleanExitCodeFails, SendFinalStatus,
         FinalStatusFails, GetPendingBuilds, SkipUnconfigured, StartBuilder,
         StartBuilderFails, RecordStartFails, SendPendingStatus, PendingStatusFails,
         ListBuildDirsInUse, ReadDirs, RemoveUnusedDir, RemoveUnusedDirFails,
         FinishPoll, QueryFails

(***************************************************************************)
(* What an observer of the database sees is a build lifecycle: created     *)
(* once, run once, ended once with a result that stays, and a cache that   *)
(* only moves to younger builds, whatever fails and restarts.              *)
(***************************************************************************)
THEOREM LifecycleImplemented == Spec => ImplementsLifecycle
<1>1. Spec => Lifecycle!Init /\ [][Lifecycle!Next]_mappedVars
  BY MappedInit, MappedNext, TrackInit, TrackNext, PTL DEF Spec
<1>2. mappedVars = Lifecycle!vars
  BY DEF mappedVars, Lifecycle!vars
<1> QED
  BY <1>1, PTL DEF ImplementsLifecycle, Lifecycle!Spec, mappedVars, Lifecycle!vars
=============================================================================
