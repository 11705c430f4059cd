--------------------------- MODULE BuildDirProofs ---------------------------
(***************************************************************************)
(* Theorems about the build dirs: those in use are not deleted, although   *)
(* what is in use is read from the database, what there is from the disk,  *)
(* and builders make new dirs all the while.                               *)
(***************************************************************************)
EXTENDS OutcomeProofs

USE DEF NULL, NoCache, CacheIds

(***************************************************************************)
(* The tables speak of the dirs of a builder through its row: the cache it *)
(* copies is the one in the row, also before the row is recorded.          *)
(***************************************************************************)
RowsNameCaches ==
    /\ \A b \in DOMAIN builders :
          IsRunning(builders[b].pid, b) =>
              procs[builders[b].pid].cache = builders[b].cache
    /\ pc = "startTx" /\ IsRunning(cur.pid, cur.build) =>
          procs[cur.pid].cache = cur.cache

(***************************************************************************)
(* What is about to be deleted is not in use, although it was looked up    *)
(* before: only the build loop starts and finishes builds.                 *)
(***************************************************************************)
DoomedUnused ==
    /\ pc = "readDirs" => BuildDirsInUse \subseteq inUse
    /\ pc = "removeDirs" => doomed \cap BuildDirsInUse = {}

WorksInDirs(p) ==
    /\ procs[p].step # "mkdir" => procs[p].build \in buildDirs
    /\ procs[p].step = "copying" => procs[p].cache \in buildDirs

NewBuilderDirsKept ==
    pc = "startTx" /\ IsRunning(cur.pid, cur.build) => WorksInDirs(cur.pid)

DirInv ==
    /\ LiveInv
    /\ RowsNameCaches
    /\ DoomedUnused
    /\ NewBuilderDirsKept
    /\ TrackedBuilderDirsKept

(***************************************************************************)
(* Before the first webhook nothing is on disk.                            *)
(***************************************************************************)
LEMMA DirInit == Init => DirInv
  BY LiveInit DEF Init, DirInv, RowsNameCaches, DoomedUnused, NewBuilderDirsKept,
     TrackedBuilderDirsKept, DBInit, ProcessorInit

(***************************************************************************)
(* A builder that steps makes the dirs it goes on to work in, and deletes  *)
(* none.                                                                   *)
(***************************************************************************)
LEMMA BuilderMakesDirs ==
    ASSUME Typed, NEW p \in Pids, BuilderNext(p)
    PROVE  /\ buildDirs \subseteq buildDirs'
           /\ WorksInDirs(p) => procs'[p] = Free \/ WorksInDirs(p)'
<1>1. procs \in [Pids -> Process \cup {Free}]
  BY DEF Typed, TypeOK, BuilderTypeOK
<1>2. procs[p].step \in Steps => procs[p] \in Process
  BY <1>1 DEF Free, Steps
<1> USE <1>1, <1>2 DEF WorksInDirs, At, Goto, Exit, Process, Steps, fsVars
<1>3. CASE CreateEmptyDir(p)
  BY <1>3 DEF CreateEmptyDir, CreateDir
<1>4. CASE CopyCache(p)
  BY <1>4 DEF CopyCache, CreateDir
<1>5. CASE FinishCopy(p)
  BY <1>5 DEF FinishCopy, CreateDir
<1>6. CASE Checkout(p)
  BY <1>6 DEF Checkout
<1>7. CASE RunBuildCmd(p)
  BY <1>7 DEF RunBuildCmd
<1>8. CASE RunDeployCmd(p)
  BY <1>8 DEF RunDeployCmd
<1>9. ASSUME procs' = [procs EXCEPT ![p] = Free], UNCHANGED buildDirs
      PROVE  buildDirs \subseteq buildDirs' /\ procs'[p] = Free
  BY <1>9
<1> QED
  BY <1>3, <1>4, <1>5, <1>6, <1>7, <1>8, <1>9
     DEF BuilderNext, BuilderStep, BuilderFails, MkdirFails, CopyCacheFails, CopyAborts,
         RunBuildErrs, ReportExitCode, BuilderDies, BuilderDiesWriting

(***************************************************************************)
(* The build loop deletes what no row refers to, and starts a builder with *)
(* the cache it is going to record.                                        *)
(***************************************************************************)
LEMMA DirProcessor ==
    ASSUME DirInv, ProcessorStep, LiveInv'
    PROVE  DirInv'
<1>1. /\ LiveInv /\ TrackInv /\ Typed /\ DBTypeOK
      /\ FinishListTracked /\ StartListPending /\ RunningIffTracked
  BY DEF DirInv, LiveInv, TrackInv, Typed, TypeOK
<1>2. procs \in [Pids -> Process \cup {Free}]
  BY <1>1 DEF Typed, TypeOK, BuilderTypeOK
<1>3. \A b \in DOMAIN builders : b \in Ids /\ builders[b] \in BuilderRow
  BY <1>1 DEF DBTypeOK
<1> USE DEF DirInv, RowsNameCaches, DoomedUnused, NewBuilderDirsKept,
            TrackedBuilderDirsKept, WorksInDirs, IsRunning
<1>4. CASE StartBuilder
  <2>1. PICK row \in startList, p \in Pids :
           /\ StartProcess(p, row.build, row.cache, RunDeploy(row.build))
           /\ cur'.build = row.build
           /\ cur'.pid = p
           /\ cur'.cache = row.cache
    BY <1>4 DEF StartBuilder
  <2>2. /\ \A o \in Pids \ {p} : procs'[o] = procs[o]
        /\ procs'[p].build = row.build /\ procs'[p].cache = row.cache
        /\ procs'[p].step = "mkdir"
    BY <1>2, <2>1 DEF StartProcess
  <2>3. row.build \notin DOMAIN builders
    BY <1>1, <1>3 DEF StartListPending, RunningIffTracked, PendingBuilds
  <2>4. UNCHANGED <<builders, buildDirs>> /\ pc' = "startTx"
    BY <1>4 DEF StartBuilder, dbVars, fsVars
  <2>5. \A b \in DOMAIN builders :
           procs'[builders[b].pid].build = b => builders[b].pid # p
    BY <2>2, <2>3
  <2>6. \A b \in DOMAIN builders : builders[b].pid \in Pids
    BY <1>3 DEF BuilderRow
  <2>7. RowsNameCaches'
    BY <2>1, <2>2, <2>4, <2>5, <2>6
  <2>8. TrackedBuilderDirsKept'
    BY <2>2, <2>4, <2>5, <2>6
  <2> QED
    BY <1>1, <2>1, <2>2, <2>4, <2>7, <2>8
<1>5. CASE RecordStart
  <2>1. /\ DOMAIN builders' = DOMAIN builders \cup {cur.build}
        /\ \A b \in DOMAIN builders : builders'[b] = builders[b]
        /\ builders'[cur.build].pid = cur.pid
        /\ builders'[cur.build].cache = cur.cache
    BY <1>5 DEF RecordStart, StartBuild, Put
  <2>2. UNCHANGED <<procs, buildDirs>> /\ pc = "startTx" /\ pc' \in {"startStatus", "start"}
    BY <1>5 DEF RecordStart, AfterStart, fsVars, builderVars
  <2> QED
    BY <2>1, <2>2
<1>6. ASSUME pc = "finishTx", FinishBuild(cur.build, cur.result, cur.cacheFiles),
             pc' \in {"finish", "finishStatus"}, UNCHANGED <<procs, buildDirs>>
      PROVE  DirInv'
  <2>1. DOMAIN builders' \subseteq DOMAIN builders
        /\ \A b \in DOMAIN builders' : builders'[b] = builders[b]
    BY <1>6 DEF FinishBuild, Restrict
  <2> QED
    BY <1>6, <2>1
<1>7. CASE RecordResult
  BY <1>6, <1>7 DEF RecordResult, fsVars, builderVars
<1>8. ASSUME UNCHANGED <<dbVars, buildDirs, procs>>,
             pc' \notin {"startTx", "readDirs", "removeDirs"}
      PROVE  DirInv'
  BY <1>8 DEF dbVars
<1>9. CASE RecordResultFails
  BY <1>6, <1>8, <1>9 DEF RecordResultFails, fsVars, builderVars
<1>10. CASE ListBuildDirsInUse
  BY <1>10 DEF ListBuildDirsInUse, BuildDirsInUse, dbVars, fsVars, builderVars
<1>11. CASE ReadDirs
  BY <1>11 DEF ReadDirs, BuildDirsInUse, dbVars, fsVars, builderVars
<1>12. CASE RemoveUnusedDir
  <2>1. PICK d \in doomed : buildDirs' = buildDirs \ {d} /\ doomed' = doomed \ {d}
    BY <1>12 DEF RemoveUnusedDir, RemoveDir
  <2>2. UNCHANGED <<builders, cacheId, procs, pc>> /\ pc = "removeDirs"
    BY <1>12 DEF RemoveUnusedDir, dbVars, builderVars
  <2>3. BuildDirsInUse' = BuildDirsInUse /\ d \notin BuildDirsInUse
    BY <2>1, <2>2 DEF BuildDirsInUse
  <2>4. buildDirs \subseteq Ids
    BY <1>1 DEF Typed, TypeOK, FSTypeOK
  <2>5. \A b \in DOMAIN builders :
           b # d /\ (builders[b].cache \in Ids => builders[b].cache # d)
    BY <2>3, BoundsAssumption DEF BuildDirsInUse, Ids
  <2>6. TrackedBuilderDirsKept'
    BY <1>3, <2>1, <2>2, <2>4, <2>5
  <2> QED
    BY <2>1, <2>2, <2>3, <2>6
<1>13. CASE RemoveUnusedDirFails
  BY <1>13 DEF RemoveUnusedDirFails, BuildDirsInUse, dbVars, fsVars, builderVars
<1> QED
  BY <1>4, <1>5, <1>7, <1>8, <1>9, <1>10, <1>11, <1>12, <1>13
     DEF ProcessorStep, localVars, fsVars, builderVars, ListBuilders, SkipRunning,
         ReadExitCode, CleanExitCodeFails, SendFinalStatus, FinalStatusFails,
         GetPendingBuilds, SkipUnconfigured, StartBuilderFails, RecordStartFails,
         AfterStart, SendPendingStatus, PendingStatusFails, FinishPoll, QueryFails

(***************************************************************************)
(* DirInv is inductive.                                                    *)
(***************************************************************************)
LEMMA DirNext == DirInv /\ [Next]_vars => DirInv'
<1> SUFFICES ASSUME DirInv, [Next]_vars PROVE DirInv'
  OBVIOUS
<1>1. LiveInv /\ LiveInv' /\ Typed
  BY LiveNext DEF DirInv, LiveInv, TrackInv
<1>2. CASE ProcessorStep
  BY <1>1, <1>2, DirProcessor
<1> USE DEF DirInv, RowsNameCaches, DoomedUnused, NewBuilderDirsKept,
            TrackedBuilderDirsKept, WorksInDirs, IsRunning
<1>3. ASSUME NEW p \in Pids, BuilderNext(p) PROVE DirInv'
  <2>1. UNCHANGED <<pc, cur, inUse, doomed, builders, cacheId>>
    BY <1>3 DEF BuilderNext, processorVars, localVars, dbVars
  <2>2. /\ \A o \in Pids \ {p} : procs'[o] = procs[o]
        /\ \/ procs'[p] = Free
           \/ procs'[p].build = procs[p].build /\ procs'[p].cache = procs[p].cache
    BY <1>1, <1>3, BuilderKeepsParameters
  <2>3. /\ buildDirs \subseteq buildDirs'
        /\ WorksInDirs(p) => procs'[p] = Free \/ WorksInDirs(p)'
    BY <1>1, <1>3, BuilderMakesDirs
  <2>4. BuildDirsInUse' = BuildDirsInUse
    BY <2>1 DEF BuildDirsInUse
  <2>5. Free.build \notin Ids
    BY BoundsAssumption DEF Free, Ids
  <2>6. \A b \in DOMAIN builders : b \in Ids /\ builders[b].pid \in Pids
    BY <1>1 DEF Typed, TypeOK, DBTypeOK, BuilderRow
  <2>7. pc = "startTx" => cur.build \in Ids /\ cur.pid \in Pids
    BY <1>1 DEF Typed, CurTyped, CurRow
  <2>8. \A b \in Ids, o \in Pids :
           procs'[o].build = b => procs[o].build = b /\ procs'[o].cache = procs[o].cache
    BY <2>2, <2>5
  <2>9. \A b \in Ids, o \in Pids :
           procs'[o].build = b /\ WorksInDirs(o) => WorksInDirs(o)'
    BY <2>2, <2>3, <2>5
  <2>10. RowsNameCaches'
    BY <2>1, <2>6, <2>7, <2>8
  <2>11. NewBuilderDirsKept' /\ TrackedBuilderDirsKept'
    BY <2>1, <2>6, <2>7, <2>8, <2>9
  <2> QED
    BY <1>1, <2>1, <2>4, <2>10, <2>11
<1>4. ASSUME NEW repo \in Repos, NEW main \in BOOLEAN, NEW commit \in Commits,
             Webhook(repo, main, commit)
      PROVE  DirInv'
  BY <1>1, <1>4 DEF Webhook, CreateBuild, BuildDirsInUse, processorVars, localVars,
                    builderVars, fsVars
<1>5. CASE ServerStops
  BY <1>1, <1>5 DEF ServerStops, dbVars, fsVars, builderVars
<1>6. CASE ServerStarts
  BY <1>1, <1>6 DEF ServerStarts, dbVars, fsVars, builderVars
<1>7. CASE UNCHANGED vars
  BY <1>1, <1>7 DEF vars, BuildDirsInUse, processorVars, localVars, dbVars, fsVars, builderVars
<1> QED
  BY <1>2, <1>3, <1>4, <1>5, <1>6, <1>7 DEF Next

(***************************************************************************)
(* RetainBuildDirs never deletes the dir of the builder in the database,   *)
(* nor the cache while that builder copies it: through restarts, second    *)
(* builders, and builds that end out of order.                             *)
(***************************************************************************)
THEOREM DirsKept == Spec => []TrackedBuilderDirsKept
<1>1. DirInv => TrackedBuilderDirsKept
  BY DEF DirInv
<1> QED
  BY <1>1, DirInit, DirNext, PTL DEF Spec

-----------------------------------------------------------------------------
(***************************************************************************)
(* A builder has made its build dir, or is about to.                       *)
(***************************************************************************)
DirComes(p, b) == b \in buildDirs \/ (IsRunning(p, b) /\ At(p, "mkdir"))

CachePresent(id) == id = NoCache \/ id \in buildDirs

(***************************************************************************)
(* Why the cache is there: every dir that is or may become one is on its   *)
(* way from the start of its build, and the loop deletes nothing between   *)
(* reading a cache id and recording it.                                    *)
(***************************************************************************)
CachesPresent ==
    /\ \A r \in Repos : CachePresent(cacheId[r])
    /\ \A row \in startList : CachePresent(row.cache)
    /\ \A b \in DOMAIN builders :
          CachePresent(builders[b].cache) /\ DirComes(builders[b].pid, b)
    /\ pc = "startTx" => CachePresent(cur.cache) /\ DirComes(cur.pid, cur.build)
    /\ pc = "finishTx" => cur.build \in buildDirs

CacheInv ==
    /\ DirInv
    /\ pc \in {"readDirs", "removeDirs"} => startList = {}
    /\ "builder" \notin happened => CachesPresent

(***************************************************************************)
(* Before the first webhook no repository has a cache.                     *)
(***************************************************************************)
LEMMA CacheInit == Init => CacheInv
  BY DirInit DEF Init, CacheInv, CachesPresent, CachePresent, DBInit, ProcessorInit

(***************************************************************************)
(* A builder whose cache is there makes its dir, unless it dies.           *)
(***************************************************************************)
LEMMA DirStillComes ==
    ASSUME Typed, NEW p \in Pids, BuilderNext(p), "builder" \notin happened',
           NEW o \in Pids, NEW b \in Ids, DirComes(o, b),
           IsRunning(o, b) => CachePresent(procs[o].cache)
    PROVE  DirComes(o, b)'
<1>1. buildDirs \subseteq buildDirs' /\ \A q \in Pids \ {p} : procs'[q] = procs[q]
  BY BuilderMakesDirs, BuilderKeepsParameters
<1>2. CASE b \in buildDirs \/ o # p
  BY <1>1, <1>2 DEF DirComes, IsRunning, At
<1>3. CASE b \notin buildDirs /\ o = p
  <2>1. procs[p].build = b /\ procs[p].step = "mkdir"
    BY <1>3 DEF DirComes, IsRunning, At
  <2>2. BuilderStep(p)
    BY DEF BuilderNext, BuilderFails, BuilderDies, BuilderDiesWriting, Fault
  <2>3. CreateEmptyDir(p) \/ CopyCache(p)
    BY <1>3, <2>1, <2>2, BoundsAssumption
       DEF BuilderStep, MkdirFails, CopyCacheFails, FinishCopy, CopyAborts, Checkout,
           RunBuildCmd, RunDeployCmd, RunBuildErrs, ReportExitCode, At, CachePresent,
           IsRunning, Ids
  <2>4. b \in buildDirs'
    BY <2>1, <2>3 DEF CreateEmptyDir, CopyCache, CreateDir
  <2> QED
    BY <2>4 DEF DirComes
<1> QED
  BY <1>2, <1>3

(***************************************************************************)
(* The build loop passes cache ids on, makes a cache of a dir that is      *)
(* there, and deletes no dir in use.                                       *)
(***************************************************************************)
LEMMA CacheProcessor ==
    ASSUME CacheInv, ProcessorStep, DirInv'
    PROVE  CacheInv'
<1>1. /\ DirInv /\ LiveInv /\ TrackInv /\ Typed /\ TypeOK /\ DBTypeOK
      /\ FinishListTracked /\ StartListPending
  BY DEF CacheInv, DirInv, LiveInv, TrackInv, Typed, TypeOK
<1>2. procs \in [Pids -> Process \cup {Free}]
  BY <1>1 DEF TypeOK, BuilderTypeOK
<1>3. \A b \in DOMAIN builders : b \in Ids /\ builders[b] \in BuilderRow
  BY <1>1 DEF DBTypeOK
<1>4. happened \subseteq happened'
  BY DEF ProcessorStep, faultVars, Fault, ListBuilders, SkipRunning, ReadExitCode,
         CleanExitCodeFails, RecordResult, RecordResultFails, SendFinalStatus,
         FinalStatusFails, GetPendingBuilds, SkipUnconfigured, StartBuilder,
         StartBuilderFails, RecordStart, RecordStartFails, SendPendingStatus,
         PendingStatusFails, ListBuildDirsInUse, ReadDirs, RemoveUnusedDir,
         RemoveUnusedDirFails, FinishPoll, QueryFails
<1> USE DEF CacheInv, CachesPresent, CachePresent, DirComes, IsRunning, At
<1>5. pc' \in {"readDirs", "removeDirs"} => startList' = {}
  BY DEF ProcessorStep, localVars, ListBuilders, SkipRunning, ReadExitCode,
         CleanExitCodeFails, RecordResult, RecordResultFails, SendFinalStatus,
         FinalStatusFails, GetPendingBuilds, SkipUnconfigured, StartBuilder,
         StartBuilderFails, RecordStart, RecordStartFails, AfterStart, SendPendingStatus,
         PendingStatusFails, ListBuildDirsInUse, ReadDirs, RemoveUnusedDir,
         RemoveUnusedDirFails, FinishPoll, QueryFails
<1>6. SUFFICES ASSUME "builder" \notin happened', CachesPresent PROVE CachesPresent'
  BY <1>4, <1>5
<1>8. CASE GetPendingBuilds
  <2>1. \A b \in PendingBuilds : builds[b].repo \in Repos
    BY <1>1 DEF PendingBuilds, DBTypeOK, BuildRow
  <2> QED
    BY <1>6, <1>8, <2>1 DEF GetPendingBuilds, dbVars, fsVars, builderVars
<1>9. ASSUME NEW row \in finishList, pc = "finish", ~IsRunning(row.pid, row.build),
             cur'.build = row.build, startList' = startList,
             UNCHANGED <<dbVars, procs, buildDirs>>, pc' = "finishTx"
      PROVE  CachesPresent'
  <2>1. row.build \in DOMAIN builders /\ row.pid = builders[row.build].pid
    BY <1>1, <1>9 DEF FinishListTracked, LiveInv, ListNamesBuilders
  <2> QED
    BY <1>6, <1>9, <2>1 DEF dbVars
<1>10. CASE ReadExitCode \/ CleanExitCodeFails
  BY <1>9, <1>10 DEF ReadExitCode, CleanExitCodeFails, Handle, fsVars, builderVars
<1>11. ASSUME pc = "finishTx", FinishBuild(cur.build, cur.result, cur.cacheFiles),
              pc' \in {"finish", "finishStatus"},
              UNCHANGED <<startList, procs, buildDirs>>
       PROVE  CachesPresent'
  <2>1. DOMAIN builders' \subseteq DOMAIN builders
        /\ \A b \in DOMAIN builders' : builders'[b] = builders[b]
    BY <1>11 DEF FinishBuild, Restrict
  <2>2. \A r \in Repos : cacheId'[r] \in {cacheId[r], cur.build}
    BY <1>11 DEF FinishBuild, MoveCache
  <2> QED
    BY <1>6, <1>11, <2>1, <2>2
<1>12. ASSUME UNCHANGED <<dbVars, buildDirs, procs>>, startList' \subseteq startList,
              pc' \notin {"startTx", "finishTx"}
       PROVE  CachesPresent'
  BY <1>6, <1>12 DEF dbVars
<1>13. CASE RecordResult
  BY <1>11, <1>13 DEF RecordResult, fsVars, builderVars
<1>14. CASE RecordResultFails
  BY <1>11, <1>12, <1>14 DEF RecordResultFails, fsVars, builderVars
<1>15. CASE StartBuilder
  <2>1. PICK row \in startList, p \in Pids :
           /\ StartProcess(p, row.build, row.cache, RunDeploy(row.build))
           /\ cur'.build = row.build
           /\ cur'.pid = p
           /\ cur'.cache = row.cache
    BY <1>15 DEF StartBuilder
  <2>2. /\ \A o \in Pids \ {p} : procs'[o] = procs[o]
        /\ procs'[p].build = row.build /\ procs'[p].step = "mkdir"
        /\ procs[p] = Free
    BY <1>2, <2>1 DEF StartProcess
  <2>3. UNCHANGED <<dbVars, buildDirs>> /\ pc' = "startTx" /\ startList' \subseteq startList
    BY <1>15 DEF StartBuilder, fsVars
  <2>4. \A b \in DOMAIN builders : builders[b].pid \in Pids /\ b \in Ids
    BY <1>3 DEF BuilderRow
  <2>5. \A b \in DOMAIN builders : builders[b].pid = p => b \in buildDirs
    BY <1>6, <2>2, <2>4 DEF Free
  <2>6. \A b \in DOMAIN builders : DirComes(builders[b].pid, b)'
    BY <1>6, <2>2, <2>3, <2>4, <2>5 DEF dbVars
  <2> QED
    BY <1>6, <2>1, <2>2, <2>3, <2>6 DEF dbVars
<1>16. CASE RecordStart
  <2>1. /\ DOMAIN builders' = DOMAIN builders \cup {cur.build}
        /\ \A b \in DOMAIN builders : builders'[b] = builders[b]
        /\ builders'[cur.build].pid = cur.pid
        /\ builders'[cur.build].cache = cur.cache
        /\ cacheId' = cacheId
    BY <1>16 DEF RecordStart, StartBuild, Put
  <2>2. /\ UNCHANGED <<procs, buildDirs, startList>> /\ pc = "startTx"
        /\ pc' \in {"startStatus", "start"}
    BY <1>16 DEF RecordStart, AfterStart, fsVars, builderVars
  <2> QED
    BY <1>6, <2>1, <2>2
<1>17. CASE RemoveUnusedDir
  <2>1. PICK d \in doomed : buildDirs' = buildDirs \ {d}
    BY <1>17 DEF RemoveUnusedDir, RemoveDir
  <2>2. /\ UNCHANGED <<builders, cacheId, procs, startList>>
        /\ pc = "removeDirs" /\ pc' = "removeDirs" /\ startList = {}
    BY <1>17 DEF RemoveUnusedDir, dbVars, builderVars
  <2>3. d \notin BuildDirsInUse
    BY <1>1, <2>1, <2>2 DEF DirInv, DoomedUnused
  <2>4. /\ \A b \in DOMAIN builders : b # d /\ (builders[b].cache \in Ids => builders[b].cache # d)
        /\ \A r \in Repos : cacheId[r] \in Ids => cacheId[r] # d
    BY <2>3, BoundsAssumption DEF BuildDirsInUse, Ids
  <2>5. /\ \A b \in DOMAIN builders : builders[b].cache \in Ids \cup {0}
        /\ \A r \in Repos : cacheId[r] \in Ids \cup {0}
    BY <1>1 DEF DBTypeOK, BuilderRow
  <2> QED
    BY <1>6, <2>1, <2>2, <2>4, <2>5
<1> QED
  BY <1>8, <1>10, <1>12, <1>13, <1>14, <1>15, <1>16, <1>17
     DEF ProcessorStep, localVars, fsVars, builderVars, ListBuilders, SkipRunning,
         SendFinalStatus, FinalStatusFails, SkipUnconfigured, StartBuilderFails,
         RecordStartFails, AfterStart, SendPendingStatus, PendingStatusFails,
         ListBuildDirsInUse, ReadDirs, RemoveUnusedDirFails, FinishPoll, QueryFails

(***************************************************************************)
(* CacheInv is inductive.                                                  *)
(***************************************************************************)
LEMMA CacheNext == CacheInv /\ [Next]_vars => CacheInv'
<1> SUFFICES ASSUME CacheInv, [Next]_vars PROVE CacheInv'
  OBVIOUS
<1>1. DirInv /\ DirInv' /\ Typed
  BY DirNext DEF CacheInv, DirInv, LiveInv, TrackInv
<1>2. CASE ProcessorStep
  BY <1>1, <1>2, CacheProcessor
<1> USE DEF CacheInv, CachesPresent
<1>3. ASSUME NEW p \in Pids, BuilderNext(p) PROVE CacheInv'
  <2>1. UNCHANGED <<pc, cur, startList, builders, cacheId>> /\ happened \subseteq happened'
    BY <1>3 DEF BuilderNext, processorVars, localVars, dbVars, faultVars, BuilderFails,
                BuilderDies, BuilderDiesWriting, Fault
  <2>2. buildDirs \subseteq buildDirs'
    BY <1>1, <1>3, BuilderMakesDirs
  <2>3. SUFFICES ASSUME "builder" \notin happened' PROVE CachesPresent'
    BY <1>1, <2>1
  <2>4. CachesPresent
    BY <2>1, <2>3
  <2>5. /\ \A b \in DOMAIN builders : b \in Ids /\ builders[b].pid \in Pids
        /\ pc = "startTx" => cur.build \in Ids /\ cur.pid \in Pids
    BY <1>1 DEF Typed, TypeOK, DBTypeOK, BuilderRow, CurTyped, CurRow
  <2>6. \A o \in Pids, b \in Ids :
           DirComes(o, b) /\ (IsRunning(o, b) => CachePresent(procs[o].cache))
               => DirComes(o, b)'
    BY <1>1, <1>3, <2>3, DirStillComes
  <2>7. \A b \in DOMAIN builders : DirComes(builders[b].pid, b)'
    BY <1>1, <2>1, <2>4, <2>5, <2>6 DEF DirInv, RowsNameCaches
  <2>8. pc = "startTx" => DirComes(cur.pid, cur.build)'
    BY <1>1, <2>1, <2>4, <2>5, <2>6 DEF DirInv, RowsNameCaches
  <2> QED
    BY <2>1, <2>2, <2>4, <2>7, <2>8 DEF CachePresent
<1> USE DEF CachePresent, DirComes, IsRunning, At
<1>4. ASSUME NEW repo \in Repos, NEW main \in BOOLEAN, NEW commit \in Commits,
             Webhook(repo, main, commit)
      PROVE  CacheInv'
  BY <1>1, <1>4 DEF Webhook, CreateBuild, processorVars, localVars, builderVars, fsVars, faultVars
<1>5. CASE ServerStops
  BY <1>1, <1>5 DEF ServerStops, LocalReset, Fault, dbVars, fsVars, builderVars
<1>6. CASE ServerStarts
  BY <1>1, <1>6 DEF ServerStarts, localVars, dbVars, fsVars, builderVars, faultVars
<1>7. CASE UNCHANGED vars
  BY <1>1, <1>7 DEF vars, processorVars, localVars, dbVars, fsVars, builderVars, faultVars
<1> QED
  BY <1>2, <1>3, <1>4, <1>5, <1>6, <1>7 DEF Next

(***************************************************************************)
(* While no builder dies, the dir of the cache is there to be copied:      *)
(* through restarts, lost transactions, and second builders of a build.    *)
(***************************************************************************)
THEOREM CacheKept == Spec => []CacheDirPresentUnlessDeath
<1>1. CacheInv => CacheDirPresentUnlessDeath
  BY DEF CacheInv, CachesPresent, CachePresent, CacheDirPresentUnlessDeath, CacheDirPresent
<1> QED
  BY <1>1, CacheInit, CacheNext, PTL DEF Spec
=============================================================================
