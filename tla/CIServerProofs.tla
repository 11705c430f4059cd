--------------------------- MODULE CIServerProofs ---------------------------
(***************************************************************************)
(* Theorems about CIServer that hold for every number of builds, every set *)
(* of repositories and processes, and every kind and number of faults.     *)
(***************************************************************************)
EXTENDS CIServer, TLAPS

(***************************************************************************)
(* What the row being handled is good for at each location: TypeOK is not  *)
(* inductive without it, since RecordStart inserts cur.pid into builders   *)
(* and RecordResult writes cur.result into builds.                         *)
(***************************************************************************)
CurTyped ==
    /\ pc \in {"finishTx", "finishStatus"} => cur \in CurRow /\ cur.result \in Results
    /\ pc \in {"startTx", "startStatus"} => cur \in CurRow /\ cur.pid \in Pids

(***************************************************************************)
(* A builder that writes an exit code has one to write.                    *)
(***************************************************************************)
CodesTyped == \A p \in Pids : At(p, "write") => procs[p].code \in ExitCodes

Typed == TypeOK /\ CurTyped /\ CodesTyped

USE DEF NULL, NoCache, CacheIds

(***************************************************************************)
(* Before the first webhook there is nothing whose type could be wrong.    *)
(***************************************************************************)
LEMMA TypedInit == Init => Typed
  BY BoundsAssumption DEF Init, Typed, TypeOK, CurTyped, CodesTyped, At, FaultsInit, FaultsTypeOK, DBInit, DBTypeOK,
     FSInit, FSTypeOK, BuilderInit, BuilderTypeOK, ProcessorInit,
     ProcessorTypeOK, Locations, StatusKeys, CommitStatus, NoStatus, FileContents, Results, Free

(***************************************************************************)
(* The two transactions of the build loop keep the types of the tables.    *)
(***************************************************************************)
LEMMA FinishBuildTyped ==
    ASSUME NEW b \in Ids, NEW result \in Results, NEW cacheFiles \in BOOLEAN,
           DBTypeOK, FinishBuild(b, result, cacheFiles)
    PROVE  DBTypeOK'
<1>1. \A row \in BuildRow : [row EXCEPT !.result = result] \in BuildRow
  BY DEF BuildRow
<1>2. /\ DOMAIN builds' = DOMAIN builds
      /\ builds' \in [DOMAIN builds -> BuildRow]
  BY <1>1 DEF DBTypeOK, FinishBuild
<1>3. /\ DOMAIN builders' \subseteq Ids
      /\ builders' \in [DOMAIN builders' -> BuilderRow]
  BY DEF DBTypeOK, FinishBuild, Restrict
<1>4. cacheId' \in [Repos -> CacheIds]
  BY DEF DBTypeOK, FinishBuild, MoveCache
<1> QED
  BY <1>2, <1>3, <1>4 DEF DBTypeOK

(***************************************************************************)
(* StartBuild adds a row of builders and sets started of a build.          *)
(***************************************************************************)
LEMMA StartBuildTyped ==
    ASSUME NEW b \in Ids, NEW pid \in Pids, NEW cache \in CacheIds,
           DBTypeOK, StartBuild(b, pid, cache)
    PROVE  DBTypeOK'
<1>1. \A row \in BuildRow : [row EXCEPT !.started = TRUE] \in BuildRow
  BY DEF BuildRow
<1>2. /\ DOMAIN builds' = DOMAIN builds
      /\ builds' \in [DOMAIN builds -> BuildRow]
  BY <1>1 DEF DBTypeOK, StartBuild
<1>3. /\ DOMAIN builders' \subseteq Ids
      /\ builders' \in [DOMAIN builders' -> BuilderRow]
  BY DEF DBTypeOK, StartBuild, Put, BuilderRow
<1> QED
  BY <1>2, <1>3 DEF DBTypeOK, StartBuild

(***************************************************************************)
(* Every step of the build loop keeps the types.                           *)
(***************************************************************************)
LEMMA TypedProcessor == Typed /\ ProcessorStep => Typed'
<1> SUFFICES ASSUME Typed, ProcessorStep PROVE Typed'
  OBVIOUS
<1> USE BoundsAssumption, FaultKindsAssumption, ProcessorAssumption
<1> USE DEF Typed, TypeOK, CurTyped, CodesTyped, At, FaultsTypeOK, DBTypeOK, FSTypeOK,
            BuilderTypeOK, ProcessorTypeOK, Locations,
            dbVars, fsVars, builderVars, faultVars, localVars
<1>1. CASE ListBuilders
  BY <1>1 DEF ListBuilders, BuilderRow, Ids
<1>2. CASE SkipRunning
  BY <1>2 DEF SkipRunning
<1>3. CASE ReadExitCode
  BY <1>3 DEF ReadExitCode, Handle, ResultOf, Results, CacheBuildFiles, CleanExitCode, FileContents, NoRow, CurRow
<1>4. CASE CleanExitCodeFails
  BY <1>4 DEF CleanExitCodeFails, Handle, Fault, Results, CacheBuildFiles, NoRow, CurRow
<1>5. CASE RecordResult
  <2>1. cur.build \in Ids /\ cur.result \in Results /\ cur.cacheFiles \in BOOLEAN
    BY <1>5 DEF RecordResult, CurRow
  <2>2. DBTypeOK'
    BY <1>5, <2>1, FinishBuildTyped DEF RecordResult
  <2> QED
    BY <1>5, <2>2 DEF RecordResult
<1>6. CASE RecordResultFails
  <2>1. cur.build \in Ids /\ cur.result \in Results /\ cur.cacheFiles \in BOOLEAN
    BY <1>6 DEF RecordResultFails, CurRow
  <2>2. DBTypeOK'
    BY <1>6, <2>1, FinishBuildTyped DEF RecordResultFails
  <2> QED
    BY <1>6, <2>2 DEF RecordResultFails, Fault
<1>7. CASE SendFinalStatus
  BY <1>7 DEF SendFinalStatus, CommitStatus, CurRow
<1>8. CASE FinalStatusFails
  BY <1>8 DEF FinalStatusFails, Fault
<1>9. CASE GetPendingBuilds
  BY <1>9 DEF GetPendingBuilds, PendingBuilds, BuildRow
<1>10. CASE SkipUnconfigured
  BY <1>10 DEF SkipUnconfigured
<1>11. CASE StartBuilder
  BY <1>11 DEF StartBuilder, StartProcess, Free, RunDeploy, BuildRow, Process, Steps, NoRow, CurRow
<1>12. CASE StartBuilderFails
  BY <1>12 DEF StartBuilderFails, Fault
<1>13. CASE RecordStart
  <2>1. cur.build \in Ids /\ cur.pid \in Pids /\ cur.cache \in CacheIds
    BY <1>13 DEF RecordStart, CurRow
  <2>2. DBTypeOK'
    BY <1>13, <2>1, StartBuildTyped DEF RecordStart
  <2> QED
    BY <1>13, <2>2 DEF RecordStart, AfterStart
<1>14. CASE RecordStartFails
  BY <1>14 DEF RecordStartFails, AfterStart, Fault, dbVars
<1>15. CASE SendPendingStatus
  BY <1>15 DEF SendPendingStatus, CommitStatus, CurRow
<1>16. CASE PendingStatusFails
  BY <1>16 DEF PendingStatusFails, Fault
<1>17. CASE ListBuildDirsInUse
  BY <1>17 DEF ListBuildDirsInUse, BuildDirsInUse, BuilderRow
<1>18. CASE ReadDirs
  BY <1>18 DEF ReadDirs
<1>19. CASE RemoveUnusedDir
  BY <1>19 DEF RemoveUnusedDir, RemoveDir
<1>20. CASE RemoveUnusedDirFails
  BY <1>20 DEF RemoveUnusedDirFails, Fault
<1>21. CASE FinishPoll
  BY <1>21 DEF FinishPoll
<1>22. CASE QueryFails
  BY <1>22 DEF QueryFails, Fault
<1> QED
  BY <1>1, <1>2, <1>3, <1>4, <1>5, <1>6, <1>7, <1>8, <1>9, <1>10, <1>11, <1>12, <1>13, <1>14, <1>15, <1>16, <1>17, <1>18, <1>19, <1>20, <1>21, <1>22 DEF ProcessorStep

(***************************************************************************)
(* Every step of a builder keeps the types.                                *)
(***************************************************************************)
LEMMA TypedBuilder ==
    ASSUME NEW p \in Pids, Typed, BuilderNext(p)
    PROVE  Typed'
<1> USE BoundsAssumption, FaultKindsAssumption
<1> USE DEF Typed, TypeOK, CurTyped, CodesTyped, At, FaultsTypeOK, DBTypeOK, FSTypeOK,
            BuilderTypeOK, ProcessorTypeOK,
            dbVars, fsVars, builderVars, faultVars, localVars, processorVars
<1>1. procs[p] \in Process \cup {Free}
  OBVIOUS
<1>2. procs[p].step # "free" => procs[p] \in Process
  BY <1>1 DEF Free
<1>3. procs[p] # Free => procs[p] \in Process
  BY <1>1
<1>4. \A step \in Steps : procs[p] \in Process => [procs[p] EXCEPT !.step = step] \in Process
  BY DEF Process
<1>0. Free.step # "write"
  BY DEF Free
<1>5. CASE BuilderStep(p) /\ UNCHANGED <<processorVars, dbVars, faultVars>>
  <2>1. CASE CreateEmptyDir(p)
    BY <1>1, <1>2, <1>4, <1>5, <2>1 DEF CreateEmptyDir, At, Steps, Process, CreateDir, Goto
  <2>2. CASE MkdirFails(p)
    BY <1>0, <1>1, <1>2, <1>4, <1>5, <2>2 DEF MkdirFails, At, Steps, Process, Exit
  <2>3. CASE CopyCache(p)
    BY <1>1, <1>2, <1>4, <1>5, <2>3 DEF CopyCache, At, Steps, Process, CreateDir, Goto
  <2>4. CASE CopyCacheFails(p)
    BY <1>0, <1>1, <1>2, <1>4, <1>5, <2>4 DEF CopyCacheFails, At, Steps, Process, Exit
  <2>5. CASE FinishCopy(p)
    BY <1>1, <1>2, <1>4, <1>5, <2>5 DEF FinishCopy, At, Steps, Process, CreateDir, Goto
  <2>6. CASE CopyAborts(p)
    BY <1>0, <1>1, <1>2, <1>4, <1>5, <2>6 DEF CopyAborts, At, Steps, Process, Exit
  <2>7. CASE Checkout(p)
    BY <1>1, <1>2, <1>4, <1>5, <2>7 DEF Checkout, At, Steps, Process, Goto
  <2>8. CASE RunBuildCmd(p)
    BY <1>1, <1>2, <1>4, <1>5, <2>8 DEF RunBuildCmd, At, Steps, Process
  <2>9. CASE RunDeployCmd(p)
    BY <1>1, <1>2, <1>4, <1>5, <2>9 DEF RunDeployCmd, At, Steps, Process
  <2>10. CASE RunBuildErrs(p)
    BY <1>0, <1>1, <1>2, <1>4, <1>5, <2>10 DEF RunBuildErrs, At, Steps, Process, Exit
  <2>11. CASE ReportExitCode(p)
    <3>1. procs[p] \in Process /\ procs[p].build \in Ids
      BY <1>2, <2>11 DEF ReportExitCode, At, Process
    <3>2. exitCodes' \in [Ids -> FileContents]
      BY <1>5, <2>11, <3>1 DEF ReportExitCode, WriteExitCode, FormatExitCode, FileContents, ExitCodes, Process
    <3> QED
      BY <1>0, <1>5, <2>11, <3>1, <3>2 DEF ReportExitCode, Exit, Process
  <2> QED
    BY <1>5, <2>1, <2>2, <2>3, <2>4, <2>5, <2>6, <2>7, <2>8, <2>9, <2>10, <2>11 DEF BuilderStep
<1>6. CASE BuilderFails(p) /\ UNCHANGED <<processorVars, dbVars>>
  <2>1. CASE BuilderDies(p)
    BY <1>0, <1>6, <2>1 DEF BuilderDies, Fault, Exit
  <2>2. CASE BuilderDiesWriting(p)
    BY <1>0, <1>2, <1>6, <2>2 DEF BuilderDiesWriting, Fault, Exit, At, TearExitCode, FileContents, Process
  <2> QED
    BY <1>6, <2>1, <2>2 DEF BuilderFails
<1> QED
  BY <1>5, <1>6 DEF BuilderNext

(***************************************************************************)
(* Typed is inductive: the webhooks and the server's end and start, and the*)
(* two lemmas above for the build loop and the builders.                   *)
(***************************************************************************)
LEMMA TypedNext == Typed /\ [Next]_vars => Typed'
<1> SUFFICES ASSUME Typed, [Next]_vars PROVE Typed'
  OBVIOUS
<1>1. CASE ProcessorStep
  BY <1>1, TypedProcessor
<1>2. ASSUME NEW p \in Pids, BuilderNext(p) PROVE Typed'
  BY <1>2, TypedBuilder
<1> USE BoundsAssumption, FaultKindsAssumption, ProcessorAssumption
<1> USE DEF Typed, TypeOK, CurTyped, CodesTyped, At, FaultsTypeOK, DBTypeOK, FSTypeOK,
            BuilderTypeOK, ProcessorTypeOK,
            dbVars, fsVars, builderVars, faultVars, localVars, processorVars
<1>3. ASSUME NEW repo \in Repos, NEW main \in BOOLEAN, NEW commit \in Commits,
             Webhook(repo, main, commit)
      PROVE  Typed'
  BY <1>3 DEF Webhook, CreateBuild, Put, BuildRow
<1>4. CASE ServerStops
  BY <1>4 DEF ServerStops, Fault, LocalReset, Locations
<1>5. CASE ServerStarts
  BY <1>5 DEF ServerStarts, Locations
<1>6. CASE UNCHANGED vars
  BY <1>6 DEF vars
<1> QED
  BY <1>1, <1>2, <1>3, <1>4, <1>5, <1>6 DEF Next

(***************************************************************************)
(* Types: no step of the server, a builder or a fault leaves the tables,   *)
(* the files or the processes in a shape the code does not know.           *)
(***************************************************************************)
THEOREM TypeCorrect == Spec => []TypeOK
<1>1. Init => Typed
  BY TypedInit
<1>2. Typed /\ [Next]_vars => Typed'
  BY TypedNext
<1>3. Typed => TypeOK
  BY DEF Typed
<1> QED
  BY <1>1, <1>2, <1>3, PTL DEF Spec

-----------------------------------------------------------------------------
(***************************************************************************)
(* A result is backed if a builder of the build reported its exit code.    *)
(***************************************************************************)
Backed(b, result) ==
    /\ result = "success" => "zero" \in reported[b]
    /\ result = "failure" => "nonzero" \in reported[b]

(***************************************************************************)
(* NoFalseVerdict alone is not inductive: the verdict is on its way from   *)
(* the exit code file through the memory of the build loop to the table,   *)
(* and it must be backed at each of the three places.                      *)
(***************************************************************************)
FilesBacked == \A b \in Ids : Readable(b) => exitCodes[b] \in reported[b]

CurBacked == pc = "finishTx" => Backed(cur.build, cur.result)

BuildsBacked == \A b \in DOMAIN builds : Backed(b, builds[b].result)

VerdictInv == Typed /\ FilesBacked /\ CurBacked /\ BuildsBacked

(***************************************************************************)
(* Before the first webhook there is no verdict to back.                   *)
(***************************************************************************)
LEMMA VerdictInit == Init => VerdictInv
<1> SUFFICES ASSUME Init PROVE VerdictInv
  OBVIOUS
<1>1. Typed
  BY TypedInit
<1> QED
  BY <1>1 DEF Init, VerdictInv, FilesBacked, CurBacked, BuildsBacked, Readable,
              FSInit, DBInit, ProcessorInit

(***************************************************************************)
(* The build loop carries a verdict from the file to the row in hand and   *)
(* from there to the table, and makes up none.                             *)
(***************************************************************************)
LEMMA VerdictProcessor ==
    ASSUME VerdictInv, ProcessorStep, Typed'
    PROVE  VerdictInv'
<1>1. Typed
  BY DEF VerdictInv
<1> USE DEF VerdictInv, FilesBacked, CurBacked, BuildsBacked, Backed, Readable,
            dbVars, fsVars, builderVars, localVars
<1>2. ASSUME UNCHANGED <<dbVars, fsVars, builderVars>>, pc' # "finishTx"
      PROVE  VerdictInv'
  BY <1>2
<1>3. CASE ReadExitCode
  <2>1. PICK row \in finishList :
           /\ Handle(row.build, ResultOf(exitCodes[row.build]))
           /\ CleanExitCode(row.build)
    BY <1>3 DEF ReadExitCode
  <2>2. row.build \in Ids /\ exitCodes[row.build] \in FileContents
    BY <1>1 DEF Typed, TypeOK, ProcessorTypeOK, FSTypeOK
  <2>3. exitCodes \in [Ids -> FileContents]
    BY <1>1 DEF Typed, TypeOK, FSTypeOK
  <2>4. FilesBacked'
    BY <1>3, <2>1, <2>2, <2>3 DEF ReadExitCode, CleanExitCode
  <2>5. CurBacked'
    BY <1>3, <2>1, <2>2 DEF ReadExitCode, Handle, ResultOf
  <2> QED
    BY <1>3, <2>4, <2>5 DEF ReadExitCode
<1>4. CASE CleanExitCodeFails
  BY <1>4 DEF CleanExitCodeFails, Handle
<1>5. ASSUME FinishBuild(cur.build, cur.result, cur.cacheFiles), pc = "finishTx",
             UNCHANGED builderVars
      PROVE  BuildsBacked'
  BY <1>1, <1>5 DEF FinishBuild, Typed, TypeOK, DBTypeOK, BuildRow
<1>6. CASE RecordResult
  BY <1>5, <1>6 DEF RecordResult
<1>7. CASE RecordResultFails
  BY <1>5, <1>7 DEF RecordResultFails
<1>8. CASE RecordStart
  <2>1. BuildsBacked'
    BY <1>8 DEF RecordStart, AfterStart, StartBuild
  <2> QED
    BY <1>8, <2>1 DEF RecordStart, AfterStart
<1>9. CASE RemoveUnusedDir
  BY <1>9 DEF RemoveUnusedDir
<1>10. CASE StartBuilder
  BY <1>10 DEF StartBuilder, StartProcess
<1>11. CASE ListBuilders
  BY <1>2, <1>11 DEF ListBuilders
<1>12. CASE SkipRunning
  BY <1>2, <1>12 DEF SkipRunning
<1>13. CASE SendFinalStatus
  BY <1>2, <1>13 DEF SendFinalStatus
<1>14. CASE FinalStatusFails
  BY <1>2, <1>14 DEF FinalStatusFails
<1>15. CASE GetPendingBuilds
  BY <1>2, <1>15 DEF GetPendingBuilds
<1>16. CASE SkipUnconfigured
  BY <1>2, <1>16 DEF SkipUnconfigured
<1>17. CASE StartBuilderFails
  BY <1>2, <1>17 DEF StartBuilderFails
<1>18. CASE RecordStartFails
  BY <1>2, <1>18 DEF RecordStartFails, AfterStart
<1>19. CASE SendPendingStatus
  BY <1>2, <1>19 DEF SendPendingStatus
<1>20. CASE PendingStatusFails
  BY <1>2, <1>20 DEF PendingStatusFails
<1>21. CASE ListBuildDirsInUse
  BY <1>2, <1>21 DEF ListBuildDirsInUse
<1>22. CASE ReadDirs
  BY <1>2, <1>22 DEF ReadDirs
<1>23. CASE RemoveUnusedDirFails
  BY <1>2, <1>23 DEF RemoveUnusedDirFails
<1>24. CASE FinishPoll
  BY <1>2, <1>24 DEF FinishPoll
<1>25. CASE QueryFails
  BY <1>2, <1>25 DEF QueryFails
<1> QED
  BY <1>3, <1>4, <1>6, <1>7, <1>8, <1>9, <1>10, <1>11, <1>12, <1>13, <1>14, <1>15, <1>16, <1>17, <1>18, <1>19, <1>20, <1>21, <1>22, <1>23, <1>24, <1>25
     DEF ProcessorStep

(***************************************************************************)
(* A builder that writes its exit code reports it in the same step; no     *)
(* other step of a builder makes a file readable.                          *)
(***************************************************************************)
LEMMA VerdictBuilder ==
    ASSUME NEW p \in Pids, VerdictInv, BuilderNext(p), Typed'
    PROVE  VerdictInv'
<1> USE DEF VerdictInv, FilesBacked, CurBacked, BuildsBacked, Backed, Readable,
            dbVars, fsVars, processorVars, localVars
<1>1. Typed
  OBVIOUS
<1>2. UNCHANGED <<processorVars, dbVars>>
  BY DEF BuilderNext
<1>3. ASSUME UNCHANGED <<exitCodes, reported>> PROVE VerdictInv'
  BY <1>2, <1>3
<1>4. CASE ReportExitCode(p)
  <2>1. procs[p].build \in Ids /\ procs[p].code \in ExitCodes
    BY <1>1, <1>4 DEF Typed, TypeOK, CodesTyped, BuilderTypeOK, ReportExitCode, At, Process, Free
  <2>2. /\ exitCodes \in [Ids -> FileContents]
        /\ reported \in [Ids -> SUBSET ExitCodes]
    BY <1>1 DEF Typed, TypeOK, FSTypeOK, BuilderTypeOK
  <2>3. \A b \in Ids : reported[b] \subseteq reported'[b]
    BY <1>4, <2>2 DEF ReportExitCode
  <2>4. FilesBacked'
    BY <1>4, <2>1, <2>2 DEF ReportExitCode, WriteExitCode, FormatExitCode, ExitCodes
  <2>5. BuildsBacked' /\ CurBacked'
    BY <1>1, <1>2, <2>3 DEF Typed, TypeOK, DBTypeOK, CurTyped, CurRow
  <2> QED
    BY <2>4, <2>5
<1>5. CASE BuilderDiesWriting(p)
  BY <1>1, <1>2, <1>5 DEF BuilderDiesWriting, TearExitCode, Typed, TypeOK, FSTypeOK
<1> QED
  BY <1>3, <1>4, <1>5 DEF BuilderNext, BuilderStep, BuilderFails, BuilderDies, CreateEmptyDir,
     MkdirFails, CopyCache, CopyCacheFails, FinishCopy, CopyAborts, Checkout,
     RunBuildCmd, RunDeployCmd, RunBuildErrs

(***************************************************************************)
(* VerdictInv is inductive.                                                *)
(***************************************************************************)
LEMMA VerdictNext == VerdictInv /\ [Next]_vars => VerdictInv'
<1> SUFFICES ASSUME VerdictInv, [Next]_vars PROVE VerdictInv'
  OBVIOUS
<1>1. Typed /\ Typed'
  BY TypedNext DEF VerdictInv
<1>2. CASE ProcessorStep
  BY <1>1, <1>2, VerdictProcessor
<1>3. ASSUME NEW p \in Pids, BuilderNext(p) PROVE VerdictInv'
  BY <1>1, <1>3, VerdictBuilder
<1> USE DEF VerdictInv, FilesBacked, CurBacked, BuildsBacked, Backed, Readable,
            dbVars, fsVars, builderVars, localVars, processorVars
<1>4. ASSUME NEW repo \in Repos, NEW main \in BOOLEAN, NEW commit \in Commits,
             Webhook(repo, main, commit)
      PROVE  VerdictInv'
  BY <1>1, <1>4 DEF Webhook, CreateBuild, Put
<1>5. CASE ServerStops
  BY <1>1, <1>5 DEF ServerStops
<1>6. CASE ServerStarts
  BY <1>1, <1>6 DEF ServerStarts
<1>7. CASE UNCHANGED vars
  BY <1>1, <1>7 DEF vars
<1> QED
  BY <1>2, <1>3, <1>4, <1>5, <1>6, <1>7 DEF Next

(***************************************************************************)
(* A success or a failure in the database was reported by a builder of that*)
(* build, for any number of restarts, lost transactions, second builders   *)
(* and torn files.                                                         *)
(***************************************************************************)
THEOREM VerdictSound == Spec => []NoFalseVerdict
<1>1. VerdictInv => NoFalseVerdict
  BY DEF VerdictInv, BuildsBacked, Backed, NoFalseVerdict, Created
<1> QED
  BY <1>1, VerdictInit, VerdictNext, PTL DEF Spec

-----------------------------------------------------------------------------
(***************************************************************************)
(* RunningIffTracked is not inductive: RecordResult and RecordStart write  *)
(* to the tables what the build loop read from them some steps before.     *)
(* What was read is still true because only this loop starts and finishes  *)
(* builds, and handles each row of a list once.                            *)
(***************************************************************************)
FinishListTracked ==
    /\ \A row \in finishList : row.build \in DOMAIN builders
    /\ \A row, other \in finishList : row.build = other.build => row = other
    /\ pc = "finishTx" =>
          /\ cur.build \in DOMAIN builders
          /\ \A row \in finishList : row.build # cur.build

StartListPending ==
    /\ \A row \in startList : row.build \in PendingBuilds
    /\ \A row, other \in startList : row.build = other.build => row = other
    /\ pc = "startTx" =>
          /\ cur.build \in PendingBuilds
          /\ \A row \in startList : row.build # cur.build

TrackInv == Typed /\ RunningIffTracked /\ FinishListTracked /\ StartListPending

(***************************************************************************)
(* Before the first webhook both tables are empty.                         *)
(***************************************************************************)
LEMMA TrackInit == Init => TrackInv
<1> SUFFICES ASSUME Init PROVE TrackInv
  OBVIOUS
<1>1. Typed
  BY TypedInit
<1> QED
  BY <1>1 DEF Init, TrackInv, RunningIffTracked, FinishListTracked, StartListPending,
              Created, DBInit, ProcessorInit

(***************************************************************************)
(* FinishBuild of a build that runs: it alone leaves the running builds.   *)
(***************************************************************************)
LEMMA FinishBuildTracked ==
    ASSUME DBTypeOK, RunningIffTracked,
           NEW b \in DOMAIN builders, NEW result \in Results, NEW cacheFiles \in BOOLEAN,
           FinishBuild(b, result, cacheFiles)
    PROVE  /\ RunningIffTracked'
           /\ DOMAIN builders' = DOMAIN builders \ {b}
           /\ PendingBuilds' = PendingBuilds
<1>1. b \in DOMAIN builds /\ builds[b].started /\ builds[b].result = NULL
  BY DEF DBTypeOK, RunningIffTracked, Created
<1>2. DOMAIN builders' = DOMAIN builders \ {b}
  BY DEF FinishBuild, Restrict
<1>3. /\ DOMAIN builds' = DOMAIN builds
      /\ \A o \in DOMAIN builds :
            /\ builds'[o].started = builds[o].started
            /\ o # b => builds'[o].result = builds[o].result
      /\ builds'[b].result = result
  BY <1>1 DEF FinishBuild, DBTypeOK, BuildRow
<1>4. result # NULL
  BY DEF Results
<1> QED
  BY <1>1, <1>2, <1>3, <1>4 DEF RunningIffTracked, Created, PendingBuilds

(***************************************************************************)
(* StartBuild of a pending build: it alone joins them.                     *)
(***************************************************************************)
LEMMA StartBuildTracked ==
    ASSUME DBTypeOK, RunningIffTracked,
           NEW b \in PendingBuilds, NEW pid \in Pids, NEW cache \in CacheIds,
           StartBuild(b, pid, cache)
    PROVE  /\ RunningIffTracked'
           /\ DOMAIN builders' = DOMAIN builders \cup {b}
           /\ PendingBuilds' = PendingBuilds \ {b}
<1>1. b \in DOMAIN builds /\ ~builds[b].started /\ builds[b].result = NULL
  BY DEF PendingBuilds
<1>2. DOMAIN builders' = DOMAIN builders \cup {b}
  BY DEF StartBuild, Put
<1>3. /\ DOMAIN builds' = DOMAIN builds
      /\ \A o \in DOMAIN builds :
            /\ o # b => builds'[o].started = builds[o].started
            /\ builds'[o].result = builds[o].result
      /\ builds'[b].started = TRUE
  BY <1>1 DEF StartBuild, DBTypeOK, BuildRow
<1> QED
  BY <1>1, <1>2, <1>3 DEF RunningIffTracked, Created, PendingBuilds

(***************************************************************************)
(* The build loop keeps the two tables in agreement, and the lists and the *)
(* row it works on in agreement with the tables.                           *)
(***************************************************************************)
LEMMA TrackProcessor ==
    ASSUME TrackInv, ProcessorStep, Typed'
    PROVE  TrackInv'
<1>1. Typed /\ DBTypeOK
  BY DEF TrackInv, Typed, TypeOK
<1> USE DEF TrackInv, FinishListTracked, StartListPending
<1>2. ASSUME UNCHANGED dbVars
      PROVE  /\ RunningIffTracked'
             /\ DOMAIN builders' = DOMAIN builders
             /\ PendingBuilds' = PendingBuilds
  BY <1>2 DEF RunningIffTracked, Created, PendingBuilds, dbVars
<1>3. CASE ListBuilders
  BY <1>2, <1>3 DEF ListBuilders
<1>4. CASE GetPendingBuilds
  BY <1>2, <1>4 DEF GetPendingBuilds
<1>5. CASE SkipRunning
  BY <1>2, <1>5 DEF SkipRunning
<1>6. CASE SkipUnconfigured
  BY <1>2, <1>6 DEF SkipUnconfigured
<1>7. CASE ReadExitCode
  <2>1. PICK row \in finishList :
           Handle(row.build, ResultOf(exitCodes[row.build])) /\ finishList' = finishList \ {row}
    BY <1>7 DEF ReadExitCode
  <2> QED
    BY <1>2, <1>7, <2>1 DEF ReadExitCode, Handle
<1>8. CASE CleanExitCodeFails
  <2>1. PICK row \in finishList :
           Handle(row.build, "error") /\ finishList' = finishList \ {row}
    BY <1>8 DEF CleanExitCodeFails
  <2> QED
    BY <1>2, <1>8, <2>1 DEF CleanExitCodeFails, Handle, fsVars
<1>9. ASSUME pc = "finishTx", FinishBuild(cur.build, cur.result, cur.cacheFiles),
             pc' \in {"finish", "finishStatus"}, UNCHANGED <<finishList, startList>>
      PROVE  TrackInv'
  <2>1. cur.build \in DOMAIN builders /\ cur.result \in Results /\ cur.cacheFiles \in BOOLEAN
    BY <1>1, <1>9 DEF Typed, CurTyped, CurRow
  <2>2. /\ RunningIffTracked'
        /\ DOMAIN builders' = DOMAIN builders \ {cur.build}
        /\ PendingBuilds' = PendingBuilds
    <3>1. DBTypeOK /\ RunningIffTracked
      BY <1>1
    <3> HIDE DEF TrackInv, FinishListTracked, StartListPending
    <3> QED
      BY <1>9, <2>1, <3>1, FinishBuildTracked
  <2> QED
    BY <1>9, <2>2
<1>10. CASE RecordResult
  BY <1>9, <1>10 DEF RecordResult
<1>11. CASE RecordResultFails
  BY <1>2, <1>9, <1>11 DEF RecordResultFails
<1>12. CASE StartBuilder
  <2>1. PICK row \in startList :
           cur'.build = row.build /\ startList' = startList \ {row}
    BY <1>12 DEF StartBuilder
  <2> QED
    BY <1>2, <1>12, <2>1 DEF StartBuilder
<1>13. CASE StartBuilderFails
  BY <1>2, <1>13 DEF StartBuilderFails
<1>14. CASE RecordStart
  <2>1. cur.build \in PendingBuilds /\ cur.pid \in Pids /\ cur.cache \in CacheIds
    BY <1>1, <1>14 DEF RecordStart, Typed, CurTyped, CurRow
  <2>2. /\ RunningIffTracked'
        /\ DOMAIN builders' = DOMAIN builders \cup {cur.build}
        /\ PendingBuilds' = PendingBuilds \ {cur.build}
    BY <1>1, <1>14, <2>1, StartBuildTracked DEF RecordStart
  <2> QED
    BY <1>14, <2>2 DEF RecordStart, AfterStart
<1>15. CASE RecordStartFails
  BY <1>2, <1>15 DEF RecordStartFails, AfterStart
<1>16. ASSUME UNCHANGED <<dbVars, finishList, startList>>, pc' \notin {"finishTx", "startTx"}
       PROVE  TrackInv'
  BY <1>2, <1>16
<1> QED
  BY <1>3, <1>4, <1>5, <1>6, <1>7, <1>8, <1>10, <1>11, <1>12, <1>13, <1>14, <1>15, <1>16
     DEF ProcessorStep, localVars, SendFinalStatus, FinalStatusFails, SendPendingStatus, PendingStatusFails, ListBuildDirsInUse,
         ReadDirs, RemoveUnusedDir, RemoveUnusedDirFails, FinishPoll, QueryFails

(***************************************************************************)
(* TrackInv is inductive.                                                  *)
(***************************************************************************)
LEMMA TrackNext == TrackInv /\ [Next]_vars => TrackInv'
<1> SUFFICES ASSUME TrackInv, [Next]_vars PROVE TrackInv'
  OBVIOUS
<1>1. Typed /\ Typed'
  BY TypedNext DEF TrackInv
<1>2. CASE ProcessorStep
  BY <1>1, <1>2, TrackProcessor
<1> USE DEF TrackInv, RunningIffTracked, FinishListTracked, StartListPending,
            Created, PendingBuilds, dbVars, localVars, processorVars
<1>3. ASSUME NEW p \in Pids, BuilderNext(p) PROVE TrackInv'
  BY <1>1, <1>3 DEF BuilderNext
<1>4. ASSUME NEW repo \in Repos, NEW main \in BOOLEAN, NEW commit \in Commits,
             Webhook(repo, main, commit)
      PROVE  TrackInv'
  <2>1. PICK b \in Ids :
           /\ DOMAIN builds = 1..(b - 1)
           /\ builds' = Put(builds, b, [repo |-> repo, main |-> main, commit |-> commit,
                                       started |-> FALSE, result |-> NULL])
    BY <1>4 DEF Webhook, CreateBuild
  <2>2. b \notin DOMAIN builds /\ b \notin DOMAIN builders
    BY <2>1, BoundsAssumption DEF Ids
  <2> QED
    BY <1>1, <1>4, <2>1, <2>2 DEF Webhook, CreateBuild, Put
<1>5. CASE ServerStops
  BY <1>1, <1>5 DEF ServerStops, LocalReset
<1>6. CASE ServerStarts
  BY <1>1, <1>6 DEF ServerStarts
<1>7. CASE UNCHANGED vars
  BY <1>1, <1>7 DEF vars
<1> QED
  BY <1>2, <1>3, <1>4, <1>5, <1>6, <1>7 DEF Next

(***************************************************************************)
(* The builders table and the columns started and result of builds never   *)
(* disagree, although they are read and written in different transactions: *)
(* no build is polled for ever and none is left running without a builder. *)
(***************************************************************************)
THEOREM TablesAgree == Spec => []RunningIffTracked
<1>1. TrackInv => RunningIffTracked
  BY DEF TrackInv
<1> QED
  BY <1>1, TrackInit, TrackNext, PTL DEF Spec
=============================================================================
