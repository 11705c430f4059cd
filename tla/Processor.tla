----------------------------- MODULE Processor -----------------------------
(***************************************************************************)
(* The build loop of internal/build/processor.go: one goroutine of the     *)
(* server that polls the database, records the results of builders that    *)
(* ended, starts builders for pending builds and deletes unused build dirs.*)
(* Every call it makes (a transaction, a system call, a GitHub request) is *)
(* a step of its own, so that builders, webhooks and the end of the server *)
(* may come between any two of them.                                       *)
(***************************************************************************)
EXTENDS DBStore, Builder

CONSTANTS
    HasGitHub,    \* whether a GitHub app is configured
    DeployRepos,  \* the repositories with a deploy command
    Configs       \* the sets of repositories the server may be configured with

ASSUME ProcessorAssumption ==
    /\ HasGitHub \in BOOLEAN
    /\ DeployRepos \subseteq Repos
    /\ Configs \subseteq SUBSET Repos

VARIABLES
    pc,          \* where the goroutine is; "down" while no server runs
    config,      \* the repositories of the loaded configuration
    finishList,  \* rows of ListBuilders not handled yet
    startList,   \* rows of GetPendingBuilds not handled yet
    cur,         \* the row being handled
    inUse,       \* what ListBuildDirsInUse returned
    doomed,      \* build dirs RetainBuildDirs has still to delete
    statuses     \* the status "CI" GitHub shows for each commit

localVars == <<finishList, startList, cur, inUse, doomed>>
processorVars == <<pc, config, localVars, statuses>>

Locations == {"down", "poll", "finish", "finishTx", "finishStatus",
              "start", "startTx", "startStatus", "readDirs", "removeDirs"}

NoRow == [build |-> 0, pid |-> NULL, cache |-> NoCache, result |-> NULL,
          cacheFiles |-> FALSE]

CurRow == [build : Ids, pid : Pids \cup {NULL}, cache : CacheIds,
           result : Results \cup {NULL}, cacheFiles : BOOLEAN]

(***************************************************************************)
(* GitHub keeps one status per repository, commit and context, and the     *)
(* context is always "CI": the builds of a commit share it.  A status links*)
(* to the page of the build it was sent for.                               *)
(***************************************************************************)
StatusKeys == Repos \X Commits

StatusKey(b) == <<builds[b].repo, builds[b].commit>>

NoStatus == [state |-> "none", build |-> 0]

CommitStatus == [state : Results \cup {"pending"}, build : Ids]

ProcessorTypeOK ==
    /\ pc \in Locations
    /\ config \subseteq Repos
    /\ finishList \subseteq [build : Ids, pid : Pids]
    /\ startList \subseteq [build : Ids, cache : CacheIds]
    /\ cur \in CurRow \cup {NoRow}
    /\ inUse \subseteq Ids
    /\ doomed \subseteq Ids
    /\ statuses \in [StatusKeys -> CommitStatus \cup {NoStatus}]

LocalReset ==
    /\ finishList' = {}
    /\ startList' = {}
    /\ cur' = NoRow
    /\ inUse' = {}
    /\ doomed' = {}

ProcessorInit ==
    /\ pc = "down"
    /\ config = {}
    /\ finishList = {}
    /\ startList = {}
    /\ cur = NoRow
    /\ inUse = {}
    /\ doomed = {}
    /\ statuses = [k \in StatusKeys |-> NoStatus]

(***************************************************************************)
(* Both queries are ordered by id.                                         *)
(***************************************************************************)
IsFirst(row, list) ==
    row \in list /\ \A other \in list : row.build <= other.build

-----------------------------------------------------------------------------
(***************************************************************************)
(* Handle finished builds                                                  *)
(***************************************************************************)
ListBuilders ==
    /\ pc = "poll"
    /\ finishList' = {[build |-> b, pid |-> builders[b].pid] : b \in DOMAIN builders}
    /\ pc' = "finish"
    /\ UNCHANGED <<config, startList, cur, inUse, doomed, statuses,
                   dbVars, fsVars, builderVars, faultVars>>

SkipRunning ==
    /\ pc = "finish"
    /\ \E row \in finishList :
          /\ IsFirst(row, finishList)
          /\ IsRunning(row.pid, row.build)
          /\ finishList' = finishList \ {row}
    /\ UNCHANGED <<pc, config, startList, cur, inUse, doomed, statuses,
                   dbVars, fsVars, builderVars, faultVars>>

(***************************************************************************)
(* A mutant: an exit code that cannot be read counts as zero.              *)
(***************************************************************************)
OptimisticResultOf(content) ==
    IF content = "nonzero" THEN "failure" ELSE "success"

ResultOf(content) ==
    CASE content = "zero"    -> "success"
      [] content = "nonzero" -> "failure"
      [] OTHER               -> "error"

(***************************************************************************)
(* cacheBuildFiles looks at the branch and the configuration, not at the   *)
(* result.                                                                 *)
(***************************************************************************)
CacheBuildFiles(b) == builds[b].repo \in config /\ builds[b].main

Handle(b, result) ==
    cur' = [build |-> b, pid |-> NULL, cache |-> NoCache, result |-> result,
            cacheFiles |-> CacheBuildFiles(b)]

ReadExitCode ==
    /\ pc = "finish"
    /\ \E row \in finishList :
          /\ IsFirst(row, finishList)
          /\ ~IsRunning(row.pid, row.build)
          /\ Handle(row.build, ResultOf(exitCodes[row.build]))
          /\ CleanExitCode(row.build)
          /\ finishList' = finishList \ {row}
    /\ pc' = "finishTx"
    /\ UNCHANGED <<config, startList, inUse, doomed, statuses, buildDirs,
                   dbVars, builderVars, faultVars>>

(***************************************************************************)
(* The file was read but cannot be deleted: an error like any other.       *)
(***************************************************************************)
CleanExitCodeFails ==
    /\ pc = "finish"
    /\ \E row \in finishList :
          /\ IsFirst(row, finishList)
          /\ ~IsRunning(row.pid, row.build)
          /\ Readable(row.build)
          /\ Handle(row.build, "error")
          /\ finishList' = finishList \ {row}
    /\ Fault("fs")
    /\ pc' = "finishTx"
    /\ UNCHANGED <<config, startList, inUse, doomed, statuses,
                   dbVars, fsVars, builderVars>>

(***************************************************************************)
(* A mutant: the loop continues without sending a status.                  *)
(***************************************************************************)
RecordResultOnly ==
    /\ pc = "finishTx"
    /\ FinishBuild(cur.build, cur.result, cur.cacheFiles)
    /\ pc' = "finish"
    /\ cur' = NoRow
    /\ UNCHANGED <<config, finishList, startList, inUse, doomed, statuses,
                   fsVars, builderVars, faultVars>>

RecordResult ==
    /\ pc = "finishTx"
    /\ FinishBuild(cur.build, cur.result, cur.cacheFiles)
    /\ pc' = IF HasGitHub THEN "finishStatus" ELSE "finish"
    /\ cur' = IF HasGitHub THEN cur ELSE NoRow
    /\ UNCHANGED <<config, finishList, startList, inUse, doomed, statuses,
                   fsVars, builderVars, faultVars>>

(***************************************************************************)
(* A mutant: the "continue" after the failure is missing.                  *)
(***************************************************************************)
RecordResultFailsGoesOn ==
    /\ pc = "finishTx"
    /\ \/ FinishBuild(cur.build, cur.result, cur.cacheFiles)
       \/ UNCHANGED dbVars
    /\ Fault("db")
    /\ pc' = "finishStatus"
    /\ UNCHANGED <<config, finishList, startList, cur, inUse, doomed, statuses,
                   fsVars, builderVars>>

(***************************************************************************)
(* FinishBuild returns an error, after a rollback or although the commit   *)
(* took effect: the loop moves on and no status is sent.                   *)
(***************************************************************************)
RecordResultFails ==
    /\ pc = "finishTx"
    /\ \/ FinishBuild(cur.build, cur.result, cur.cacheFiles)
       \/ UNCHANGED dbVars
    /\ Fault("db")
    /\ pc' = "finish"
    /\ cur' = NoRow
    /\ UNCHANGED <<config, finishList, startList, inUse, doomed, statuses,
                   fsVars, builderVars>>

SendFinalStatus ==
    /\ pc = "finishStatus"
    /\ statuses' = [statuses EXCEPT ![StatusKey(cur.build)] =
                        [state |-> cur.result, build |-> cur.build]]
    /\ pc' = "finish"
    /\ cur' = NoRow
    /\ UNCHANGED <<config, finishList, startList, inUse, doomed,
                   dbVars, fsVars, builderVars, faultVars>>

FinalStatusFails ==
    /\ pc = "finishStatus"
    /\ Fault("github")
    /\ pc' = "finish"
    /\ cur' = NoRow
    /\ UNCHANGED <<config, finishList, startList, inUse, doomed, statuses,
                   dbVars, fsVars, builderVars>>

-----------------------------------------------------------------------------
(***************************************************************************)
(* Start new builds                                                        *)
(***************************************************************************)
GetPendingBuilds ==
    /\ pc = "finish"
    /\ finishList = {}
    /\ startList' = {[build |-> b, cache |-> cacheId[builds[b].repo]] :
                        b \in PendingBuilds}
    /\ pc' = "start"
    /\ UNCHANGED <<config, finishList, cur, inUse, doomed, statuses,
                   dbVars, fsVars, builderVars, faultVars>>

SkipUnconfigured ==
    /\ pc = "start"
    /\ \E row \in startList :
          /\ IsFirst(row, startList)
          /\ builds[row.build].repo \notin config
          /\ startList' = startList \ {row}
    /\ UNCHANGED <<pc, config, finishList, cur, inUse, doomed, statuses,
                   dbVars, fsVars, builderVars, faultVars>>

RunDeploy(b) == builds[b].main /\ builds[b].repo \in DeployRepos

StartBuilder ==
    /\ pc = "start"
    /\ \E row \in startList, p \in Pids :
          /\ IsFirst(row, startList)
          /\ builds[row.build].repo \in config
          /\ StartProcess(p, row.build, row.cache, RunDeploy(row.build))
          /\ startList' = startList \ {row}
          /\ cur' = [build |-> row.build, pid |-> p, cache |-> row.cache,
                     result |-> NULL, cacheFiles |-> FALSE]
    /\ pc' = "startTx"
    /\ UNCHANGED <<config, finishList, inUse, doomed, statuses,
                   dbVars, fsVars, faultVars>>

(***************************************************************************)
(* Start fails for want of a process, or for another reason: the build     *)
(* stays pending until the next poll.                                      *)
(***************************************************************************)
StartBuilderFails ==
    /\ pc = "start"
    /\ \E row \in startList :
          /\ IsFirst(row, startList)
          /\ builds[row.build].repo \in config
          /\ startList' = startList \ {row}
    /\ \/ Fault("start")
       \/ (\A p \in Pids : procs[p] # Free) /\ UNCHANGED faultVars
    /\ UNCHANGED <<pc, config, finishList, cur, inUse, doomed, statuses,
                   dbVars, fsVars, builderVars>>

AfterStart ==
    /\ pc' = IF HasGitHub THEN "startStatus" ELSE "start"
    /\ cur' = IF HasGitHub THEN cur ELSE NoRow
    /\ UNCHANGED <<config, finishList, startList, inUse, doomed, statuses,
                   fsVars, builderVars>>

RecordStart ==
    /\ pc = "startTx"
    /\ StartBuild(cur.build, cur.pid, cur.cache)
    /\ AfterStart
    /\ UNCHANGED faultVars

(***************************************************************************)
(* StartBuild returns an error; it is only logged.  (The transaction that  *)
(* took effect although its commit failed is RecordStart.)                 *)
(***************************************************************************)
RecordStartFails ==
    /\ pc = "startTx"
    /\ UNCHANGED dbVars
    /\ AfterStart
    /\ Fault("db")

SendPendingStatus ==
    /\ pc = "startStatus"
    /\ statuses' = [statuses EXCEPT ![StatusKey(cur.build)] =
                        [state |-> "pending", build |-> cur.build]]
    /\ pc' = "start"
    /\ cur' = NoRow
    /\ UNCHANGED <<config, finishList, startList, inUse, doomed,
                   dbVars, fsVars, builderVars, faultVars>>

PendingStatusFails ==
    /\ pc = "startStatus"
    /\ Fault("github")
    /\ pc' = "start"
    /\ cur' = NoRow
    /\ UNCHANGED <<config, finishList, startList, inUse, doomed, statuses,
                   dbVars, fsVars, builderVars>>

-----------------------------------------------------------------------------
(***************************************************************************)
(* Clean up unused build dirs                                              *)
(***************************************************************************)
ListBuildDirsInUse ==
    /\ pc = "start"
    /\ startList = {}
    /\ inUse' = BuildDirsInUse
    /\ pc' = "readDirs"
    /\ UNCHANGED <<config, finishList, startList, cur, doomed, statuses,
                   dbVars, fsVars, builderVars, faultVars>>

ReadDirs ==
    /\ pc = "readDirs"
    /\ doomed' = buildDirs \ inUse
    /\ inUse' = {}
    /\ pc' = "removeDirs"
    /\ UNCHANGED <<config, finishList, startList, cur, statuses,
                   dbVars, fsVars, builderVars, faultVars>>

RemoveUnusedDir ==
    /\ pc = "removeDirs"
    /\ \E d \in doomed :
          /\ RemoveDir(d)
          /\ doomed' = doomed \ {d}
    /\ UNCHANGED <<pc, config, finishList, startList, cur, inUse, statuses,
                   exitCodes, dbVars, builderVars, faultVars>>

RemoveUnusedDirFails ==
    /\ pc = "removeDirs"
    /\ \E d \in doomed : doomed' = doomed \ {d}
    /\ Fault("fs")
    /\ UNCHANGED <<pc, config, finishList, startList, cur, inUse, statuses,
                   dbVars, fsVars, builderVars>>

FinishPoll ==
    /\ pc = "removeDirs"
    /\ doomed = {}
    /\ pc' = "poll"
    /\ UNCHANGED <<config, localVars, statuses,
                   dbVars, fsVars, builderVars, faultVars>>

(***************************************************************************)
(* One of the three queries fails: process returns.                        *)
(***************************************************************************)
QueryFails ==
    /\ \/ pc = "poll"
       \/ pc = "finish" /\ finishList = {}
       \/ pc = "start" /\ startList = {}
    /\ Fault("db")
    /\ pc' = "poll"
    /\ UNCHANGED <<config, localVars, statuses, dbVars, fsVars, builderVars>>

ProcessorStep ==
    \/ ListBuilders
    \/ SkipRunning
    \/ ReadExitCode
    \/ CleanExitCodeFails
    \/ RecordResult
    \/ RecordResultFails
    \/ SendFinalStatus
    \/ FinalStatusFails
    \/ GetPendingBuilds
    \/ SkipUnconfigured
    \/ StartBuilder
    \/ StartBuilderFails
    \/ RecordStart
    \/ RecordStartFails
    \/ SendPendingStatus
    \/ PendingStatusFails
    \/ ListBuildDirsInUse
    \/ ReadDirs
    \/ RemoveUnusedDir
    \/ RemoveUnusedDirFails
    \/ FinishPoll
    \/ QueryFails
=============================================================================
