------------------------------ MODULE CIServer ------------------------------
(***************************************************************************)
(* The CI server: webhooks that create builds, the build loop, the builder *)
(* processes, the database and the data directory, and the end and restart *)
(* of the server process, which the builders survive.                      *)
(***************************************************************************)
EXTENDS Processor

vars == <<processorVars, dbVars, fsVars, builderVars, faultVars>>

TypeOK ==
    /\ FaultsTypeOK
    /\ DBTypeOK
    /\ FSTypeOK
    /\ BuilderTypeOK
    /\ ProcessorTypeOK

Init ==
    /\ FaultsInit
    /\ DBInit
    /\ FSInit
    /\ BuilderInit
    /\ ProcessorInit

(***************************************************************************)
(* A webhook request for a configured repository.  Handlers run beside the *)
(* build loop.  They build a commit as often as they are asked to.         *)
(***************************************************************************)
Webhook(repo, main, commit) ==
    /\ pc # "down"
    /\ repo \in config
    /\ CreateBuild(repo, main, commit)
    /\ UNCHANGED <<processorVars, fsVars, builderVars, faultVars>>

(***************************************************************************)
(* The server process ends, killed or told to: main does not wait for the  *)
(* build loop.  Builders are in process groups of their own and go on.     *)
(* (A server told to end cancels the context of its calls first.  What the *)
(* build loop still does then is what it does when each of the calls fails:*)
(* faults of the kinds db and github before this step.)                    *)
(***************************************************************************)
ServerStops ==
    /\ pc # "down"
    /\ Fault("restart")
    /\ pc' = "down"
    /\ LocalReset
    /\ UNCHANGED <<config, statuses, dbVars, fsVars, builderVars>>

ServerStarts ==
    /\ pc = "down"
    /\ pc' = "poll"
    /\ config' \in Configs
    /\ UNCHANGED <<localVars, statuses, dbVars, fsVars, builderVars, faultVars>>

BuilderNext(p) ==
    \/ BuilderStep(p) /\ UNCHANGED <<processorVars, dbVars, faultVars>>
    \/ BuilderFails(p) /\ UNCHANGED <<processorVars, dbVars>>

Next ==
    \/ \E repo \in Repos, main \in BOOLEAN, commit \in Commits :
          Webhook(repo, main, commit)
    \/ ProcessorStep
    \/ \E p \in Pids : BuilderNext(p)
    \/ ServerStops
    \/ ServerStarts

Spec == Init /\ [][Next]_vars

(***************************************************************************)
(* Two things need not end, for the code sets no timeout: a request to     *)
(* GitHub, which the build loop waits for, and what a builder runs, git or *)
(* the commands of the repository.                                         *)
(***************************************************************************)
AwaitsGitHub == pc \in {"finishStatus", "startStatus"}

RunsCommand(p) == procs[p].step \in {"checkout", "build", "deploy"}

(***************************************************************************)
(* Everything else goes on: the goroutine and the builders are scheduled,  *)
(* the database and the file system answer, and systemd restarts the       *)
(* server.                                                                 *)
(***************************************************************************)
Fairness ==
    /\ WF_vars(~AwaitsGitHub /\ ProcessorStep)
    /\ \A p \in Pids : WF_vars(~RunsCommand(p) /\ BuilderNext(p))
    /\ WF_vars(ServerStarts)

FairSpec == Spec /\ Fairness

-----------------------------------------------------------------------------
Created == DOMAIN builds

(***************************************************************************)
(* The two tables agree: a build has a builder exactly while it was started*)
(* and has no result.  StartBuild and FinishBuild must each change both    *)
(* tables or none, or a build is polled for ever or never finished.        *)
(***************************************************************************)
RunningIffTracked ==
    \A b \in Ids :
        b \in DOMAIN builders <=>
            b \in Created /\ builds[b].started /\ builds[b].result = NULL

(***************************************************************************)
(* The verdict of a build is never made up: a build recorded as a success  *)
(* (or failure) had a builder whose last command exited with zero (or not),*)
(* whatever faults, restarts and second builders came between the two.     *)
(***************************************************************************)
NoFalseVerdict ==
    \A b \in Created :
        /\ builds[b].result = "success" => "zero" \in reported[b]
        /\ builds[b].result = "failure" => "nonzero" \in reported[b]

(***************************************************************************)
(* RetainBuildDirs never deletes what the builder in the database works on:*)
(* neither its build dir nor, while it copies, its cache dir.              *)
(***************************************************************************)
TrackedBuilderDirsKept ==
    \A b \in DOMAIN builders :
        LET p == builders[b].pid IN
        IsRunning(p, b) =>
            /\ procs[p].step # "mkdir" => b \in buildDirs
            /\ procs[p].step = "copying" => procs[p].cache \in buildDirs

(***************************************************************************)
(* GitHub is told the truth: the status of a commit links to a build of    *)
(* that commit, and if it is a final one it says what the database has for *)
(* that build, for good.  (Which of the builds of a commit it shows is the *)
(* one whose status was sent last.)                                        *)
(***************************************************************************)
StatusesAreTrue ==
    \A k \in StatusKeys :
        LET b == statuses[k].build IN
        statuses[k] # NoStatus =>
            /\ b \in Created /\ StatusKey(b) = k
            /\ statuses[k].state \in Results => builds[b].result = statuses[k].state

(***************************************************************************)
(* No pending status comes late: "Build started" is sent only while the    *)
(* build has no result, so that it never hides the result of its own build.*)
(***************************************************************************)
NoLatePending ==
    [][\A k \in StatusKeys :
          statuses'[k] # statuses[k] /\ statuses'[k].state = "pending"
              => builds[statuses'[k].build].result = NULL]_vars

(***************************************************************************)
(* A commit whose builds have all ended, of those that were started, does  *)
(* not stay pending on GitHub: it shows a final status as soon as the one  *)
(* being sent has arrived, in whatever order its builds started and ended. *)
(* The code sends a status once, so a restart, a database error or a failed*)
(* request may leave the commit pending for ever.                          *)
(***************************************************************************)
StartedBuilds(k) == {b \in Created : builds[b].started /\ StatusKey(b) = k}

EndedCommitsShowResults ==
    HasGitHub /\ {"restart", "db", "github"} \cap happened = {} =>
        \A k \in StatusKeys :
            /\ StartedBuilds(k) # {}
            /\ \A b \in StartedBuilds(k) : builds[b].result # NULL
            => \/ statuses[k].state \in Results
               \/ pc = "finishStatus" /\ StatusKey(cur.build) = k

(***************************************************************************)
(* The cache of a repository is there to be copied: RetainBuildDirs keeps  *)
(* it, and a build that becomes the cache has left its dir behind.         *)
(***************************************************************************)
CacheDirPresent ==
    \A r \in Repos : cacheId[r] # NoCache => cacheId[r] \in buildDirs

(***************************************************************************)
(* That is so unless a builder died, perhaps before it created its dir:    *)
(* restarts, database errors and second builders do no harm.               *)
(***************************************************************************)
CacheDirPresentUnlessDeath == "builder" \notin happened => CacheDirPresent

(***************************************************************************)
(* Without a restart or a database error every live builder is the one the *)
(* database names, or is about to be: no build is built, let alone deployed*)
(* by two processes.                                                       *)
(***************************************************************************)
LiveBuildersAreTracked ==
    {"restart", "db"} \cap happened = {} =>
        \A p \in Pids :
            procs[p] # Free =>
                LET b == procs[p].build IN
                \/ b \in DOMAIN builders /\ builders[b].pid = p
                \/ pc = "startTx" /\ cur.build = b /\ cur.pid = p

(***************************************************************************)
(* A verdict is not lost: when a builder reported an exit code, the result *)
(* recorded is the one of that code, unless a restart, a database error or *)
(* a file that could not be deleted came between.                          *)
(***************************************************************************)
VerdictRecorded ==
    \A b \in Created :
        builds[b].result # NULL /\ reported[b] # {} =>
            \E code \in reported[b] :
                builds[b].result = ResultOf(FormatExitCode(code))

VerdictKept == {"restart", "db", "fs"} \cap happened = {} => VerdictRecorded

(***************************************************************************)
(* What fs_store.go says of the cache: it is the dir of a successful build.*)
(* The code makes a cache of every build of the default branch.            *)
(***************************************************************************)
CacheFromSuccess ==
    \A r \in Repos : cacheId[r] # NoCache => builds[cacheId[r]].result = "success"

(***************************************************************************)
(* What ListBuildDirsInUse is for: the dir of a builder that works in it is*)
(* not deleted.  It keeps only the dirs of the builders in the database.   *)
(***************************************************************************)
LiveBuilderDirsKept ==
    \A p \in Pids :
        procs[p].step \in Steps \ {"mkdir"} => procs[p].build \in buildDirs

(***************************************************************************)
(* The database shows a build lifecycle.                                   *)
(***************************************************************************)
StatusOf(b) ==
    IF b \notin Created THEN "none"
    ELSE IF builds[b].result # NULL THEN builds[b].result
    ELSE IF b \in DOMAIN builders THEN "running"
    ELSE "pending"

RepoOf(b) == IF b \in Created THEN builds[b].repo ELSE "norepo"

Lifecycle == INSTANCE BuildLifecycle WITH
    status <- [b \in Ids |-> StatusOf(b)],
    repoOf <- [b \in Ids |-> RepoOf(b)],
    cache <- cacheId

ImplementsLifecycle == Lifecycle!Spec

-----------------------------------------------------------------------------
(***************************************************************************)
(* What the liveness properties depend on and nobody enforces: GitHub      *)
(* answers, the commands of a build end, and a builder can be started.     *)
(***************************************************************************)
GitHubAnswers == []<>~AwaitsGitHub

CommandsEnd(b) == []<>~(\E p \in Pids : procs[p].build = b /\ RunsCommand(p))

PidsLeft == []<>(\E p \in Pids : procs[p] = Free)

(***************************************************************************)
(* Every build of a repository that stays configured ends with a result,   *)
(* however many (finitely many) faults hit it, if GitHub answers and its   *)
(* own commands end: those of other builds may hang without holding it up. *)
(***************************************************************************)
Unfinished(b) ==
    b \in Created /\ builds[b].result = NULL /\ builds[b].repo \in config

BuildsFinish ==
    \A b \in Ids :
        GitHubAnswers /\ PidsLeft /\ CommandsEnd(b) => (Unfinished(b) ~> ~Unfinished(b))

(***************************************************************************)
(* Dirs nothing refers to do not stay: once webhooks and faults are over,  *)
(* what is on disk is in use.  A GitHub that does not answer stops the loop*)
(* before it gets to delete them; a command that hangs does not.           *)
(***************************************************************************)
UnusedDirsGo == GitHubAnswers => <>[](buildDirs \subseteq BuildDirsInUse)

(***************************************************************************)
(* GitHub is told the result of every build that ends, be it only until    *)
(* another build of the commit is reported.  A status is sent once, and    *)
(* never again if a restart, a database error or a failed request comes    *)
(* between; other faults do not matter.                                    *)
(***************************************************************************)
Finished(b) == b \in Created /\ builds[b].result # NULL

Reported(b) ==
    statuses[StatusKey(b)] = [state |-> builds[b].result, build |-> b]

ResultsReachGitHub ==
    \A b \in Ids :
        HasGitHub /\ GitHubAnswers /\ <>Finished(b) =>
            <>(\/ Finished(b) /\ Reported(b)
              \/ {"restart", "db", "github"} \cap happened # {})
=============================================================================
