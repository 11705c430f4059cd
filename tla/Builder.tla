------------------------------ MODULE Builder ------------------------------
(***************************************************************************)
(* The builder processes of internal/build/builder.go, and how the server  *)
(* starts and recognises them (controller.go).  A builder is a process of  *)
(* its own: it outlives the server that started it, and the only trace it  *)
(* leaves is its build dir and its exit code file.                         *)
(*                                                                         *)
(* Not modelled: zombies.  A finished child of a running server keeps its  *)
(* pid until the server exits; here its pid is free at once, so that the   *)
(* model reuses pids sooner than the system can.                           *)
(***************************************************************************)
EXTENDS FSStore

VARIABLES
    procs,     \* the process under each pid
    reported   \* auxiliary: the exit codes any builder of a build wrote

builderVars == <<procs, reported>>

Steps == {"mkdir", "copying", "checkout", "build", "deploy", "write"}

Free == [step |-> "free", build |-> 0, cache |-> NoCache, deploy |-> FALSE,
         code |-> NULL]

Process == [step : Steps, build : Ids, cache : CacheIds, deploy : BOOLEAN,
            code : ExitCodes \cup {NULL}]

BuilderTypeOK ==
    /\ procs \in [Pids -> Process \cup {Free}]
    /\ reported \in [Ids -> SUBSET ExitCodes]

BuilderInit ==
    /\ procs = [p \in Pids |-> Free]
    /\ reported = [b \in Ids |-> {}]

(***************************************************************************)
(* The server's side: Start and IsRunning of the controller.               *)
(***************************************************************************)
StartProcess(p, b, cache, deploy) ==
    /\ procs[p] = Free
    /\ procs' = [procs EXCEPT ![p] =
            [step |-> "mkdir", build |-> b, cache |-> cache, deploy |-> deploy,
             code |-> NULL]]
    /\ UNCHANGED reported

(***************************************************************************)
(* A mutant: the variable looked for in the environment is never there.    *)
(***************************************************************************)
IsNeverRunning(p, b) == FALSE

IsRunning(p, b) == procs[p].build = b

-----------------------------------------------------------------------------
At(p, step) == procs[p].step = step

Goto(p, step) == procs' = [procs EXCEPT ![p].step = step]

Exit(p) == procs' = [procs EXCEPT ![p] = Free]

(***************************************************************************)
(* CreateBuildDir without a cache: os.Mkdir, which fails on a dir that     *)
(* exists, then MkdirAll of the checkout dir.                              *)
(***************************************************************************)
CreateEmptyDir(p) ==
    LET b == procs[p].build IN
    /\ At(p, "mkdir")
    /\ procs[p].cache = NoCache
    /\ b \notin buildDirs
    /\ CreateDir(b)
    /\ Goto(p, "checkout")
    /\ UNCHANGED <<exitCodes, reported>>

MkdirFails(p) ==
    /\ At(p, "mkdir")
    /\ procs[p].cache = NoCache
    /\ procs[p].build \in buildDirs
    /\ Exit(p)
    /\ UNCHANGED <<fsVars, reported>>

(***************************************************************************)
(* CreateBuildDir with a cache: cp -a, which takes its time and accepts a  *)
(* target that exists, then MkdirAll.  The copy fails if a dir it works on *)
(* goes away, and may also survive that: MkdirAll recreates the target.    *)
(***************************************************************************)
CopyCache(p) ==
    /\ At(p, "mkdir")
    /\ procs[p].cache \in buildDirs
    /\ CreateDir(procs[p].build)
    /\ Goto(p, "copying")
    /\ UNCHANGED <<exitCodes, reported>>

CopyCacheFails(p) ==
    /\ At(p, "mkdir")
    /\ procs[p].cache \in Ids \ buildDirs
    /\ Exit(p)
    /\ UNCHANGED <<fsVars, reported>>

FinishCopy(p) ==
    /\ At(p, "copying")
    /\ CreateDir(procs[p].build)
    /\ Goto(p, "checkout")
    /\ UNCHANGED <<exitCodes, reported>>

CopyAborts(p) ==
    /\ At(p, "copying")
    /\ ~({procs[p].build, procs[p].cache} \subseteq buildDirs)
    /\ Exit(p)
    /\ UNCHANGED <<fsVars, reported>>

(***************************************************************************)
(* Git.Checkout; it cannot succeed in a dir that is gone.                  *)
(***************************************************************************)
Checkout(p) ==
    /\ At(p, "checkout")
    /\ procs[p].build \in buildDirs
    /\ Goto(p, "build")
    /\ UNCHANGED <<fsVars, reported>>

(***************************************************************************)
(* The build command, then the deploy command if there is one to run and   *)
(* the build command succeeded.                                            *)
(***************************************************************************)
RunBuildCmd(p) ==
    /\ At(p, "build")
    /\ \E code \in ExitCodes :
          procs' = [procs EXCEPT
              ![p].code = code,
              ![p].step = IF procs[p].deploy /\ code = "zero"
                          THEN "deploy" ELSE "write"]
    /\ UNCHANGED <<fsVars, reported>>

RunDeployCmd(p) ==
    /\ At(p, "deploy")
    /\ \E code \in ExitCodes :
          procs' = [procs EXCEPT ![p].code = code, ![p].step = "write"]
    /\ UNCHANGED <<fsVars, reported>>

(***************************************************************************)
(* runBuild returns an error once the dir exists (a failing fetch, a       *)
(* sandbox that does not start): the builder exits without an exit code.   *)
(***************************************************************************)
RunBuildErrs(p) ==
    /\ procs[p].step \in {"checkout", "build", "deploy"}
    /\ Exit(p)
    /\ UNCHANGED <<fsVars, reported>>

ReportExitCode(p) ==
    LET b == procs[p].build IN
    /\ At(p, "write")
    /\ WriteExitCode(b, procs[p].code)
    /\ reported' = [reported EXCEPT ![b] = @ \cup {procs[p].code}]
    /\ Exit(p)
    /\ UNCHANGED buildDirs

(***************************************************************************)
(* The builder dies without a word, or in the middle of writing its exit   *)
(* code.                                                                   *)
(***************************************************************************)
BuilderDies(p) ==
    /\ procs[p] # Free
    /\ Fault("builder")
    /\ Exit(p)
    /\ UNCHANGED <<fsVars, reported>>

BuilderDiesWriting(p) ==
    /\ At(p, "write")
    /\ Fault("builder")
    /\ TearExitCode(procs[p].build)
    /\ Exit(p)
    /\ UNCHANGED <<buildDirs, reported>>

BuilderStep(p) ==
    \/ CreateEmptyDir(p)
    \/ MkdirFails(p)
    \/ CopyCache(p)
    \/ CopyCacheFails(p)
    \/ FinishCopy(p)
    \/ CopyAborts(p)
    \/ Checkout(p)
    \/ RunBuildCmd(p)
    \/ RunDeployCmd(p)
    \/ RunBuildErrs(p)
    \/ ReportExitCode(p)

BuilderFails(p) == BuilderDies(p) \/ BuilderDiesWriting(p)
=============================================================================
