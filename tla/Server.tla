------------------------------- MODULE Server -------------------------------
(***************************************************************************)
(* The life of the server process: runServer of cmd/server/main.go and     *)
(* RunServer of internal/web/web.go.  It migrates the database, creates the*)
(* repositories, starts the build loop and the HTTP server, and runs until *)
(* there is a signal or the HTTP server fails; then, or when any step of   *)
(* the start fails, the deferred calls run, of which pool.Close waits for  *)
(* every connection, and the process exits.                                *)
(*                                                                         *)
(* Of the build loop (Processor) there is left whether it uses a connection*)
(* or calls GitHub, of the handlers whether one runs and uses a connection.*)
(***************************************************************************)
EXTENDS Migrations, GitHubApp, Sequences

CONSTANTS
    Configured,  \* the repositories in the configuration
    MaxFaults    \* bound on the failures, the kills and the restarts

ASSUME ServerAssumption == IsFiniteSet(Configured) /\ MaxFaults \in Nat

VARIABLES
    main,      \* where runServer is
    code,      \* the exit code it is going to have
    repos,     \* the rows of the table repos
    signalled, \* a signal has come; the context is cancelled
    server,    \* the goroutine of ListenAndServe
    errChan,   \* serverErrChan
    handler,   \* a request that is handled
    loop,      \* the build loop
    faults

serverVars == <<main, code, repos, signalled, server, errChan, handler, loop, faults>>

vars == <<migrationVars, gitHubVars, serverVars>>

ChanCap == 1

TypeOK ==
    /\ MigrationsTypeOK
    /\ GitHubTypeOK
    /\ main \in {"down", "migrate", "load", "init", "serve", "shutdown", "drain",
                 "close", "exited"}
    /\ code \in 0..1
    /\ repos \subseteq Configured
    /\ signalled \in BOOLEAN
    /\ server \in {"off", "starts", "listens", "failed", "closed", "done"}
    /\ errChan \in Seq({"error", "nil"}) /\ Len(errChan) <= ChanCap
    /\ handler \in {"none", "runs", "queries"}
    /\ loop \in {"off", "idle", "queries", "calls"}
    /\ faults \in 0..MaxFaults

Init ==
    /\ MigrationsInit
    /\ GitHubInit
    /\ main = "down"
    /\ code = 0
    /\ repos = {}
    /\ signalled = FALSE
    /\ server = "off"
    /\ errChan = <<>>
    /\ handler = "none"
    /\ loop = "off"
    /\ faults = 0

KeepStores == UNCHANGED <<migrationVars, gitHubVars>>

Fault == faults < MaxFaults /\ faults' = faults + 1

-----------------------------------------------------------------------------
(***************************************************************************)
(* The start                                                               *)
(***************************************************************************)
Start ==
    /\ main \in {"down", "exited"}
    /\ main' = "migrate"
    /\ code' = 0
    /\ signalled' = FALSE
    /\ server' = "off"
    /\ errChan' = <<>>
    /\ handler' = "none"
    /\ loop' = "off"
    /\ StartMigrations
    /\ UNCHANGED <<gitHubVars, repos, faults>>

Migrate ==
    /\ main = "migrate"
    /\ MigrationStep
    /\ UNCHANGED <<gitHubVars, serverVars>>

MigrateFails ==
    /\ main = "migrate"
    /\ MigrationFails
    /\ IF signalled THEN UNCHANGED faults ELSE Fault
    /\ UNCHANGED <<gitHubVars, main, code, repos, signalled, server, errChan,
                   handler, loop>>

Fails(place) == main = place /\ main' = "close" /\ code' = 1

OnlyMain == UNCHANGED <<repos, signalled, server, errChan, handler, loop>>

MigrateReturns ==
    /\ main = "migrate"
    /\ EndMigrations
    /\ IF Migrated THEN main' = "load" /\ UNCHANGED code
                   ELSE Fails("migrate")
    /\ OnlyMain
    /\ UNCHANGED <<gitHubVars, faults>>

(***************************************************************************)
(* config.Load, FromHtpasswd and the templates                             *)
(***************************************************************************)
Load ==
    /\ main = "load"
    /\ main' = "init"
    /\ OnlyMain /\ KeepStores
    /\ UNCHANGED <<code, faults>>

(***************************************************************************)
(* InitRepositories: an INSERT each, ON CONFLICT DO NOTHING.  The model    *)
(* leaves out the INSERTs that do nothing.                                 *)
(***************************************************************************)
ReposCreated == Configured \subseteq repos

CreateRepoIfNotExists ==
    /\ main = "init"
    /\ \E repo \in Configured \ repos : repos' = repos \cup {repo}
    /\ UNCHANGED <<main, code, signalled, server, errChan, handler, loop, faults>>
    /\ KeepStores

(***************************************************************************)
(* A file that cannot be read, or a statement or mkdir that fails          *)
(***************************************************************************)
StartFails ==
    /\ \E place \in {"load", "init"} : Fails(place)
    /\ IF signalled THEN UNCHANGED faults ELSE Fault
    /\ OnlyMain /\ KeepStores

(***************************************************************************)
(* CreateRootDirs, the key of the GitHub app, go processor.Run, RunServer  *)
(***************************************************************************)
Serve ==
    /\ main = "init"
    /\ ReposCreated
    /\ main' = "serve"
    /\ loop' = "idle"
    /\ server' = "starts"
    /\ UNCHANGED <<code, repos, signalled, errChan, handler, faults>>
    /\ KeepStores

-----------------------------------------------------------------------------
(***************************************************************************)
(* The goroutine of ListenAndServe.  An error it sends before the nil.     *)
(***************************************************************************)
Alive == main \notin {"down", "exited"}

Only(variables) == UNCHANGED variables /\ KeepStores

Listen ==
    /\ Alive /\ server = "starts"
    /\ server' = "listens"
    /\ Only(<<main, code, repos, signalled, errChan, handler, loop, faults>>)

ListenFails ==
    /\ Alive /\ server \in {"starts", "listens"}
    /\ server' = "failed"
    /\ Fault
    /\ Only(<<main, code, repos, signalled, errChan, handler, loop>>)

Send(value, from, to) ==
    /\ Alive /\ server = from
    /\ Len(errChan) < ChanCap
    /\ errChan' = Append(errChan, value)
    /\ server' = to
    /\ Only(<<main, code, repos, signalled, handler, loop, faults>>)

(***************************************************************************)
(* A mutant: nil is sent first.                                            *)
(***************************************************************************)
SendErrorLast == Send("nil", "failed", "closed")

SendError == Send("error", "failed", "closed")

SendNil == Send("nil", "closed", "done")

-----------------------------------------------------------------------------
(***************************************************************************)
(* Handlers, and the build loop                                            *)
(***************************************************************************)
HandlerGoes(from, to) ==
    /\ Alive /\ handler = from
    /\ handler' = to
    /\ Only(<<main, code, repos, signalled, server, errChan, loop, faults>>)

Request == server = "listens" /\ HandlerGoes("none", "runs")

HandlerQueries == main # "close" /\ HandlerGoes("runs", "queries")

HandlerGetsRows == HandlerGoes("queries", "runs")

HandlerEnds == HandlerGoes("runs", "none")

LoopGoes(from, to) ==
    /\ Alive /\ loop = from
    /\ loop' = to
    /\ UNCHANGED <<migrationVars, main, code, repos, signalled, server, errChan,
                   handler, faults>>

LoopQueries ==
    /\ main # "close" /\ ~signalled
    /\ LoopGoes("idle", "queries")
    /\ UNCHANGED gitHubVars

LoopGetsRows == LoopGoes("queries", "idle") /\ UNCHANGED gitHubVars

LoopEnds == signalled /\ LoopGoes("idle", "off") /\ UNCHANGED gitHubVars

(***************************************************************************)
(* No connection is held during the calls of GitHub; they have the context.*)
(***************************************************************************)
LoopCalls == ~signalled /\ LoopGoes("idle", "calls") /\ CreateCommitStatus

LoopCallGoesOn ==
    /\ RefreshAnswered \/ CallReturns \/ NoAnswer
    /\ LoopGoes("calls", IF call' = NoCall THEN "idle" ELSE "calls")

LoopCallCancelled == signalled /\ LoopGoes("calls", "idle") /\ CancelCall

TimePasses == main = "serve" /\ Minute /\ UNCHANGED <<migrationVars, serverVars>>

-----------------------------------------------------------------------------
(***************************************************************************)
(* The end                                                                 *)
(***************************************************************************)
Signal ==
    /\ Alive /\ ~signalled
    /\ signalled' = TRUE
    /\ Only(<<main, code, repos, server, errChan, handler, loop, faults>>)

(***************************************************************************)
(* The select of RunServer.  Shutdown closes the listener; ListenAndServe  *)
(* returns ErrServerClosed, even when it has only started.                 *)
(***************************************************************************)
Stop ==
    /\ main = "serve" /\ signalled
    /\ main' = "shutdown"
    /\ server' = IF server \in {"starts", "listens"} THEN "closed" ELSE server
    /\ Only(<<code, repos, signalled, errChan, handler, loop, faults>>)

ServerTerminated ==
    /\ main = "serve" /\ errChan # <<>>
    /\ main' = "close"
    /\ code' = IF Head(errChan) = "error" THEN 1 ELSE 0
    /\ errChan' = Tail(errChan)
    /\ Only(<<repos, signalled, server, handler, loop, faults>>)

ShutDown ==
    /\ main = "shutdown" /\ handler = "none"
    /\ main' = "drain"
    /\ OnlyMain /\ Only(<<code, faults>>)

(***************************************************************************)
(* A handler has not ended within the second of shutdownCtx.               *)
(***************************************************************************)
ShutDownTimesOut ==
    /\ handler # "none" /\ Fails("shutdown")
    /\ OnlyMain /\ Only(<<faults>>)

Drain ==
    /\ main = "drain" /\ errChan # <<>>
    /\ main' = "close"
    /\ errChan' = Tail(errChan)
    /\ Only(<<code, repos, signalled, server, handler, loop, faults>>)

ProcessGone(place) ==
    /\ main' = place
    /\ server' = "off"
    /\ loop' = "off"
    /\ errChan' = <<>>
    /\ GitHubRestart
    /\ UNCHANGED repos

ExitOnce(loopMay) ==
    /\ main = "close"
    /\ handler # "queries" /\ loop \in loopMay
    /\ ProcessGone("exited")
    /\ UNCHANGED <<migrationVars, code, signalled, handler, faults>>

(***************************************************************************)
(* A mutant: it waits for the build loop to have nothing to do.            *)
(***************************************************************************)
ExitAfterLoop == ExitOnce({"off", "idle"})

(***************************************************************************)
(* pool.Close waits for the connections; then os.Exit ends all goroutines. *)
(***************************************************************************)
Exit == ExitOnce({"off", "idle", "calls"})

Kill ==
    /\ Alive
    /\ Fault
    /\ ProcessGone("down")
    /\ DropTransaction
    /\ code' = 0 /\ signalled' = FALSE /\ handler' = "none"

Upgrade == ~Alive /\ AddFiles /\ UNCHANGED <<gitHubVars, serverVars>>

MainStep ==
    \/ Migrate
    \/ MigrateReturns
    \/ Load
    \/ CreateRepoIfNotExists
    \/ Serve
    \/ Stop
    \/ ServerTerminated
    \/ ShutDown
    \/ ShutDownTimesOut
    \/ Drain
    \/ Exit

ServerStep == Listen \/ SendError \/ SendNil

QueriesEnd == HandlerGetsRows \/ LoopGetsRows

Others ==
    \/ Start
    \/ MigrateFails
    \/ StartFails
    \/ ListenFails
    \/ Request
    \/ HandlerQueries
    \/ HandlerEnds
    \/ LoopQueries
    \/ LoopEnds
    \/ LoopCalls
    \/ LoopCallGoesOn
    \/ LoopCallCancelled
    \/ TimePasses
    \/ Signal
    \/ Kill
    \/ Upgrade

Next == MainStep \/ ServerStep \/ QueriesEnd \/ Others

(***************************************************************************)
(* Go runs what can run and the database answers.  GitHub need not, nor    *)
(* need a handler ever end, nor anybody start the server again.            *)
(***************************************************************************)
Fairness ==
    /\ WF_vars(MainStep)
    /\ WF_vars(ServerStep)
    /\ WF_vars(HandlerGetsRows)
    /\ WF_vars(LoopGetsRows)

Spec == Init /\ [][Next]_vars /\ Fairness

-----------------------------------------------------------------------------
(***************************************************************************)
(* Handlers and the build loop only ever see the schema and the repos of   *)
(* the release and the configuration they belong to, whatever the attempts *)
(* to start the server before this one have left behind.                   *)
(***************************************************************************)
ServesMigrated ==
    main \in {"serve", "shutdown", "drain"} =>
        dir \subseteq schema.ran /\ ReposCreated

(***************************************************************************)
(* Exit code 0 means that there was a signal and that no request was cut   *)
(* off.  It does not mean that the HTTP server ended without an error: one *)
(* that comes once main has taken the signal is received and dropped after *)
(* Shutdown (Drain), and the exit code is 0 all the same.                  *)
(***************************************************************************)
CleanExit == main = "exited" /\ code = 0 => signalled /\ handler = "none"

(***************************************************************************)
(* After a signal, or when the HTTP server has failed, the process ends, be*)
(* it still in its start, in a request that does not end, or in a call that*)
(* GitHub never answers.                                                   *)
(***************************************************************************)
ServerEnds == signalled \/ server = "failed" ~> ~Alive
=============================================================================
