# A formal model of ci-server

ci-server is a small continuous integration server in Go. GitHub tells it of a
push, it creates a *build* in PostgreSQL, a *build loop* starts a *builder*
process for it, and the result goes back to the database and to GitHub. The
directory of a finished build of the default branch becomes the *cache* the next
builds of the repository start from. Builders are meant to survive an upgrade of
the server, so that the server, the builders, the database and the data directory
are four things that fail and go on independently of each other. That is what
these TLA+ modules are about.

## 1. The system

| component | source | state | operations | what makes it correct |
|---|---|---|---|---|
| database store | `internal/store/db_store.go`, `migrations/` | tables `repos` (counter, cache), `builds`, `builders` | CreateBuild, StartBuild, FinishBuild; ListBuilders, GetPendingBuilds, ListBuildDirsInUse | the tables agree; numbers are dense; the cache only moves forward; a failed call leaves nothing behind |
| file store | `internal/store/fs_store.go` | build dirs, exit code files, log files | create (copying a cache), retain, write and read-and-delete an exit code | no dir in use is deleted, unused ones are |
| builder | `internal/build/builder.go` | a process; its dir; its exit code | dir, checkout, build command, deploy command, exit code | its verdict is recorded, and no verdict is made up |
| builder controller | `internal/build/controller.go` | pids | Start, IsRunning | one builder per build; a reused pid is not mistaken for the builder |
| build loop | `internal/build/processor.go` | what the last queries returned | finish, start, clean up, every 500 ms | builds end; GitHub is told the result |
| command runner | `internal/build/runner.go` | five goroutines, two channels, a WaitGroup | runAndLog | every line logged, in order; it returns |
| server life cycle | `cmd/server/main.go`, `internal/web/web.go` | the process, its context and configuration | start, signal, shutdown | nothing is lost over a restart |
| webhooks | `internal/web/webhook/`, `migrations/001` | none | GitHub and manual request, validation of the metadata | one build per accepted request, none without one; an answer that can be relied on |
| GitHub client | `internal/github/github.go` | installation token and its expiry | CreateCommitStatus, with a JWT and a token if need be | its credentials are valid when GitHub looks at them; what GitHub shows of a commit is true |
| log polling | `internal/store/logs.go`, `internal/web/ui/build_details.go` | the line a page has reached | GetBuild, GetLogs | a page shows every line once and in order, and all of them when it stops |
| migrations | `internal/store/migrations.go` | table `migrations`, one connection | ApplyMigrations | each applied once, all or nothing |
| build list | `internal/web/ui/build_list.go` | page number | ListBuilds, CountBuilds | following the links shows every build, also while some are created |
| configuration, authentication, request logging, events, assets | `internal/config`, `internal/web/auth`, `internal/ctxlog`, `internal/web/ui/sse_writer.go`, `ui/static`, `scripts` | none that changes | | |

How they interact:

    webhook --CreateBuild--> [ PostgreSQL ] <--StartBuild, FinishBuild, lists-- build loop --status--> GitHub
                                                                                   |  ^
                                                         Start (fork), IsRunning   |  | exit code, pid
                                                                                   v  |
                        [ data directory ] <--dirs, exit code, logs-------------- builder

The build loop and the builders share no transaction and no lock. A builder knows
nothing of the database; the server knows of it a pid, a build id in its
environment, and a file. What is hard:

- **Order.** The builder is started *before* that is recorded, the exit code is
  deleted *before* the result is recorded, the list of dirs in use is read
  *before* dirs are deleted, a status is sent *after* the transaction.
- **Crashes and restarts.** The server may end between any two of these steps
  (`KillMode=process`, `Restart=always`), and then works with what is on disk and
  in the tables.
- **Partial failure.** Every call may fail; some failures skip the rest of an
  iteration (`continue`), some are only logged.
- **Concurrency.** Webhook handlers run beside the loop and beside each other.
  Builders copy the cache dir for a long time. runAndLog has five goroutines.
- **Two reads that should be one.** A page of the build list is two queries, a
  page of a build a query and a file somebody else writes.
- **Shared keys.** GitHub keeps one status per commit and context, and the code
  has one context: the builds of a commit write to the same place.
- **Liveness.** A command, a pipe, a lock and GitHub are waited for without a
  timeout; the only timeout is the second the end of the server grants handlers.

`PROJECT.json` lists each of these hazards at its line with the properties that
look for it.

## 2. The modules

    Environment --> DBStore ----------\
         \--------> FSStore -> Builder --> Processor --> CIServer --> CIServerProofs
                                                            |  \--> MCCIServer
                                        BuildLifecycle <----/ (refinement)
    Webhook --> BuildCreation --> BuildList --> MCBuildList
    LogFile --> RunAndLog --> BuildDetails --> MCBuildDetails
    Migrations --\
    GitHubApp ----> Server --> MCServer

    CIServerProofs --> OutcomeProofs --> BuildDirProofs
          \----------> LifecycleProofs
    BuildList --> BuildListProofs
    RunAndLog --> RunAndLogProofs --> BuildDetailsProofs
    Server --> ServerProofs

| module | models |
|---|---|
| `Environment` | ids, results, and a counter of faults by kind; each kind of fault is an action of the component it hits |
| `DBStore` | the tables as functions from key to row; one operator per transaction or query |
| `FSStore` | the set of build dirs and the contents of the exit code files, as `ParseUint` sees them |
| `Builder` | the process under each pid, one action per step of `runBuild`; `StartProcess` and `IsRunning` of the controller |
| `Processor` | the goroutine of the build loop: `pc`, its local lists, one action per call it makes and per outcome of the call; the commit statuses GitHub shows |
| `CIServer` | all of it together with webhooks and the end and start of the server; the properties |
| `BuildLifecycle` | what an observer of the database is promised (abstract specification) |
| `Webhook` | which requests the handlers and `sanitizeBuild` accept, and what the columns of `builds` can hold |
| `BuildCreation` | requests beside each other, and `CreateBuild` in detail: connections, the row lock, the serializable transaction and the INSERT outside of it |
| `BuildList` | somebody who looks through the pages of the build list while `BuildCreation` adds to it |
| `LogFile` | the log of a build: appended to line by line, read up to its end |
| `RunAndLog` | `runAndLog` in detail: the goroutines of the code and of `os/exec`, pipes, channels, the WaitGroup |
| `BuildDetails` | the page of a build that polls, beside the builder of `RunAndLog` and the build loop |
| `Migrations` | `ApplyMigrations`, statement by statement |
| `GitHubApp` | the JWT, the installation token and its refresh, against a GitHub with a clock of its own |
| `Server` | the process: its start, `RunServer`, signals, its end; `Migrations` is part of the start, `GitHubApp` of the loop |
| `CIServerProofs` | theorems: types, the verdict, the tables |
| `OutcomeProofs` | theorems: commit statuses, one builder per build, verdicts are kept |
| `BuildDirProofs` | theorems: the dirs of builders and caches |
| `LifecycleProofs` | theorem: `CIServer` implements `BuildLifecycle` |
| `BuildListProofs` | theorems: `BuildCreation` and `BuildList` |
| `RunAndLogProofs`, `BuildDetailsProofs` | lemmas about `runAndLog`, theorems about it and about the page of a build |
| `ServerProofs` | theorems: migrations, credentials, the life of the process |
| `MC...` | instances |

`PROJECT.json` maps each definition to the lines it translates.

Definitions whose comment begins with "A mutant" are not part of the model: each
is the definition after it with a plausible mistake, and serves to show that a
property would notice that mistake.

### How state corresponds to the code

- `builds[b]` is a row of `builds` reduced to the repository, the commit, "is the
  ref the default branch", "is `started` set", and `result`. Times, authors and
  messages decide nothing. `builders[b]` is the row of `builders` with that `build_id`.
- `exitCodes[b]` is the file `exit-code/<b>`: absent, zero, nonzero, or not
  parsable by `ParseUint`. The last includes the `-1` of a command killed by a
  signal, and an empty file.
- `procs[p]` is the process with pid `p`: how far it got, and of its parameters
  those anything depends on. The build id stands for `CI_BUILDER_BUILD_ID`.
- `finishList`, `startList`, `inUse`, `doomed` are the local variables of
  `process` and `RetainBuildDirs`; `cur` is the row of the current iteration.
- `statuses[<<repo, commit>>]` is what GitHub shows under the context "CI" of a
  commit: a state, and the build its link leads to. `commit_sha` is not unique: a
  push to two refs, a repeated or a manual request make several builds of one
  commit.
- `config` is the set of configured repositories. It can change at a restart.
- `reported` and `happened` are auxiliary: which exit codes builders wrote, and
  which kinds of fault there were. No guard reads them.

In the other modules:

- A request of `Webhook` is a record of the facts the handlers test; of a text it
  has the length in bytes. The limits (255, 40, 100, 1000) are those of the code.
- `rows` of `BuildCreation` is the table `builds` in the order of the ids; `at[q]`
  is the statement of `CreateBuild` the call `q` is at, and tells whether it holds
  a connection and the lock. `counter` has committed values only.
- `view` of `BuildList` is the page in the browser together with the handler that
  makes it. `view.missed` is auxiliary: the builds there were when the viewer
  opened page 0 that no page has shown since. Page numbers are words, so that
  `page * PageSize` wraps as a `uint` does.
- `stream[s]` of `RunAndLog` is a pipe with the goroutine that copies it and the
  one that scans it; `logChan` and `errChan` are the channels; `file` and
  `partial` of `LogFile` are the lines in the log and the one being written.
- `page.fromLine` of `BuildDetails` is the number the page sends with its next
  request; `answer` is the handler between `GetBuild` and `GetLogs`.
- `tx` of `Migrations` is what the one connection sees, `schema` what is
  committed. They differ while a transaction is open, which need not be the one
  of the file at hand: that of a file that was skipped is still open.
- `token` and `call` of `GitHubApp` are the fields of the client and the request
  that is on its way. Times are minutes, as the constants of the code are.
- `main` of `Server` is how far `runServer` is, `server` the goroutine of
  `ListenAndServe`, `errChan` its channel. `loop` and `handler` are the users of
  the database pool, which `pool.Close` waits for.

### Grain

One action is one call that somebody else can observe: a transaction, a system
call, a request, a send or a receive. A transaction is one step because PostgreSQL
makes it one; its failure is a step of its own, with both outcomes a failed commit
can have. Of `CreateBuild` that is not true, its INSERT being outside of its
transaction, and of `ApplyMigrations` it is not either, where one transaction may
be begun in another. For the build loop the two steps of `CreateBuild` make no
difference (a build exists from the INSERT on), so `DBStore` has one step and
`BuildCreation` the details. `cp -a` of a cache is two steps, since it is slow and
races with the deletion of dirs.

A server that is told to end cancels the context of its calls and exits about a
second later; the loop may go on meanwhile, with every call failing. In
`CIServer` these are database or GitHub faults followed by a restart; `Server`
has the signal, the cancelled context and the second.

Simplifications that a reader of the code would ask about:

- The id of a build is drawn when it is inserted, and the INSERT commits by
  itself. `BuildCreation` makes both one step, so the order of the ids is the
  order in which builds become visible. In PostgreSQL two INSERTs at the same
  moment can become visible in the other order.
- A webhook's answers are told apart by what they change: rejected, created,
  failed, and failed although the commit took effect (`unanswered`). That a push of a deleted branch is answered by a panic or an error is
  not.
- A request to GitHub whose answer is lost is, for the loop, one that arrived and
  is logged as failed: it is the step in which it arrives.
- `removeAll` tries again with write permission before it gives up. `RemoveDir` has
  the two attempts as one step: a dir that was removed in part is not in use, and
  the next `RetainBuildDirs` comes to it again.
- `BuildDetails` has one builder per log. After a restart between the start of a
  builder and its record (finding 3) two builders append to one log, and what is
  said of the log does not hold for them.
- `RunAndLog` has one command. The deploy command of a build appends to the same
  log after it, by the same function.
- `InitRepositories` inserts repositories that may be there already; `Server`
  leaves out the INSERTs that do nothing.
- `GitHubApp` says of a request without an answer that it stays so until its
  context is cancelled; `http.Client` has no timeout.

## 3. What is checked

All runs are exhaustive for their constants. "Any one fault" ranges over: the
server ends, a database call fails, a builder cannot be started, a builder is
killed or cannot write, the server cannot delete a file, a GitHub request fails.

| run | instance | distinct states | shows |
|---|---|---|---|
| `one_fault` | 2 builds, 2 repositories, 1 commit of each, 2 pids, any one fault, GitHub | 1 784 999 | all safety properties, and `ImplementsLifecycle` |
| `two_faults` | 2 builds, 1 repository, 2 pids, any two restarts or database errors | 3 319 140 | no verdict is made up by a fault during recovery, with several builders of one build |
| `three_builds` | 3 builds of 1 repository, 2 pids, no faults | 376 991 | the cache moves forward when builds end out of order, and no dir is deleted under a copy |
| `liveness` | 2 builds, 2 pids, any one fault but a database error, a restart may find an empty configuration; requests to GitHub and commands may hang | 497 909 | builds end, unused dirs go, results reach GitHub |
| `creation` | 3 requests, of which two push to one repository and one is any of 29; 2 cut short; a viewer of the list | 452 156 | numbers, truthful answers, validation against the columns, the pages of the list, termination |
| `run_and_log` | 4 lines on 2 streams, 2 lines may be too long, the file may fail, the builder may be killed; a page that polls | 354 520 | order, completeness, no send on a closed channel, what the page shows, termination |
| `server` | 3 migrations, 2 repositories, 2 failures or kills, clocks off by a minute | 353 008 | migrations, what handlers can rely on, credentials, the exit code, termination |
| `verdict_lost`, `failed_cache`, `live_dir_deleted`, `creation_fails`, `run_and_log_hangs` | the smallest instance that shows it | | findings, section 5 |

The properties of `CIServer`:

- `RunningIffTracked` - `builders` holds exactly the builds that were started and
  have no result.
- `NoFalseVerdict` - a build recorded as success (failure) had a builder that
  wrote zero (nonzero).
- `VerdictKept` - a verdict that was written is the one recorded, *unless* there
  was a restart, a database error or a file that could not be deleted.
- `TrackedBuilderDirsKept` - neither the dir nor, while it is copied, the cache
  of the builder named in the database is deleted.
- `LiveBuildersAreTracked` - every live builder is the one the database names or
  is about to, *unless* there was a restart or a database error.
- `CacheDirPresentUnlessDeath` - the cache of a repository exists, *unless* a
  builder was killed.
- `StatusesAreTrue` - the status of a commit is that of a build of this commit,
  and a final one is the result the database has for that build.
- `NoLatePending` - no pending status is sent for a build that has its result.
- `EndedCommitsShowResults` - a commit whose started builds have all ended shows
  a final status, or the request with it is under way, *unless* there was a
  restart, a database error or a failed request.
- `ImplementsLifecycle` - under the mapping from tables to `status`, `repoOf`
  and `cache`, every behaviour is one of `BuildLifecycle`: a build is created
  once, runs once, ends once with a result that stays, and the cache only moves
  to younger builds, in the step in which the build ends.
- `BuildsFinish` - every build of a repository that stays configured ends, *if* its
  commands do, GitHub answers and there are pids; the commands of other builds
  may hang.
- `UnusedDirsGo` - what is on disk is in the end in use, *if* GitHub answers.
- `ResultsReachGitHub` - GitHub is told the result of every build that ends,
  *unless* there was a restart, a database error or a failed request.

What GitHub shows of a commit with several builds is the status sent last. "Build
started" of a second build thus hides the result of the first, and the result of a
build that ends late hides that of a younger one. No document of the repository
says otherwise, so this is no finding; the three properties of statuses are what
remains true.

The properties of `BuildList`, which `BuildCreation` and `Webhook` are part of:

- `NumbersDense` - the numbers of a repository's builds have no holes or
  duplicates and run at most one ahead of its counter.
- `AnswersAreTrue` - success means exactly one build, counted; failure means
  none, *unless* a request was cancelled or a commit failed.
- `WedgedForEver` - once a row is ahead of the counter and no call is left that
  would commit, the repository never gets a build again (see finding 4).
- `LoneRequestsSucceed` - what `sanitizeBuild` lets through fits the columns,
  *unless* a message is cut at byte 1000 within a character, or a text has a NUL.
- `WalkSeesAll`, `NextHasBuilds` - who follows the links of the list from page 0
  sees every build there was at the start, and no empty page. It depends on the
  order of the two queries.
- `LinksLeadOn` - the link to the next page leads to where this one ends, for any
  page number typed into the address. It depends on OFFSET being a `bigint`, for
  which pgx refuses the upper half of the words: otherwise the page before the
  wrap would link to the newest builds.
- `CallsReturn` - every call returns.

The properties of `BuildDetails`, which `RunAndLog` and `LogFile` are part of:

- `LoggedInOrder`, `LogComplete` - each stream is logged in order; a command that
  was waited for without any error has all its lines in the log.
- `NoSendOnClosed` - no goroutine sends on `logChan` after it is closed.
- `ErrorsHaveRoom` - `errChan`, which is read at the very end only, takes every
  error at once.
- `ShowsLogInOrder`, `StopsComplete` - a page shows a prefix of the log, each
  line once, and the whole log when it stops polling. It depends on the row of
  the build being read before its log.
- `PageStops` - a page stops polling, *unless* the log writer fails (finding 5)
  or the log ends in part of a line, which `GetLogs` answers with an error for
  ever.

The properties of `Server`, which `Migrations` and `GitHubApp` are part of:

- `MigrationsAtomic` - a migration is recorded if and only if it ran, wherever
  the server is killed, though transactions are left open.
- `ServesMigrated` - handlers and loop only see the schema and repositories of
  their release and configuration.
- `CredentialsAccepted` - GitHub refuses no request for its credentials, if its
  clock is off by a minute and a request takes one. The refresh condition is
  true for every call, so the token is never old; with a condition that keeps a
  token for its life the property is refuted.
- `CleanExit` - exit code 0 means a signal and no request that was cut off. It does
  not mean an HTTP server without an error: one that comes after the signal is
  received from the channel and dropped (`web.go:86`), and the exit code is 0.
- `ServerEnds` - after a signal or the failure of the listener the process ends,
  though GitHub may never answer and a handler never end.

The exceptions in these properties are exact in this sense: without them TLC
refutes the property, and the interesting ones are findings.

### Bounds

- Two builds are the least with which a build has a cache, a pid is reused, a
  status of one build is sent between steps of another, and a second builder runs
  beside the builder of another build. Three are the least with which the cache
  moves while one builder copies the old one and another ends out of order.
- One commit per repository makes the builds of a repository share a status, and
  two repositories make builds that do not.
- One fault hits every point of the loop. Two faults hit the recovery from the
  first.
- Two pids are the least with which one build can go on while the command of
  another hangs. Pids are interchangeable, and the safety runs use that
  (`SYMMETRY`).
- `liveness` leaves out database errors for the time it takes. What they leave
  behind in the tables and on disk (a builder that is not recorded, a result that
  is lost, one that is recorded and not sent) a restart at the same place leaves
  behind too; and the lists of the loop, which only a restart clears, are read
  again at the next poll. It also leaves out the deploy command, which ends or
  hangs as the build command does.
- In `creation`, two calls for one repository give one that holds the lock and one
  that waits or comes after; with two faults, one may be cut short between its
  INSERT and its commit and the next one meets its row. The third request ranges
  over both routes, each check that can fail, and the values around each limit.
  `MaxConns = 4` leaves one connection to spare. With no more connections than
  open transactions, every call can hold one and wait for a second, and
  `CallsReturn` fails; that is a limit of the code (db_store.go:102).
- The list has at most three builds and `PageSize = 2`, so that there are a full
  page, one that is not, and a build that moves from one to the other between
  two queries. A word of 16 values has its sign bit at page 4 and wraps at page
  8; the code's is the same arithmetic with 2^64 and 8. The pages that are typed
  are the first, the last that is not an error, the last before the wrap, and the
  first after it.
- In `run_and_log`, `logChan` holds one line (100 in the code) and a pipe one, so
  that every goroutine gets to wait for every other. Three lines on one stream and
  one on the other have a line before and after one that is too long. `errChan`
  has its real capacity.
- In `server`, three migrations are the least with a file that is skipped, one
  that is new after it and a third that starts inside or after its transaction; a
  start may find any of them. Tokens live for 3 minutes (60 in the code): the
  refresh is due 2 minutes before the end in both. `MaxClock = 4` is longer than
  a token lives. Drifts are a minute either way, which is what `iat - 1` and
  `exp + 9` of the JWT allow for.

### Fairness

The build loop, the builders and the start of the server (systemd's
`Restart=always`) are weakly fair: a goroutine or process that can go on does. This
assumes that PostgreSQL and the file system answer. It does *not* hold for two
things the code waits for without a timeout, and they may take for ever:

- a request to GitHub (`AwaitsGitHub`): the client of `main.go:147` has no timeout,
  and the build loop itself calls it. That it answers (`GitHubAnswers`) is a premise
  of the liveness properties, for without it they are false: the loop stops, and
  with it all builds;
- git and the commands of a repository (`RunsCommand`). That those of a build end
  (`CommandsEnd(b)`) is a premise of the end of this build only.

A third premise of `BuildsFinish` is that again and again there is a pid to start a
builder with (`PidsLeft`), which the bound on pids makes necessary. Webhooks and
faults are not fair. A pending build of a repository that left the configuration
stays pending, by design of the loop.

In `BuildCreation` each call is fair, as handlers are goroutines; viewers of the
list are not. In `RunAndLog` each goroutine and the command are. A pipe or a lock
is an enabling condition, not a promise. In `BuildDetails` the build loop and the
browser's timer are weakly fair; an answer is strongly fair, that is, if answers
could be given again and again, not all of them are lost.

In `Server` the main goroutine, the one of `ListenAndServe` and the queries under
way are weakly fair. Handlers, GitHub, the operator and systemd are not, which is
what `ServerEnds` is about: the process must end without them.

## 4. What is proved

TLAPS proves every type invariant, safety invariant, action property and
refinement that a run of section 3 checks, for every value of the constants: any
number of builds, repositories, pids, requests, lines, streams, migrations and
faults, and any capacity. `PROJECT.json` lists the theorems.

| module | theorems | inductive invariant |
|---|---|---|
| `CIServerProofs` | `TypeCorrect`, `VerdictSound`, `TablesAgree` | `Typed`, `VerdictInv`, `TrackInv` |
| `OutcomeProofs` | `StatusTrue`, `EndedCommitsShown`, `PendingInTime`, `OneBuilderPerBuild`, `VerdictsKept` | `StatusInv`, `LiveInv`, `KeptInv` |
| `BuildDirProofs` | `DirsKept`, `CacheKept` | `DirInv`, `CacheInv` |
| `LifecycleProofs` | `LifecycleImplemented` | `TrackInv` |
| `BuildListProofs` | `CreationTyped`, `NumbersStayDense`, `AnswersStayTrue`, `LoneRequestsAreBuilt`, `WedgedStays`, `WalksSeeAll`, `LinksHaveBuilds`, `LinksGoOn` | `CreationInv`, `RowsInv`, `ListingInv`, `ViewInv` |
| `BuildDetailsProofs` | `DetailsTypeCorrect`, `LogStaysInOrder`, `LogEndsComplete`, `ClosedAfterReaders`, `ErrorsAreTaken`, `PageIsPrefix`, `PageEndsComplete` | `RunInv`, `ErrorsCounted`, `PageInv` |
| `ServerProofs` | `ServerTypeCorrect`, `MigrationsStayAtomic`, `ServedIsMigrated`, `CredentialsTaken`, `ExitsAreClean` | `ServerInv` |

Each proof is initiation, one step per action, and a temporal step. Typing comes
first and is part of the other invariants. Hardly any of the properties is
inductive; the arguments are these.

**The build loop** (`CIServerProofs`, `OutcomeProofs`, `BuildDirProofs`).

- *Types.* `RecordResult` and `RecordStart` write `cur` into the tables, so `Typed`
  adds that `cur` is a full row where it is used (`CurTyped`), and that a builder
  has an exit code when it is about to write it (`CodesTyped`).
- *Verdict.* A verdict travels from `reported` through the file and `cur` to the
  table. `VerdictInv` says at each of the three places that it is backed by a
  report.
- *Tables.* The loop acts on lists it read earlier. `TrackInv` says they are not
  stale where it matters: rows of `finishList` are still in `builders`
  (`FinishListTracked`), rows of `startList` still pending (`StartListPending`),
  and `cur` is in neither. That holds because the loop is the only writer of both
  columns, each list is worked off once, and webhooks only add.
- *Statuses.* `CurAgrees` ties the row in hand to the table between the
  transaction and the request to GitHub. A build keeps its commit, and its result
  once it has one (`RowsKept`), so that what was true of a status when it was sent
  stays true. For `EndedCommitsShowResults` the last of a commit's builds to get
  its result is the one to look at: no request comes between its transaction and
  its own request.
- *One builder.* `LiveInv` adds that the list names the pids of the table and that
  the builder of a build that is about to be finished is gone: pids are reused,
  but `IsRunning` looks at the build id as well.
- *Verdicts are kept.* `Kept` follows a verdict forward where `VerdictInv` follows
  it backward. While a build has no result its report is in its file, and only
  one builder ever reports; both hold under the same conditions as the property.
- *Dirs.* What is in use is read before what there is, and dirs come into being
  in between. `DoomedUnused` says that what was read as unused is unused still:
  rows refer to a new dir only through the loop, which is busy deleting. A
  builder between its start and its record is in no row (`NewBuilderDirsKept`).
- *Caches.* `CachesPresent` says of each cache id in the tables or in hand that
  its dir is there, and of each build in `builders` that its dir is there or its
  builder is about to make it (`DirComes`). `startList` is worked off before dirs
  are deleted, so that no cache id is read before and recorded after.
- *Lifecycle.* Initial states map to initial states, each action to `Create`,
  `Start` or `Finish` of the abstract specification or to a stutter
  (`MappedStutter`); that `Finish` finds a running build is `TrackInv`.

**The creation of builds** (`BuildListProofs`). `CounterCounts` says that the
counter is the number of calls that committed, `LockKept` that one call at a time
works with a number of a repository, which is the counter's successor. From the
two follow the numbers (`NumbersInRow`) and that a row and the call that made it
name each other (`RowsHaveMakers`, `MakersHaveRows`). `FailuresExplained` adds why
a call fails without a fault: text PostgreSQL does not take, or another request
for the repository.

**The list** (`BuildListProofs`). Builds only move to later pages. So what the walk
has missed is on pages it has not yet come to (`MissedIsAhead`), which needs that
no page number on the way has wrapped. `NoWrap` adds that a page PostgreSQL has
answered lies in the lower half of the offsets; what follows of the next one is a
little arithmetic of remainders (`ModAdd`, `ModMult`, `NextOffset`).

**The log** (`RunAndLogProofs`). `Sent` is what is on its way: the file, the line in
the writer's hand, and the channel. As long as the writer works, `Sent` is in
order and holds of each stream exactly the lines its copier has handed over, but
for the one its reader has in hand (`FlowInv`). With the order of waiting
(`WaitInv`: command and copiers, then readers, then the writer) nothing is left on
the way when `runAndLog` returns. `ErrorsCounted` counts the errors by who has
ended.

**The page** (`BuildDetailsProofs`). `fromLine` is the length of what is shown, what
is shown is a prefix of the file, and a row with a result means that the file
does not grow any more: the last is why the row must be read first.

**The server** (`ServerProofs`). `TransactionInv` says that what the connection sees
and what is committed differ by the file at hand, between `RunFile` and the
commit, and by nothing elsewhere, open transactions or not. `StartInv` follows the
order of the start; `EndInv` says in which order errors and signals reach
`runServer`. `CallInv` says that a token was asked for when the request was sent.

### Assumptions of the proofs

Those of the modules, which TLC evaluates in the runs, and the hypotheses of two
theorems, which the instances and the code both satisfy:

- `ListAssumption`: a word is even and holds two pages (the code: 2^64 and 8). For
  a page size near that of a word page 1 would wrap, and `WalkSeesAll` fail.
- `CreationAssumption`, `RunAssumption`, `FilesAssumption`, `GitHubAssumption`,
  `ServerAssumption`, `BoundsAssumption`, `FaultKindsAssumption`,
  `ProcessorAssumption`: types and finiteness of the constants.
- `CredentialsTaken` is under `ClocksClose`: GitHub's clock is at most one minute
  behind and, with the delay of a request, less than nine ahead; a token outlives
  a request. In the run drifts are a minute either way, the delay is one, and a
  token lives for 3.
- `ErrorsAreTaken` is under `Cardinality(Streams) < ErrCap`: two and three in the
  code and in the run.

### What is only model-checked

Liveness: `BuildsFinish`, `UnusedDirsGo`, `ResultsReachGitHub`, `CallsReturn`,
`PageStops`, `ServerEnds`. They rest on fairness, and so on `ENABLED`, which the
provers at hand do not reason about. The properties of the runs that find a
violation (section 5) are false of the code and have no proof.

## 5. Findings

1. **A restart can lose a verdict** (`verdict_lost`, `processor.go:102`). The
   exit code is deleted before the result is committed.
2. **A failed build becomes the cache** (`failed_cache`, `processor.go:121`),
   though `fs_store.go:31` says "after a successful build".
3. **A live build can lose its dir** (`live_dir_deleted`, `processor.go:208`). A
   builder started but not recorded is started again; the second one fails at
   `mkdir`, the build ends with an error, and the dir of the first is deleted.
4. **A build exists although its creation failed** (`creation_fails`,
   `db_store.go:102`), and afterwards the repository gets no build any more:
   `WedgedForEver` holds in `creation`.
5. **A full disk hangs a build** (`run_and_log_hangs`, `runner.go:96`). Nobody
   drains the channel after the writer has failed.

## 6. What is not modelled, and why

- Zombies: a builder that ended keeps its pid until the server reaps it (it never
  does) or exits. The model frees the pid at once, and so reuses pids sooner than
  the system. `IsRunning` of a zombie is false in the code (its environment is
  empty) and in the model.
- Cryptography and parsing (signatures, JSON, passwords, the JWT's encoding,
  secrets, the configuration file): sequential and without state. What they
  decide is a fact about a request in `Webhook`, or a step of the start that
  succeeds or fails in `Server`.
- Rendering: templates, the formatting of times and durations, style sheets. What
  a page decides (the links, polling on or not) is modelled.
- Request logging puts a logger in the context of a request; server-sent events
  (`sse_writer.go`) are not called; `CountRepos` and `DropAllData` are called by tests
  only; the embedded database is for development; the log of the builder process
  itself is read by nothing in the repository.
- Two servers at a time on one database: the code has no protection against it,
  and its service definition does not allow it.
- PostgreSQL itself: transactions are atomic and durable; `BuildCreation` has the
  lock and serialization behaviour that code leans on.

## 7. Plan

Done, in this order: the system around the build loop (the core), its abstract
specification, the creation of builds, the command runner, and the three theorems;
then the webhooks in front of the creation of builds and the list behind it, the
log and the page that polls it, migrations, the GitHub client, and the life of the
server process.

Then the theorems: the outcome of builds, the dirs, the lifecycle, the creation
and the list of builds, the log and its page, the server. No safety property of a
passing run is left without one.

Left:

- Liveness stays with TLC, on the instances of section 3.
- The deploy command of a build in `RunAndLog`, that is, two commands one after
  the other with one log; then the theorems about the log for both.
- What a restart may lose, exactly: a version of `VerdictKept` that names the
  steps a restart must fall between, rather than excluding restarts.
