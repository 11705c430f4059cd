---------------------------- MODULE ServerProofs ----------------------------
(***************************************************************************)
(* Theorems about the life of the server for every set of migrations and   *)
(* repositories and for every number of failures, kills and restarts.      *)
(***************************************************************************)
EXTENDS Server, WellFoundedInduction, SequenceTheorems, TLAPS

-----------------------------------------------------------------------------
(***************************************************************************)
(* The migrations                                                          *)
(***************************************************************************)

(***************************************************************************)
(* Outside of the record and commit of a file the connection sees what is  *)
(* committed.  What is not left of the loop is recorded.                   *)
(***************************************************************************)
TransactionInv ==
    /\ migration.at \in {"off", "begin", "check", "run"} => tx = schema
    /\ migration.at = "record" => tx.ran = schema.ran \cup {File} /\ tx.recorded = schema.recorded
    /\ migration.at = "commit" =>
          tx.ran = schema.ran \cup {File} /\ tx.recorded = schema.recorded \cup {File}
    /\ migration.at \notin {"off", "failed"} =>
          dir \ migration.left \subseteq schema.recorded
    /\ migration.at \in {"check", "run", "record", "commit"} => migration.left # {}

MigrationsInv == MigrationsTypeOK /\ MigrationsAtomic /\ TransactionInv

(***************************************************************************)
(* ApplyMigrations takes the first of the files that are left.             *)
(***************************************************************************)
LEMMA FirstFileIsLeft ==
    ASSUME NEW left \in SUBSET Nat, left # {}
    PROVE  Min(left) \in left
<1> DEFINE Less == {pair \in Nat \X Nat : pair[1] < pair[2]}
<1>1. Less = OpToRel(<, Nat)
  BY Zenon DEF OpToRel
<1>2. PICK x \in left : \A y \in left : <<y, x>> \notin Less
  <2>1. IsWellFoundedOn(Less, Nat)
    BY <1>1, NatLessThanWellFounded
  <2> HIDE DEF Less
  <2> QED
    BY <2>1, WFMin
<1>3. ASSUME NEW y \in left PROVE x <= y
  <2>1. x \in Nat /\ y \in Nat /\ <<y, x>> \notin Less
    BY <1>2
  <2>2. PICK pair : pair = <<y, x>>
    OBVIOUS
  <2>3. pair \in Nat \X Nat /\ pair[1] = y /\ pair[2] = x /\ pair \notin Less
    BY <2>1, <2>2
  <2>4. ~(y < x)
    BY <2>3
  <2> QED
    BY <2>1, <2>4
<1>4. \E least \in left : \A y \in left : least <= y
  BY <1>3
<1> QED
  BY <1>4, Zenon DEF Min

(***************************************************************************)
(* Before the first start the database is empty.                           *)
(***************************************************************************)
LEMMA MigrationsInvInit == MigrationsInit => MigrationsInv
BY DEF MigrationsInit, MigrationsInv, MigrationsTypeOK, MigrationsAtomic, TransactionInv,
   MigrationPlaces

(***************************************************************************)
(* Every step of the loop, each of its failures, and what goes before and  *)
(* after it keep MigrationsInv.                                            *)
(***************************************************************************)
LEMMA MigrationsInvNext ==
    ASSUME MigrationsInv,
           \/ StartMigrations
           \/ MigrationStep
           \/ MigrationFails
           \/ DropTransaction
           \/ migration.at = "off" /\ AddFiles
           \/ UNCHANGED migrationVars
    PROVE  MigrationsInv'
<1>1. /\ dir \subseteq Files
      /\ schema \in [ran : SUBSET Files, recorded : SUBSET Files]
      /\ tx \in [ran : SUBSET Files, recorded : SUBSET Files]
      /\ migration \in [at : MigrationPlaces, left : SUBSET Files]
  BY DEF MigrationsInv, MigrationsTypeOK
<1>2. migration.left # {} => File \in migration.left /\ File \in Files
  BY <1>1, FilesAssumption, FirstFileIsLeft DEF File
<1>3. migration'.left = migration.left => File' = File
  BY DEF File
<1> USE <1>1 DEF MigrationsInv, MigrationsTypeOK, MigrationsAtomic, TransactionInv,
                 MigrationPlaces
<1>4. CASE StartMigrations
  BY <1>4 DEF StartMigrations
<1>5. CASE BeginMigration \/ FileIsNew
  BY <1>5 DEF BeginMigration, FileIsNew, MigrationGoes
<1>6. CASE SkipFile
  BY <1>6 DEF SkipFile, NextFile
<1>7. CASE RunFile
  <2>1. CASE File \in tx.ran
    BY <1>7, <2>1 DEF RunFile, MigrationGoes
  <2>2. CASE File \notin tx.ran
    <3>1. /\ migration.at = "run" /\ migration' = [migration EXCEPT !.at = "record"]
          /\ tx' = [tx EXCEPT !.ran = @ \cup {File}]
          /\ UNCHANGED <<dir, schema>>
      BY <1>7, <2>2 DEF RunFile, MigrationGoes
    <3>2. migration'.left = migration.left /\ migration'.at = "record" /\ File' = File
      BY <1>3, <3>1
    <3>3. tx'.ran = tx.ran \cup {File} /\ tx'.recorded = tx.recorded
      BY <3>1
    <3>4. MigrationsTypeOK'
      BY <1>2, <3>1
    <3> QED
      BY <3>1, <3>2, <3>3, <3>4
  <2> QED
    BY <2>1, <2>2
<1>8. CASE RecordFile
  <2>1. /\ migration.at = "record" /\ migration' = [migration EXCEPT !.at = "commit"]
        /\ tx' = [tx EXCEPT !.recorded = @ \cup {File}]
        /\ UNCHANGED <<dir, schema>>
    BY <1>8 DEF RecordFile, MigrationGoes
  <2>2. migration'.left = migration.left /\ migration'.at = "commit" /\ File' = File
    BY <1>3, <2>1
  <2>3. tx'.ran = tx.ran /\ tx'.recorded = tx.recorded \cup {File}
    BY <2>1
  <2>4. MigrationsTypeOK'
    BY <1>2, <2>1
  <2> QED
    BY <2>1, <2>2, <2>3, <2>4
<1>9. CASE CommitFile
  BY <1>2, <1>9 DEF CommitFile, NextFile
<1>10. CASE MigrationFails
  BY <1>2, <1>10 DEF MigrationFails, MigrationGoes
<1>11. CASE DropTransaction
  BY <1>11 DEF DropTransaction
<1>12. CASE migration.at = "off" /\ AddFiles
  BY <1>12 DEF AddFiles
<1>13. CASE UNCHANGED migrationVars
  BY <1>3, <1>13 DEF migrationVars
<1> QED
  BY <1>4, <1>5, <1>6, <1>7, <1>8, <1>9, <1>10, <1>11, <1>12, <1>13 DEF MigrationStep

-----------------------------------------------------------------------------
(***************************************************************************)
(* The GitHub client                                                       *)
(***************************************************************************)

(***************************************************************************)
(* A status request has a token that was taken when the request was sent:  *)
(* getInstallationToken asks for a new one at every call.                  *)
(***************************************************************************)
CallInv ==
    /\ ~token.set => token.expiry = -1000
    /\ call.at = "status" =>
          token.set /\ token.expiry = call.since + drift + TokenLife
    /\ call.at \in {"refresh", "status"} =>
          call.since <= clock /\ clock <= call.since + MaxDelay

GitHubInv == GitHubTypeOK /\ CallInv

(***************************************************************************)
(* A new process has no token and no request on its way.                   *)
(***************************************************************************)
LEMMA GitHubInvInit == GitHubInit => GitHubInv
BY GitHubAssumption DEF GitHubInit, GitHubInv, GitHubTypeOK, CallInv, NoToken, NoCall

(***************************************************************************)
(* Calls, answers, time and restarts keep GitHubInv.                       *)
(***************************************************************************)
LEMMA GitHubInvNext ==
    ASSUME GitHubInv,
           \/ CreateCommitStatus
           \/ RefreshAnswered
           \/ CallReturns
           \/ NoAnswer
           \/ CancelCall
           \/ Minute
           \/ GitHubRestart
           \/ UNCHANGED gitHubVars
    PROVE  GitHubInv'
<1>1. clock \in 0..MaxClock /\ drift \in Int /\ MaxDelay \in Nat /\ TokenLife \in Nat /\ MaxClock \in Nat
  BY GitHubAssumption DEF GitHubInv, GitHubTypeOK
<1>2. call \in [at : {"none", "refresh", "status", "silent"}, since : 0..MaxClock]
  BY DEF GitHubInv, GitHubTypeOK
<1> USE <1>1, <1>2 DEF GitHubInv, GitHubTypeOK, CallInv, NoToken, NoCall
<1>3. CASE CreateCommitStatus
  <2>1. NeedsRefresh
    BY DEF NeedsRefresh
  <2> QED
    BY <1>3, <2>1 DEF CreateCommitStatus
<1>4. CASE RefreshAnswered
  <2>1. UNCHANGED <<clock, drift>>
    BY <1>4 DEF RefreshAnswered
  <2>2. CASE JWTAccepted(JWT(call.since))
    <3>1. /\ token' = [set |-> TRUE, expiry |-> GitHubClock + TokenLife]
          /\ call' = [at |-> "status", since |-> clock]
      BY <1>4, <2>2 DEF RefreshAnswered
    <3> QED
      BY <2>1, <3>1 DEF GitHubClock
  <2>3. CASE ~JWTAccepted(JWT(call.since))
    <3>1. call' = NoCall /\ token' = token
      BY <1>4, <2>3 DEF RefreshAnswered
    <3> QED
      BY <2>1, <3>1
  <2> QED
    BY <2>2, <2>3
<1>5. CASE CallReturns \/ NoAnswer \/ CancelCall
  BY <1>5 DEF CallReturns, NoAnswer, CancelCall
<1>6. CASE Minute
  BY <1>6 DEF Minute
<1>7. CASE GitHubRestart
  BY <1>7 DEF GitHubRestart
<1>8. CASE UNCHANGED gitHubVars
  <2>1. /\ clock' = clock /\ drift' = drift
        /\ token' = token /\ call' = call
    BY <1>8 DEF gitHubVars
  <2> QED
    BY <2>1
<1> QED
  BY <1>3, <1>4, <1>5, <1>6, <1>7, <1>8

-----------------------------------------------------------------------------
(***************************************************************************)
(* The process                                                             *)
(***************************************************************************)

(***************************************************************************)
(* The server gets as far as serving only over a migrated database with    *)
(* the configured repositories, and stays there.                           *)
(***************************************************************************)
StartInv ==
    /\ main = "migrate" <=> migration.at # "off"
    /\ main \in {"load", "init", "serve", "shutdown", "drain"} => dir \subseteq schema.ran
    /\ main \in {"serve", "shutdown", "drain"} => ReposCreated

(***************************************************************************)
(* The error of the HTTP server comes first in serverErrChan, and as long  *)
(* as nobody receives it there is no room for the nil.  Who ends without   *)
(* an error has had a signal and let the handlers end, with no new ones.   *)
(***************************************************************************)
NothingServed == signalled /\ handler = "none" /\ server \notin {"starts", "listens"}

EndInv ==
    /\ main \in {"migrate", "load", "init"} => server = "off" /\ errChan = <<>>
    /\ main = "serve" =>
          \/ server \in {"starts", "listens", "failed"} /\ errChan = <<>>
          \/ server = "closed" /\ errChan = <<"error">>
    /\ main = "shutdown" => signalled /\ server \notin {"starts", "listens"}
    /\ main = "drain" => NothingServed
    /\ main \in {"close", "exited"} /\ code = 0 => NothingServed

ServerInv == TypeOK /\ MigrationsInv /\ GitHubInv /\ StartInv /\ EndInv

(***************************************************************************)
(* What a step of the server does to the database is a step of Migrations. *)
(***************************************************************************)
LEMMA DatabaseStep ==
    ASSUME ServerInv, [Next]_vars
    PROVE  \/ StartMigrations
           \/ MigrationStep
           \/ MigrationFails
           \/ DropTransaction
           \/ migration.at = "off" /\ AddFiles
           \/ UNCHANGED migrationVars
<1> USE DEF KeepStores, Only, migrationVars
<1>1. CASE Start \/ Migrate \/ MigrateFails \/ MigrateReturns \/ Kill
  BY <1>1 DEF Start, Migrate, MigrateFails, MigrateReturns, EndMigrations, Kill
<1>2. CASE Upgrade
  BY <1>2 DEF Upgrade, ServerInv, StartInv, Alive
<1>3. CASE \/ Load \/ CreateRepoIfNotExists \/ StartFails \/ Serve
  BY <1>3 DEF Load, CreateRepoIfNotExists, StartFails, Serve
<1>4. CASE \/ Listen \/ ListenFails \/ SendError \/ SendNil
  BY <1>4 DEF Listen, ListenFails, SendError, SendNil, Send
<1>5. CASE Request \/ HandlerQueries \/ HandlerGetsRows \/ HandlerEnds
  BY <1>5 DEF Request, HandlerQueries, HandlerGetsRows, HandlerEnds, HandlerGoes
<1>6. CASE LoopQueries \/ LoopGetsRows \/ LoopEnds \/ LoopCalls
  BY <1>6 DEF LoopQueries, LoopGetsRows, LoopEnds, LoopCalls, LoopGoes
<1>7. CASE LoopCallGoesOn \/ LoopCallCancelled \/ TimePasses
  BY <1>7 DEF LoopCallGoesOn, LoopCallCancelled, TimePasses, LoopGoes
<1>8. CASE Signal \/ Stop \/ ServerTerminated \/ ShutDown \/ ShutDownTimesOut \/ Drain \/ Exit
  BY <1>8 DEF Signal, Stop, ServerTerminated, ShutDown, ShutDownTimesOut, Drain, Exit, ExitOnce
<1>9. CASE UNCHANGED vars
  BY <1>9 DEF vars
<1> QED
  BY <1>1, <1>2, <1>3, <1>4, <1>5, <1>6, <1>7, <1>8, <1>9
     DEF Next, MainStep, ServerStep, QueriesEnd, Others

(***************************************************************************)
(* What a step of the server does to the GitHub client is a step of it.    *)
(***************************************************************************)
LEMMA GitHubStep ==
    ASSUME [Next]_vars
    PROVE  \/ CreateCommitStatus
           \/ RefreshAnswered
           \/ CallReturns
           \/ NoAnswer
           \/ CancelCall
           \/ Minute
           \/ GitHubRestart
           \/ UNCHANGED gitHubVars
<1> USE DEF KeepStores, Only, gitHubVars
<1>1. CASE Start \/ Migrate \/ MigrateFails \/ MigrateReturns \/ Upgrade
  BY <1>1 DEF Start, Migrate, MigrateFails, MigrateReturns, Upgrade
<1>2. CASE Kill \/ Exit
  BY <1>2 DEF Kill, Exit, ExitOnce, ProcessGone
<1>3. CASE \/ Load \/ CreateRepoIfNotExists \/ StartFails \/ Serve
  BY <1>3 DEF Load, CreateRepoIfNotExists, StartFails, Serve
<1>4. CASE \/ Listen \/ ListenFails \/ SendError \/ SendNil
  BY <1>4 DEF Listen, ListenFails, SendError, SendNil, Send
<1>5. CASE Request \/ HandlerQueries \/ HandlerGetsRows \/ HandlerEnds
  BY <1>5 DEF Request, HandlerQueries, HandlerGetsRows, HandlerEnds, HandlerGoes
<1>6. CASE LoopQueries \/ LoopGetsRows \/ LoopEnds \/ LoopCalls
  BY <1>6 DEF LoopQueries, LoopGetsRows, LoopEnds, LoopCalls
<1>7. CASE LoopCallGoesOn \/ LoopCallCancelled \/ TimePasses
  BY <1>7 DEF LoopCallGoesOn, LoopCallCancelled, TimePasses
<1>8. CASE Signal \/ Stop \/ ServerTerminated \/ ShutDown \/ ShutDownTimesOut \/ Drain
  BY <1>8 DEF Signal, Stop, ServerTerminated, ShutDown, ShutDownTimesOut, Drain
<1>9. CASE UNCHANGED vars
  BY <1>9 DEF vars
<1> QED
  BY <1>1, <1>2, <1>3, <1>4, <1>5, <1>6, <1>7, <1>8, <1>9
     DEF Next, MainStep, ServerStep, QueriesEnd, Others

(***************************************************************************)
(* serverErrChan holds at most one of its two values.                      *)
(***************************************************************************)
ChanTyped == \/ errChan = <<>>
             \/ errChan = <<"error">>
             \/ errChan = <<"nil">>

LEMMA ChanIsTyped ==
    ChanTyped <=> errChan \in Seq({"error", "nil"}) /\ Len(errChan) <= ChanCap
<1>1. ASSUME ChanTyped PROVE errChan \in Seq({"error", "nil"}) /\ Len(errChan) <= 1
  <2>1. <<>> \in Seq({"error", "nil"}) /\ Len(<<>>) <= 1
    OBVIOUS
  <2>2. <<"error">> \in Seq({"error", "nil"}) /\ Len(<<"error">>) <= 1
    OBVIOUS
  <2>3. <<"nil">> \in Seq({"error", "nil"}) /\ Len(<<"nil">>) <= 1
    OBVIOUS
  <2> QED
    BY <1>1, <2>1, <2>2, <2>3 DEF ChanTyped
<1>2. ASSUME errChan \in Seq({"error", "nil"}), Len(errChan) <= 1 PROVE ChanTyped
  <2>1. CASE Len(errChan) = 0
    BY <1>2, <2>1 DEF ChanTyped
  <2>2. CASE Len(errChan) = 1
    <3>1. PICK value : value = errChan[1]
      OBVIOUS
    <3>2. value \in {"error", "nil"}
      BY <1>2, <2>2, <3>1
    <3>3. errChan = <<value>>
      <4>1. <<value>> \in Seq({"error", "nil"}) /\ Len(<<value>>) = 1 /\ <<value>>[1] = value
        BY <3>2
      <4>2. \A i \in 1..Len(errChan) : errChan[i] = <<value>>[i]
        BY <2>2, <3>1, <4>1
      <4> QED
        BY <1>2, <2>2, <4>1, <4>2, SeqEqual
    <3> QED
      BY <3>2, <3>3 DEF ChanTyped
  <2>3. Len(errChan) \in Nat
    BY <1>2, LenProperties
  <2>4. Len(errChan) = 0 \/ Len(errChan) = 1
    <3>1. ASSUME NEW n \in Nat, n <= 1 PROVE n = 0 \/ n = 1
      BY <3>1
    <3> QED
      BY <1>2, <2>3, <3>1
  <2> QED
    BY <2>1, <2>2, <2>4
<1> QED
  BY <1>1, <1>2 DEF ChanCap

(***************************************************************************)
(* The types of the variables of Server itself, without those of Migrations*)
(* and of GitHubApp.                                                       *)
(***************************************************************************)
ServerTyped ==
    /\ main \in {"down", "migrate", "load", "init", "serve", "shutdown", "drain",
                 "close", "exited"}
    /\ code \in 0..1
    /\ repos \subseteq Configured
    /\ signalled \in BOOLEAN
    /\ server \in {"off", "starts", "listens", "failed", "closed", "done"}
    /\ ChanTyped
    /\ handler \in {"none", "runs", "queries"}
    /\ loop \in {"off", "idle", "queries", "calls"}
    /\ faults \in 0..MaxFaults

(***************************************************************************)
(* Every action keeps the types of the variables of Server.                *)
(***************************************************************************)
LEMMA ServerTypedNext == ASSUME ServerTyped, [Next]_vars PROVE ServerTyped'
<1> USE DEF ServerTyped, ChanTyped, KeepStores, Only, OnlyMain
<1>1. Fault => faults' \in 0..MaxFaults
  BY ServerAssumption DEF Fault
<1>2. CASE Start
  <2>1. ChanTyped'
    BY <1>2 DEF Start
  <2>2. /\ main' = "migrate" /\ signalled' = FALSE
        /\ server' = "off" /\ handler' = "none" /\ loop' = "off"
        /\ code' \in 0..1 /\ UNCHANGED <<repos, faults>>
    BY <1>2 DEF Start
  <2> HIDE DEF ChanTyped
  <2> QED
    BY <2>1, <2>2
<1>3. CASE Migrate \/ TimePasses \/ Upgrade
  BY <1>3 DEF Migrate, TimePasses, Upgrade, serverVars
<1>4. CASE MigrateFails
  BY <1>1, <1>4 DEF MigrateFails
<1>5. CASE MigrateReturns
  BY <1>5 DEF MigrateReturns, Fails
<1>6. CASE Load \/ CreateRepoIfNotExists \/ Serve
  BY <1>6 DEF Load, CreateRepoIfNotExists, Serve
<1>7. CASE StartFails
  BY <1>1, <1>7 DEF StartFails, Fails
<1>8. CASE Listen
  BY <1>8 DEF Listen
<1>9. CASE ListenFails
  BY <1>1, <1>9 DEF ListenFails
<1>10. CASE SendError \/ SendNil
  <2>1. PICK value \in {"error", "nil"} :
            errChan = <<>> /\ errChan' = Append(errChan, value)
    BY <1>10 DEF SendError, SendNil, Send, ChanCap
  <2>2. errChan' = <<value>>
    BY <2>1
  <2>3. server' \in {"closed", "done"}
    BY <1>10 DEF SendError, SendNil, Send
  <2>4. UNCHANGED <<main, code, repos, signalled, handler, loop, faults>>
    BY <1>10 DEF SendError, SendNil, Send
  <2> QED
    BY <2>2, <2>3, <2>4
<1>11. CASE Request \/ HandlerQueries \/ HandlerGetsRows \/ HandlerEnds
  BY <1>11 DEF Request, HandlerQueries, HandlerGetsRows, HandlerEnds, HandlerGoes
<1>12. CASE \/ LoopQueries \/ LoopGetsRows \/ LoopEnds \/ LoopCalls
            \/ LoopCallGoesOn \/ LoopCallCancelled
  <2>1. UNCHANGED <<main, code, repos, signalled, server, errChan, handler, faults>>
    BY <1>12 DEF LoopQueries, LoopGetsRows, LoopEnds, LoopCalls, LoopCallGoesOn,
                 LoopCallCancelled, LoopGoes
  <2>2. loop' \in {"off", "idle", "queries", "calls"}
    BY <1>12 DEF LoopQueries, LoopGetsRows, LoopEnds, LoopCalls, LoopCallGoesOn,
                 LoopCallCancelled, LoopGoes
  <2> QED
    BY <2>1, <2>2
<1>13. CASE Signal \/ ShutDown
  BY <1>13 DEF Signal, ShutDown
<1>14. CASE Stop
  BY <1>14 DEF Stop
<1>15. CASE ShutDownTimesOut
  BY <1>15 DEF ShutDownTimesOut, Fails
<1>16. CASE ServerTerminated \/ Drain
  <2>1. errChan' = <<>>
    BY <1>16 DEF ServerTerminated, Drain
  <2>2. code' \in 0..1 /\ main' = "close" /\ UNCHANGED <<repos, signalled, server, handler, loop, faults>>
    BY <1>16 DEF ServerTerminated, Drain
  <2> QED
    BY <2>1, <2>2
<1>17. CASE Exit
  BY <1>17 DEF Exit, ExitOnce, ProcessGone
<1>18. CASE Kill
  <2>1. ChanTyped'
    BY <1>18 DEF Kill, ProcessGone
  <2>2. /\ main' = "down" /\ signalled' = FALSE
        /\ server' = "off" /\ handler' = "none" /\ loop' = "off"
        /\ code' \in 0..1 /\ repos' = repos /\ faults' \in 0..MaxFaults
    BY <1>1, <1>18 DEF Kill, ProcessGone
  <2> HIDE DEF ChanTyped
  <2> QED
    BY <2>1, <2>2
<1>19. CASE UNCHANGED vars
  BY <1>19 DEF vars, serverVars
<1> QED
  BY <1>2, <1>3, <1>4, <1>5, <1>6, <1>7, <1>8, <1>9, <1>10, <1>11, <1>12, <1>13,
     <1>14, <1>15, <1>16, <1>17, <1>18, <1>19
     DEF Next, MainStep, ServerStep, QueriesEnd, Others

(***************************************************************************)
(* TypeOK is the types of the three modules.                               *)
(***************************************************************************)
LEMMA TypesOfModules == TypeOK <=> MigrationsTypeOK /\ GitHubTypeOK /\ ServerTyped
BY ChanIsTyped, Zenon DEF TypeOK, ServerTyped

(***************************************************************************)
(* Before the first start nothing runs.                                    *)
(***************************************************************************)
LEMMA ServerInit == Init => ServerInv
<1> SUFFICES ASSUME Init PROVE ServerInv
  OBVIOUS
<1>1. MigrationsInv /\ GitHubInv
  BY MigrationsInvInit, GitHubInvInit DEF Init
<1>2. ServerTyped
  <2>1. ChanTyped
    BY DEF Init, ChanTyped
  <2>2. /\ main = "down" /\ repos = {} /\ signalled = FALSE
        /\ server = "off" /\ handler = "none" /\ loop = "off"
    BY DEF Init
  <2>3. code \in 0..1 /\ faults \in 0..MaxFaults
    BY ServerAssumption DEF Init
  <2> QED
    BY <2>1, <2>2, <2>3 DEF ServerTyped
<1>3. TypeOK
  BY <1>1, <1>2, TypesOfModules DEF MigrationsInv, GitHubInv
<1> QED
  BY <1>1, <1>3 DEF Init, ServerInv, StartInv, EndInv, MigrationsInit

(***************************************************************************)
(* The start goes on only when every file has run and every repository is  *)
(* there, and neither is undone while the process lives.                   *)
(***************************************************************************)
LEMMA StartInvNext == ASSUME ServerInv, [Next]_vars PROVE StartInv'
<1> USE DEF StartInv, ReposCreated, KeepStores, Only, OnlyMain, migrationVars
<1>1. StartInv /\ TransactionInv /\ MigrationsAtomic
  BY DEF ServerInv, MigrationsInv
<1>2. migration \in [at : MigrationPlaces, left : SUBSET Files]
  BY DEF ServerInv, MigrationsInv, MigrationsTypeOK
<1>3. CASE Start
  BY <1>3 DEF Start, StartMigrations
<1>4. CASE Migrate
  <2>1. migration'.at # "off"
    BY <1>2, <1>4 DEF Migrate, MigrationStep, BeginMigration, SkipFile, FileIsNew, RunFile,
                      RecordFile, CommitFile, MigrationGoes, NextFile
  <2>2. main = "migrate" /\ main' = main
    BY <1>4 DEF Migrate, serverVars
  <2> QED
    BY <2>1, <2>2
<1>5. CASE MigrateFails
  BY <1>2, <1>5 DEF MigrateFails, MigrationFails, MigrationGoes
<1>6. CASE MigrateReturns
  <2>1. migration'.at = "off" /\ UNCHANGED <<dir, schema>> /\ main' \in {"load", "close"}
    BY <1>6 DEF MigrateReturns, EndMigrations, DropTransaction, Fails
  <2>2. main' = "load" => Migrated
    BY <1>6 DEF MigrateReturns, Fails
  <2>3. Migrated => dir \subseteq schema.ran
    BY <1>1 DEF Migrated, TransactionInv, MigrationsAtomic
  <2> QED
    BY <2>1, <2>2, <2>3
<1>7. CASE Kill
  BY <1>7 DEF Kill, DropTransaction, ProcessGone
<1>8. CASE Upgrade
  BY <1>1, <1>8 DEF Upgrade, Alive, AddFiles, serverVars
<1>9. CASE Load \/ CreateRepoIfNotExists \/ StartFails \/ Serve
  BY <1>1, <1>9 DEF Load, CreateRepoIfNotExists, StartFails, Fails, Serve
<1>10. CASE \/ Stop \/ ServerTerminated \/ ShutDown \/ ShutDownTimesOut \/ Drain \/ Exit
  BY <1>1, <1>10 DEF Stop, ServerTerminated, ShutDown, ShutDownTimesOut, Fails, Drain, Exit,
                     ExitOnce, ProcessGone
<1>11. CASE \/ Listen \/ ListenFails \/ SendError \/ SendNil
            \/ Request \/ HandlerQueries \/ HandlerGetsRows \/ HandlerEnds
  <2>1. UNCHANGED <<migrationVars, main, repos>>
    BY <1>11 DEF Listen, ListenFails, SendError, SendNil, Send, Request, HandlerQueries,
                 HandlerGetsRows, HandlerEnds, HandlerGoes
  <2> QED
    BY <1>1, <2>1
<1>12. CASE \/ LoopQueries \/ LoopGetsRows \/ LoopEnds \/ LoopCalls
            \/ LoopCallGoesOn \/ LoopCallCancelled
  <2>1. UNCHANGED <<migrationVars, main, repos>>
    BY <1>12 DEF LoopQueries, LoopGetsRows, LoopEnds, LoopCalls, LoopCallGoesOn,
                 LoopCallCancelled, LoopGoes
  <2> QED
    BY <1>1, <2>1
<1>13. CASE TimePasses \/ Signal \/ UNCHANGED vars
  <2>1. UNCHANGED <<migrationVars, main, repos>>
    BY <1>13 DEF TimePasses, Signal, vars, serverVars
  <2> QED
    BY <1>1, <2>1
<1> QED
  BY <1>3, <1>4, <1>5, <1>6, <1>7, <1>8, <1>9, <1>10, <1>11, <1>12, <1>13
     DEF Next, MainStep, ServerStep, QueriesEnd, Others

(***************************************************************************)
(* No step lets the nil of ListenAndServe overtake its error, and none lets*)
(* a request in after Shutdown.                                            *)
(***************************************************************************)
LEMMA EndInvNext == ASSUME ServerInv, [Next]_vars PROVE EndInv'
<1> USE DEF EndInv, NothingServed, KeepStores, Only, OnlyMain
<1>1. EndInv
  BY DEF ServerInv
<1>2. ServerTyped
  BY TypesOfModules DEF ServerInv
<1>3. CASE Start
  BY <1>3 DEF Start
<1>4. CASE Migrate \/ MigrateFails \/ TimePasses \/ Upgrade \/ UNCHANGED vars
  <2>1. UNCHANGED <<main, code, signalled, server, errChan, handler>>
    BY <1>4 DEF Migrate, MigrateFails, TimePasses, Upgrade, vars, serverVars
  <2> QED
    BY <1>1, <2>1
<1>5. CASE MigrateReturns
  BY <1>1, <1>5 DEF MigrateReturns, Fails
<1>6. CASE Load \/ CreateRepoIfNotExists
  BY <1>1, <1>6 DEF Load, CreateRepoIfNotExists
<1>7. CASE StartFails
  BY <1>7 DEF StartFails, Fails
<1>8. CASE Serve
  BY <1>1, <1>8 DEF Serve
<1>9. CASE Listen \/ ListenFails
  BY <1>1, <1>9 DEF Listen, ListenFails, Alive
<1>10. CASE SendError
  <2>1. /\ server = "failed" /\ server' = "closed"
        /\ errChan' = Append(errChan, "error")
        /\ UNCHANGED <<main, code, signalled, handler>>
        /\ main \notin {"migrate", "load", "init"}
    BY <1>1, <1>10 DEF SendError, Send
  <2>2. errChan = <<>> => errChan' = <<"error">>
    BY <2>1
  <2>3. main = "serve" => errChan = <<>>
    BY <1>1, <2>1
  <2> QED
    BY <1>1, <2>1, <2>2, <2>3
<1>11. CASE SendNil
  BY <1>1, <1>11 DEF SendNil, Send, Alive, ChanCap
<1>12. CASE Request
  BY <1>1, <1>12 DEF Request, HandlerGoes, Alive
<1>13. CASE HandlerQueries \/ HandlerGetsRows \/ HandlerEnds
  BY <1>1, <1>13 DEF HandlerQueries, HandlerGetsRows, HandlerEnds, HandlerGoes, Alive
<1>14. CASE \/ LoopQueries \/ LoopGetsRows \/ LoopEnds \/ LoopCalls
            \/ LoopCallGoesOn \/ LoopCallCancelled
  <2>1. UNCHANGED <<main, code, signalled, server, errChan, handler>>
    BY <1>14 DEF LoopQueries, LoopGetsRows, LoopEnds, LoopCalls, LoopCallGoesOn,
                 LoopCallCancelled, LoopGoes
  <2> QED
    BY <1>1, <2>1
<1>15. CASE Signal
  BY <1>1, <1>15 DEF Signal
<1>16. CASE Stop
  BY <1>1, <1>2, <1>16 DEF Stop, ServerTyped
<1>17. CASE ServerTerminated
  <2>1. errChan = <<"error">> /\ main' = "close"
    BY <1>1, <1>17 DEF ServerTerminated
  <2>2. code' = 1
    BY <1>17, <2>1 DEF ServerTerminated
  <2> QED
    BY <2>1, <2>2
<1>18. CASE ShutDown
  BY <1>1, <1>18 DEF ShutDown
<1>19. CASE ShutDownTimesOut
  BY <1>19 DEF ShutDownTimesOut, Fails
<1>20. CASE Drain
  BY <1>1, <1>20 DEF Drain
<1>21. CASE Exit
  BY <1>1, <1>21 DEF Exit, ExitOnce, ProcessGone
<1>22. CASE Kill
  BY <1>22 DEF Kill, ProcessGone
<1> QED
  BY <1>3, <1>4, <1>5, <1>6, <1>7, <1>8, <1>9, <1>10, <1>11, <1>12, <1>13, <1>14, <1>15,
     <1>16, <1>17, <1>18, <1>19, <1>20, <1>21, <1>22
     DEF Next, MainStep, ServerStep, QueriesEnd, Others

(***************************************************************************)
(* ServerInv is inductive.                                                 *)
(***************************************************************************)
LEMMA ServerNext == ServerInv /\ [Next]_vars => ServerInv'
<1> SUFFICES ASSUME ServerInv, [Next]_vars PROVE ServerInv'
  OBVIOUS
<1>1. MigrationsInv'
  BY DatabaseStep, MigrationsInvNext DEF ServerInv
<1>2. GitHubInv'
  BY GitHubStep, GitHubInvNext DEF ServerInv
<1>3. ServerTyped'
  BY TypesOfModules, ServerTypedNext DEF ServerInv
<1>4. TypeOK'
  <2>1. MigrationsTypeOK' /\ GitHubTypeOK'
    BY <1>1, <1>2 DEF MigrationsInv, GitHubInv
  <2>2. TypeOK' <=> MigrationsTypeOK' /\ GitHubTypeOK' /\ ServerTyped'
    BY TypesOfModules, PTL
  <2> QED
    BY <1>3, <2>1, <2>2
<1>5. StartInv' /\ EndInv'
  BY StartInvNext, EndInvNext
<1> QED
  BY <1>1, <1>2, <1>4, <1>5 DEF ServerInv

(***************************************************************************)
(* ServerInv holds in every reachable state.                               *)
(***************************************************************************)
LEMMA ServerInvariance == Spec => []ServerInv
BY ServerInit, ServerNext, PTL DEF Spec

-----------------------------------------------------------------------------
(***************************************************************************)
(* The variables of the server, of the migrations and of the GitHub client *)
(* have their types; serverErrChan never holds more than it has room for.  *)
(***************************************************************************)
THEOREM ServerTypeCorrect == Spec => []TypeOK
<1>1. ServerInv => TypeOK
  BY DEF ServerInv
<1> QED
  BY <1>1, ServerInvariance, PTL

(***************************************************************************)
(* A migration is recorded if and only if it ran, whichever files there are*)
(* and whenever ApplyMigrations fails or the server is killed.             *)
(***************************************************************************)
THEOREM MigrationsStayAtomic == Spec => []MigrationsAtomic
<1>1. ServerInv => MigrationsAtomic
  BY DEF ServerInv, MigrationsInv
<1> QED
  BY <1>1, ServerInvariance, PTL

(***************************************************************************)
(* runServer serves only over the schema and the repositories it needs.    *)
(***************************************************************************)
THEOREM ServedIsMigrated == Spec => []ServesMigrated
<1>1. ServerInv => ServesMigrated
  BY DEF ServerInv, StartInv, ServesMigrated
<1> QED
  BY <1>1, ServerInvariance, PTL

(***************************************************************************)
(* runServer exits with 0 only after a signal and with no request cut off. *)
(***************************************************************************)
THEOREM ExitsAreClean == Spec => []CleanExit
<1>1. ServerInv => CleanExit
  BY DEF ServerInv, EndInv, NothingServed, CleanExit
<1> QED
  BY <1>1, ServerInvariance, PTL

(***************************************************************************)
(* What issueJWT allows for: GitHub's clock is at most a minute behind, and*)
(* at most nine minutes, less the delay, ahead; a token outlives a request.*)
(***************************************************************************)
ClocksClose ==
    /\ \A d \in Drifts : -1 <= d /\ d + MaxDelay < 9
    /\ MaxDelay < TokenLife

(***************************************************************************)
(* Under ClocksClose GitHub refuses the credentials of no request: neither *)
(* the JWT of issueJWT nor the token of getInstallationToken.              *)
(***************************************************************************)
THEOREM CredentialsTaken ==
    ASSUME ClocksClose
    PROVE  Spec => []CredentialsAccepted
<1>1. ASSUME ServerInv PROVE CredentialsAccepted
  <2>1. /\ clock \in Int /\ drift \in Drifts /\ drift \in Int
        /\ call.since \in Int
    BY <1>1, GitHubAssumption DEF ServerInv, GitHubInv, GitHubTypeOK
  <2>2. MaxDelay \in Nat /\ TokenLife \in Nat
    BY GitHubAssumption
  <2>3. -1 <= drift /\ drift + MaxDelay < 9 /\ MaxDelay < TokenLife
    BY <2>1, ClocksClose DEF ClocksClose
  <2>4. CallInv
    BY <1>1 DEF ServerInv, GitHubInv
  <2>5. ASSUME call.at = "refresh" PROVE JWTAccepted(JWT(call.since))
    BY <2>1, <2>2, <2>3, <2>4, <2>5 DEF CallInv, JWTAccepted, JWT, GitHubClock
  <2>6. ASSUME call.at = "status" PROVE TokenAccepted
    BY <2>1, <2>2, <2>3, <2>4, <2>6 DEF CallInv, TokenAccepted, GitHubClock
  <2> QED
    BY <2>5, <2>6 DEF CredentialsAccepted
<1> QED
  BY <1>1, ServerInvariance, PTL
=============================================================================
