------------------------------ MODULE GitHubApp ------------------------------
(***************************************************************************)
(* The client of internal/github/github.go, which the build loop calls, one*)
(* call at a time.  Times are minutes.  The clock of GitHub may be off by  *)
(* Drift, and a request may be on its way for MaxDelay; how long it waits  *)
(* for an answer nothing limits, the http.Client of main.go has no timeout.*)
(***************************************************************************)
EXTENDS Integers

CONSTANTS
    Drifts,     \* what the clock of GitHub may be ahead
    MaxDelay,
    TokenLife,  \* how long an installation token lives: 60
    MaxClock    \* bound on the time

ASSUME GitHubAssumption ==
    /\ Drifts \subseteq Int
    /\ {MaxDelay, TokenLife, MaxClock} \subseteq Nat

VARIABLES
    clock,
    drift,
    token,  \* installationToken and installationTokenExpiry
    call    \* the request that is on its way, and since when

gitHubVars == <<clock, drift, token, call>>

NoToken == [set |-> FALSE, expiry |-> -1000]

NoCall == [at |-> "none", since |-> 0]

GitHubTypeOK ==
    /\ clock \in 0..MaxClock
    /\ drift \in Drifts
    /\ token.set \in BOOLEAN /\ token.expiry \in Int
    /\ call \in [at : {"none", "refresh", "status", "silent"},
                 since : 0..MaxClock]

GitHubInit ==
    /\ clock = 0
    /\ drift \in Drifts
    /\ token = NoToken
    /\ call = NoCall

(***************************************************************************)
(* issueJWT: issued a minute ago, expires in nine.                         *)
(***************************************************************************)
JWT(t) == [iat |-> t - 1, exp |-> t + 9]

(***************************************************************************)
(* GitHub takes no token from the future, and none for more than 10 min.   *)
(***************************************************************************)
GitHubClock == clock + drift

JWTAccepted(jwt) ==
    /\ jwt.iat <= GitHubClock
    /\ GitHubClock < jwt.exp
    /\ jwt.exp <= GitHubClock + 10

TokenAccepted == token.set /\ GitHubClock < token.expiry

(***************************************************************************)
(* A mutant: a token is asked for once.                                    *)
(***************************************************************************)
NeedsFirstToken == ~token.set

(***************************************************************************)
(* The condition of getInstallationToken: it is true for no token as well, *)
(* whose expiry is the zero time, so every call asks for a new token.      *)
(***************************************************************************)
NeedsRefresh == token.set \/ token.expiry - clock < 2

CreateCommitStatus ==
    /\ call = NoCall
    /\ call' = [at |-> IF NeedsRefresh THEN "refresh" ELSE "status", since |-> clock]
    /\ UNCHANGED <<clock, drift, token>>

(***************************************************************************)
(* The request for a token reaches GitHub and is answered.                 *)
(***************************************************************************)
RefreshAnswered ==
    /\ call.at = "refresh"
    /\ IF JWTAccepted(JWT(call.since))
       THEN /\ token' = [set |-> TRUE, expiry |-> GitHubClock + TokenLife]
            /\ call' = [at |-> "status", since |-> clock]
       ELSE call' = NoCall /\ UNCHANGED token
    /\ UNCHANGED <<clock, drift>>

(***************************************************************************)
(* The call returns: the status is answered, or the network fails.         *)
(***************************************************************************)
CallReturns ==
    /\ call.at \in {"refresh", "status"}
    /\ call' = NoCall
    /\ UNCHANGED <<clock, drift, token>>

NoAnswer ==
    /\ call.at \in {"refresh", "status"}
    /\ call' = [call EXCEPT !.at = "silent"]
    /\ UNCHANGED <<clock, drift, token>>

CancelCall ==
    /\ call # NoCall
    /\ call' = NoCall
    /\ UNCHANGED <<clock, drift, token>>

Minute ==
    /\ clock < MaxClock
    /\ call.at \in {"refresh", "status"} => clock < call.since + MaxDelay
    /\ clock' = clock + 1
    /\ UNCHANGED <<drift, token, call>>

(***************************************************************************)
(* The token is in memory: a new process has none.                         *)
(***************************************************************************)
GitHubRestart ==
    /\ token' = NoToken
    /\ call' = NoCall
    /\ UNCHANGED <<clock, drift>>

-----------------------------------------------------------------------------
(***************************************************************************)
(* GitHub refuses no request for its credentials when its clock is off by a*)
(* minute and a request takes one: the JWT is valid, and a token that is   *)
(* used has not expired.                                                   *)
(***************************************************************************)
CredentialsAccepted ==
    /\ call.at = "refresh" => JWTAccepted(JWT(call.since))
    /\ call.at = "status" => TokenAccepted
=============================================================================
