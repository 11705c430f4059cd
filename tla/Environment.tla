---------------------------- MODULE Environment ----------------------------
(***************************************************************************)
(* What the CI server and its builders share without being modelled by any *)
(* one of them: the identifiers, and the faults of the machine, the        *)
(* database and the network.  A fault is an action of the component it     *)
(* hits; this module only counts them, so that a run can choose which kinds*)
(* may happen (FaultKinds) and how many of them (MaxFaults).               *)
(***************************************************************************)
EXTENDS Naturals

CONSTANTS
    MaxBuilds,   \* bound on the ids of the builds a behaviour creates
    Repos,       \* the repositories of the table repos
    Commits,     \* the commits webhooks ask to build
    Pids,        \* the process ids builders run under
    FaultKinds,  \* the kinds of fault that may happen
    MaxFaults    \* bound on the number of faults of a behaviour

AllFaultKinds ==
    {"restart",  \* the server process stops (crash, upgrade) at any point
     "db",       \* a statement or a commit returns an error
     "start",    \* a builder process cannot be started
     "builder",  \* a builder process is killed, or cannot write its files
     "fs",       \* the server cannot delete a file or a directory
     "github"}   \* a request to the GitHub API fails

ASSUME BoundsAssumption == MaxBuilds \in Nat /\ MaxFaults \in Nat
ASSUME FaultKindsAssumption == FaultKinds \subseteq AllFaultKinds

Ids == 1..MaxBuilds

(***************************************************************************)
(* NULL stands for an absent value: a result, a pid.  Ids start at 1, so an*)
(* absent cache id is 0.                                                   *)
(***************************************************************************)
NULL == "null"
NoCache == 0
CacheIds == Ids \cup {NoCache}

Results == {"success", "failure", "error"}
ExitCodes == {"zero", "nonzero", "signalled"}

VARIABLES
    faults,    \* how many faults there were
    happened   \* auxiliary: of which kinds, for properties that depend on it

faultVars == <<faults, happened>>

FaultsTypeOK == faults \in 0..MaxFaults /\ happened \subseteq FaultKinds

FaultsInit == faults = 0 /\ happened = {}

Fault(kind) ==
    /\ kind \in FaultKinds
    /\ faults < MaxFaults
    /\ faults' = faults + 1
    /\ happened' = happened \cup {kind}
=============================================================================
