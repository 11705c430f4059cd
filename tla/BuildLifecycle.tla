--------------------------- MODULE BuildLifecycle ---------------------------
(***************************************************************************)
(* What the server promises of a build, whatever happens to its processes: *)
(* a build is created once, runs at most once as far as anybody can see,   *)
(* ends with one result that never changes, and while it ends it may become*)
(* the cache of its repository, which only ever moves to younger builds.   *)
(***************************************************************************)
EXTENDS Naturals

CONSTANTS Ids, Repos, Results

VARIABLES
    status,   \* of each id
    repoOf,   \* the repository of each id that was created
    cache     \* the build whose dir is the cache of a repository, or 0

vars == <<status, repoOf, cache>>

NoRepo == "norepo"

Init ==
    /\ status = [b \in Ids |-> "none"]
    /\ repoOf = [b \in Ids |-> NoRepo]
    /\ cache = [r \in Repos |-> 0]

Create(b, r) ==
    /\ \A other \in Ids : status[other] # "none" => other < b
    /\ status' = [status EXCEPT ![b] = "pending"]
    /\ repoOf' = [repoOf EXCEPT ![b] = r]
    /\ UNCHANGED cache

Start(b) ==
    /\ status[b] = "pending"
    /\ status' = [status EXCEPT ![b] = "running"]
    /\ UNCHANGED <<repoOf, cache>>

BecomesCache(b) ==
    /\ cache[repoOf[b]] < b
    /\ cache' = [cache EXCEPT ![repoOf[b]] = b]

Finish(b, result) ==
    /\ status[b] = "running"
    /\ status' = [status EXCEPT ![b] = result]
    /\ BecomesCache(b) \/ UNCHANGED cache
    /\ UNCHANGED repoOf

Next ==
    \E b \in Ids :
        \/ \E r \in Repos : Create(b, r)
        \/ Start(b)
        \/ \E result \in Results : Finish(b, result)

Spec == Init /\ [][Next]_vars
=============================================================================
