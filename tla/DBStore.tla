------------------------------ MODULE DBStore ------------------------------
(***************************************************************************)
(* The PostgreSQL tables of internal/store/db_store.go and the transactions*)
(* on them.  A table is a function from its primary key to its row; the    *)
(* key of builders is the id of the build.  Columns no decision depends on *)
(* (titles, authors, timestamps, the build number) are left out; the ref   *)
(* of a build is reduced to "is it the default branch of its repository".  *)
(* Nothing makes commit_sha unique: a commit pushed to two refs, or asked  *)
(* for twice, has two builds.                                              *)
(* The two transactions of CreateBuild are one step here.                  *)
(***************************************************************************)
EXTENDS Environment, Functions

VARIABLES builds, builders, cacheId

dbVars == <<builds, builders, cacheId>>

BuildRow == [repo : Repos, main : BOOLEAN, commit : Commits, started : BOOLEAN,
             result : Results \cup {NULL}]
BuilderRow == [pid : Pids, cache : CacheIds]

DBTypeOK ==
    /\ DOMAIN builds \subseteq Ids
    /\ builds \in [DOMAIN builds -> BuildRow]
    /\ DOMAIN builders \subseteq Ids
    /\ builders \in [DOMAIN builders -> BuilderRow]
    /\ cacheId \in [Repos -> CacheIds]

DBInit ==
    /\ builds = [b \in {} |-> NULL]
    /\ builders = [b \in {} |-> NULL]
    /\ cacheId = [r \in Repos |-> NoCache]

Put(table, key, row) ==
    [k \in DOMAIN table \cup {key} |-> IF k = key THEN row ELSE table[k]]

(***************************************************************************)
(* Ids come from a sequence.  The gaps that failed INSERTs leave in it make*)
(* no difference to anything modelled here.                                *)
(***************************************************************************)
CreateBuild(repo, main, commit) ==
    \E b \in Ids :
        /\ DOMAIN builds = 1..(b - 1)
        /\ builds' = Put(builds, b, [repo |-> repo, main |-> main, commit |-> commit,
                                     started |-> FALSE, result |-> NULL])
        /\ UNCHANGED <<builders, cacheId>>

(***************************************************************************)
(* A mutant: the row of builders is not inserted.                          *)
(***************************************************************************)
StartBuildForgetsBuilder(b, pid, cache) ==
    /\ builds' = [builds EXCEPT ![b].started = TRUE]
    /\ UNCHANGED <<builders, cacheId>>

StartBuild(b, pid, cache) ==
    /\ b \notin DOMAIN builders    \* PRIMARY KEY (build_id)
    /\ builds' = [builds EXCEPT ![b].started = TRUE]
    /\ builders' = Put(builders, b, [pid |-> pid, cache |-> cache])
    /\ UNCHANGED cacheId

(***************************************************************************)
(* A mutant: the cache id moves to the last build that finished.           *)
(***************************************************************************)
MoveCacheBack(b) ==
    [cacheId EXCEPT ![builds[b].repo] = b]

MoveCache(b) ==
    [r \in Repos |->
        IF r = builds[b].repo /\ cacheId[r] < b THEN b ELSE cacheId[r]]

(***************************************************************************)
(* A mutant: the row of builders is not deleted.                           *)
(***************************************************************************)
FinishBuildKeepsBuilder(b, result, cacheFiles) ==
    /\ builds' = [builds EXCEPT ![b].result = result]
    /\ cacheId' = IF cacheFiles THEN MoveCache(b) ELSE cacheId
    /\ UNCHANGED builders

FinishBuild(b, result, cacheFiles) ==
    /\ builds' = [builds EXCEPT ![b].result = result]
    /\ cacheId' = IF cacheFiles THEN MoveCache(b) ELSE cacheId
    /\ builders' = Restrict(builders, DOMAIN builders \ {b})

(***************************************************************************)
(* A mutant: pending is what has no builder.                               *)
(***************************************************************************)
PendingBuildsUntracked == DOMAIN builds \ DOMAIN builders

PendingBuilds ==
    {b \in DOMAIN builds : ~builds[b].started /\ builds[b].result = NULL}

(***************************************************************************)
(* Mutants: "IS NOT NULL" or one branch of the UNION is missing.           *)
(***************************************************************************)
DirsInUseWithNull ==
    DOMAIN builders \cup {cacheId[r] : r \in Repos}

DirsInUseWithoutBuilds ==
    ({builders[b].cache : b \in DOMAIN builders}
        \cup {cacheId[r] : r \in Repos}) \ {NoCache}

DirsInUseWithoutCaches ==
    DOMAIN builders \cup ({cacheId[r] : r \in Repos} \ {NoCache})

DirsInUseWithoutRepos ==
    DOMAIN builders \cup ({builders[b].cache : b \in DOMAIN builders} \ {NoCache})

BuildDirsInUse ==
    DOMAIN builders
        \cup (({builders[b].cache : b \in DOMAIN builders}
                \cup {cacheId[r] : r \in Repos}) \ {NoCache})
=============================================================================
