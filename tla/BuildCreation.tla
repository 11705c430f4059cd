--------------------------- MODULE BuildCreation ---------------------------
(***************************************************************************)
(* Concurrent webhook requests and the CreateBuild of                      *)
(* internal/store/db_store.go they call.  It increments the build counter  *)
(* of the repository inside a serializable transaction but inserts the     *)
(* build through the pool, on a second connection and outside of that      *)
(* transaction: the row is there before the commit, and whether or not     *)
(* there is one.                                                           *)
(*                                                                         *)
(* Of PostgreSQL the model has what the code leans on: the row lock of     *)
(* UPDATE, the failure of a serializable UPDATE whose row was changed by a *)
(* transaction it waited for, the constraints of builds; of the pool that a*)
(* connection is held from BeginTx to the end of the transaction.          *)
(***************************************************************************)
EXTENDS Webhook, Sequences, FiniteSetsExt

CONSTANTS
    Requests,   \* the webhook requests
    Contents,   \* what each of them may contain
    MaxConns,   \* the size of the connection pool
    MaxFaults   \* bound on cancelled requests and failed commits

ASSUME CreationAssumption ==
    /\ IsFiniteSet(Requests)
    /\ Contents \in [Requests -> SUBSET Request]
    /\ MaxConns \in Nat
    /\ MaxFaults \in Nat

VARIABLES
    request,   \* the content of each request that was accepted
    at,        \* where each request is
    counter,   \* repos.build_counter, as committed
    rows,      \* the builds inserted, in the order of their ids
    number,    \* the buildNumber each call works with
    faults

creationVars == <<request, at, counter, rows, number, faults>>

Places == {"arrives",  \* at the handler
           "begin",    \* BeginTx wants a connection
           "update",   \* the UPDATE of build_counter is sent
           "waiting",  \* ... and waits for the lock of the row
           "insert",   \* the INSERT wants a second connection
           "commit",   \* the row is inserted
           "rollback", \* a statement failed
           "rejected", "created", "failed",
           "unanswered"} \* created, but the answer is a failure

Done == {"rejected", "created", "failed", "unanswered"}

NoRequest == [repo |-> "none"]

RepoOf(q) == request[q].repo

(***************************************************************************)
(* A transaction holds a connection from BeginTx to its end, and the lock  *)
(* of the row of its repository from the UPDATE on.                        *)
(***************************************************************************)
InTransaction == {q \in Requests : at[q] \notin Done \cup {"arrives", "begin"}}

FreeConns == MaxConns - Cardinality(InTransaction)

HoldsLock(q) == number[q] # 0 /\ at[q] \in {"insert", "commit", "rollback"}

Locked(r) == \E q \in Requests : RepoOf(q) = r /\ HoldsLock(q)

Numbers(r) == {rows[i].number : i \in {i \in DOMAIN rows : rows[i].repo = r}}

TypeOK ==
    /\ \A q \in Requests : request[q] \in Contents[q] \cup {NoRequest}
    /\ at \in [Requests -> Places]
    /\ counter \in [Configured -> 0..Cardinality(Requests)]
    /\ rows \in Seq([repo : Configured, by : Requests,
                     number : 1..Cardinality(Requests)])
    /\ number \in [Requests -> 0..Cardinality(Requests)]
    /\ faults \in 0..MaxFaults

CreationInit ==
    /\ request = [q \in Requests |-> NoRequest]
    /\ at = [q \in Requests |-> "arrives"]
    /\ counter = [r \in Configured |-> 0]
    /\ rows = <<>>
    /\ number = [q \in Requests |-> 0]
    /\ faults = 0

Goto(q, place) == at' = [at EXCEPT ![q] = place]

OnlyAt == UNCHANGED <<request, counter, rows, number, faults>>

Handle(q) ==
    /\ at[q] = "arrives"
    /\ \E content \in Contents[q] :
        IF Accepts(content)
        THEN /\ request' = [request EXCEPT ![q] = content]
             /\ Goto(q, "begin")
        ELSE Goto(q, "rejected") /\ UNCHANGED request
    /\ UNCHANGED <<counter, rows, number, faults>>

BeginTx(q) ==
    /\ at[q] = "begin"
    /\ FreeConns > 0
    /\ Goto(q, "update")
    /\ OnlyAt

UpdateCounter(q) ==
    /\ at[q] \in {"update", "waiting"}
    /\ ~Locked(RepoOf(q))
    /\ number' = [number EXCEPT ![q] = counter[RepoOf(q)] + 1]
    /\ Goto(q, "insert")
    /\ UNCHANGED <<request, counter, rows, faults>>

WaitForLock(q) ==
    /\ at[q] = "update"
    /\ Locked(RepoOf(q))
    /\ Goto(q, "waiting")
    /\ OnlyAt

(***************************************************************************)
(* db.pool.QueryRow takes a connection of its own and commits by itself.   *)
(* The row must satisfy UNIQUE (repo_id, number) and fit its columns.      *)
(***************************************************************************)
CanInsert(q) == at[q] = "insert" /\ FreeConns > 0

Fits(q) == Storable(request[q].meta) /\ number[q] \notin Numbers(RepoOf(q))

Insert(q, next) ==
    /\ rows' = Append(rows, [repo |-> RepoOf(q), by |-> q, number |-> number[q]])
    /\ Goto(q, next)
    /\ UNCHANGED <<request, counter, number, faults>>

(***************************************************************************)
(* Mutants: the UNIQUE constraint is missing; without RETURNING the INSERT *)
(* is there but the call fails; the INSERT needs two more connections.     *)
(***************************************************************************)
InsertBuildAgain(q) == CanInsert(q) /\ Insert(q, "commit")

InsertWithoutReturning(q) == CanInsert(q) /\ Fits(q) /\ Insert(q, "rollback")

InsertOnTwoConns(q) ==
    CanInsert(q) /\ FreeConns > 1 /\ Fits(q) /\ Insert(q, "commit")

InsertBuild(q) == CanInsert(q) /\ Fits(q) /\ Insert(q, "commit")

InsertFails(q) ==
    /\ CanInsert(q)
    /\ ~Fits(q)
    /\ Goto(q, "rollback")
    /\ OnlyAt

(***************************************************************************)
(* Who waited for the row that is committed could not serialize its update.*)
(***************************************************************************)
CommitNumber(q, n, answer) ==
    /\ at[q] = "commit"
    /\ counter' = [counter EXCEPT ![RepoOf(q)] = n]
    /\ at' = [other \in Requests |->
                IF other = q THEN answer
                ELSE IF at[other] = "waiting" /\ RepoOf(other) = RepoOf(q)
                     THEN "rollback" ELSE at[other]]
    /\ UNCHANGED <<request, rows, number>>

(***************************************************************************)
(* A mutant: the counter is incremented a second time.                     *)
(***************************************************************************)
CommitCountsTwice(q) ==
    CommitNumber(q, number[q] + 1, "created") /\ UNCHANGED faults

Commit(q) == CommitNumber(q, number[q], "created") /\ UNCHANGED faults

Rollback(q) == at[q] = "rollback" /\ Goto(q, "failed") /\ OnlyAt

(***************************************************************************)
(* The client goes away and cancels the context of the call, or the commit *)
(* fails: the deferred Rollback undoes the UPDATE.                         *)
(***************************************************************************)
CancelCall(q) ==
    /\ at[q] \notin Done \cup {"arrives", "rollback"}
    /\ faults < MaxFaults
    /\ faults' = faults + 1
    /\ Goto(q, "failed")
    /\ UNCHANGED <<request, counter, rows, number>>

(***************************************************************************)
(* The commit takes effect, but its answer does not arrive: Commit returns *)
(* an error all the same.                                                  *)
(***************************************************************************)
CommitUnanswered(q) ==
    /\ faults < MaxFaults
    /\ faults' = faults + 1
    /\ CommitNumber(q, number[q], "unanswered")

CancelOrFail(q) == CancelCall(q) \/ CommitUnanswered(q)

Step(q) ==
    \/ Handle(q)
    \/ BeginTx(q)
    \/ UpdateCounter(q)
    \/ WaitForLock(q)
    \/ InsertBuild(q)
    \/ InsertFails(q)
    \/ Commit(q)
    \/ Rollback(q)

CreationNext == \E q \in Requests : Step(q) \/ CancelOrFail(q)

CreationFairness == \A q \in Requests : WF_creationVars(Step(q))

-----------------------------------------------------------------------------
(***************************************************************************)
(* Build numbers have no holes and no duplicates, and run at most one ahead*)
(* of the counter, whatever happens between the INSERT and the commit.     *)
(***************************************************************************)
NumbersDense ==
    \A r \in Configured :
        /\ Numbers(r) \in {1..counter[r], 1..(counter[r] + 1)}
        /\ Cardinality(Numbers(r)) = Cardinality({i \in DOMAIN rows : rows[i].repo = r})

(***************************************************************************)
(* A request that is answered with success has created exactly one build,  *)
(* counted and of its repository.                                          *)
(***************************************************************************)
CreatedBy(q) == {i \in DOMAIN rows : rows[i].by = q}

SuccessIsTrue ==
    \A q \in Requests :
        at[q] = "created" =>
            \E i \in DOMAIN rows :
                /\ CreatedBy(q) = {i}
                /\ rows[i].repo = request[q].repo
                /\ rows[i].number <= counter[rows[i].repo]

(***************************************************************************)
(* One that fails has created none; that is not so when it was cancelled or*)
(* its commit returned an error.                                           *)
(***************************************************************************)
FailureIsTrue ==
    \A q \in Requests : at[q] \in Done \ {"created"} => CreatedBy(q) = {}

(***************************************************************************)
(* So an answer can be relied on as long as nothing is cut short.          *)
(***************************************************************************)
AnswersAreTrue == SuccessIsTrue /\ (faults = 0 => FailureIsTrue)

(***************************************************************************)
(* What sanitizeBuild lets through the database takes: a request with no   *)
(* other beside it and no fault gets its build, unless its message is cut  *)
(* within a character or a text has a NUL.                                 *)
(***************************************************************************)
LoneRequestsSucceed ==
    \A q \in Requests :
        /\ at[q] = "failed" /\ faults = 0
        /\ \A other \in Requests \ {q} : RepoOf(other) # RepoOf(q)
        => CutsCharacter(request[q].meta) \/ request[q].meta.nul

(***************************************************************************)
(* Once a row is ahead of the counter and nobody is left to commit, every  *)
(* later call computes the number of that row: the repository gets no      *)
(* build any more.                                                         *)
(***************************************************************************)
Wedged(r) ==
    /\ counter[r] + 1 \in Numbers(r)
    /\ \A q \in Requests : RepoOf(q) = r => at[q] # "commit"

WedgedForEver ==
    [][\A r \in Configured : Wedged(r) => Wedged(r)']_creationVars

(***************************************************************************)
(* Every call returns, if the pool has a connection to spare for the       *)
(* INSERT of the one that holds the lock.                                  *)
(***************************************************************************)
CallsReturn == \A q \in Requests : <>(at[q] \in Done)
=============================================================================
