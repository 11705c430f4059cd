----------------------------- MODULE Migrations -----------------------------
(***************************************************************************)
(* ApplyMigrations of internal/store/migrations.go: every file of the      *)
(* directory, in the order of the names, in a transaction with the row that*)
(* records it.  One connection does it all, and the transaction of a file  *)
(* that is already recorded is left open: the BEGIN of the next file is    *)
(* then a warning of PostgreSQL, and its COMMIT ends the old transaction.  *)
(***************************************************************************)
EXTENDS Naturals, FiniteSetsExt

CONSTANT Files   \* the migrations there will ever be: numbers, for their names

ASSUME FilesAssumption == Files \subseteq Nat /\ IsFiniteSet(Files)

VARIABLES
    dir,       \* the files in migrationsDir
    schema,    \* committed: the files that ran, and those that are recorded
    tx,        \* the same as the connection sees it
    migration  \* the files that are left of the loop, and where it is

migrationVars == <<dir, schema, tx, migration>>

MigrationsInit ==
    /\ dir \in SUBSET Files
    /\ schema = [ran |-> {}, recorded |-> {}]
    /\ tx = schema
    /\ migration = [at |-> "off", left |-> {}]

MigrationPlaces == {"off", "begin", "check", "run", "record", "commit", "failed"}

MigrationsTypeOK ==
    /\ dir \subseteq Files
    /\ {schema, tx} \subseteq [ran : SUBSET Files, recorded : SUBSET Files]
    /\ migration \in [at : MigrationPlaces, left : SUBSET Files]
    /\ migration.at = "off" => tx = schema

File == Min(migration.left)

MigrationGoes(place) == migration' = [migration EXCEPT !.at = place]

NextFile == migration' = [at |-> "begin", left |-> migration.left \ {File}]

(***************************************************************************)
(* ApplyMigrations lists the directory and creates the table of the        *)
(* migrations unless it exists.                                            *)
(***************************************************************************)
StartMigrations ==
    /\ migration' = [at |-> "begin", left |-> dir]
    /\ tx' = schema
    /\ UNCHANGED <<dir, schema>>

BeginMigration ==
    /\ migration.at = "begin" /\ migration.left # {}
    /\ MigrationGoes("check")
    /\ UNCHANGED <<dir, schema, tx>>

(***************************************************************************)
(* A mutant: the first recorded file ends the loop.                        *)
(***************************************************************************)
SkipRest ==
    /\ migration.at = "check"
    /\ File \in tx.recorded
    /\ migration' = [at |-> "begin", left |-> {}]
    /\ UNCHANGED <<dir, schema, tx>>

SkipFile ==
    /\ migration.at = "check"
    /\ File \in tx.recorded
    /\ NextFile
    /\ UNCHANGED <<dir, schema, tx>>

FileIsNew ==
    /\ migration.at = "check"
    /\ File \notin tx.recorded
    /\ MigrationGoes("run")
    /\ UNCHANGED <<dir, schema, tx>>

(***************************************************************************)
(* A migration says CREATE TABLE: it cannot run twice.                     *)
(***************************************************************************)
RunFile ==
    /\ migration.at = "run"
    /\ IF File \in tx.ran
       THEN MigrationGoes("failed") /\ UNCHANGED tx
       ELSE MigrationGoes("record") /\ tx' = [tx EXCEPT !.ran = @ \cup {File}]
    /\ UNCHANGED <<dir, schema>>

(***************************************************************************)
(* A mutant: the row is inserted through the pool.                         *)
(***************************************************************************)
RecordFileApart ==
    /\ migration.at = "record"
    /\ tx' = [tx EXCEPT !.recorded = @ \cup {File}]
    /\ schema' = [schema EXCEPT !.recorded = @ \cup {File}]
    /\ MigrationGoes("commit")
    /\ UNCHANGED dir

RecordFile ==
    /\ migration.at = "record"
    /\ tx' = [tx EXCEPT !.recorded = @ \cup {File}]
    /\ MigrationGoes("commit")
    /\ UNCHANGED <<dir, schema>>

CommitFile ==
    /\ migration.at = "commit"
    /\ schema' = tx
    /\ NextFile
    /\ UNCHANGED <<dir, tx>>

(***************************************************************************)
(* A statement fails, perhaps because the context is cancelled; of a COMMIT*)
(* that fails nobody knows whether it happened.                            *)
(***************************************************************************)
MigrationFails ==
    /\ migration.at \notin {"off", "failed"}
    /\ MigrationGoes("failed")
    /\ \/ UNCHANGED schema
       \/ migration.at = "commit" /\ schema' = tx
    /\ UNCHANGED <<dir, tx>>

(***************************************************************************)
(* The connection, or the server, is gone: what is not committed is undone.*)
(***************************************************************************)
DropTransaction ==
    /\ migration' = [at |-> "off", left |-> {}]
    /\ tx' = schema
    /\ UNCHANGED <<dir, schema>>

(***************************************************************************)
(* ApplyMigrations returns; the deferred Rollbacks end what is still open. *)
(***************************************************************************)
Migrated == migration.at = "begin" /\ migration.left = {}

(***************************************************************************)
(* A mutant: nothing is deferred, the transaction stays as it is.          *)
(***************************************************************************)
EndMigrationsOnly ==
    /\ Migrated \/ migration.at = "failed"
    /\ migration' = [at |-> "off", left |-> {}]
    /\ UNCHANGED <<dir, schema, tx>>

EndMigrations == (Migrated \/ migration.at = "failed") /\ DropTransaction

MigrationStep ==
    \/ BeginMigration
    \/ SkipFile
    \/ FileIsNew
    \/ RunFile
    \/ RecordFile
    \/ CommitFile

(***************************************************************************)
(* A newer release is installed before the server is started again.        *)
(***************************************************************************)
AddFiles ==
    /\ \E files \in SUBSET Files : dir' = dir \cup files
    /\ UNCHANGED <<schema, tx, migration>>

-----------------------------------------------------------------------------
(***************************************************************************)
(* A migration is recorded if and only if it ran, whenever the server may  *)
(* be killed and though one transaction is begun within another: otherwise *)
(* it would be left out, or run again by every later start and fail.       *)
(***************************************************************************)
MigrationsAtomic == schema.ran = schema.recorded
=============================================================================
