----------------------------- MODULE Migrations -----------------------------
(***************************************************************************)
(* Schema migrations at start-up (outbound/sql/migrations.rs), run by each *)
(* replica on the database they share.                                     *)
(*                                                                         *)
(* Migrator::up reads which migrations are recorded and runs the others,   *)
(* recording each one when its statements are through.  SeaORM runs all of *)
(* it in one transaction on Postgres and statement by statement on MySQL   *)
(* and SQLite, where DDL commits by itself.                                *)
(***************************************************************************)
EXTENDS Sequences, SequencesExt, FiniteSets

CONSTANTS Replicas

VARIABLES
    schema,      \* tables, columns and indexes that exist
    recorded,    \* the migrations in seaql_migrations
    engine,      \* the storage engine of each table, as MySQL has it
    binlog,      \* @@GLOBAL.binlog_format of MySQL
    updated_at,  \* the stamp of the status lists that were there at the start
    todo         \* for each replica, the statements it has still to run

migrationVars == <<schema, recorded, engine, binlog, updated_at, todo>>

Tables == {"credentials", "status_lists", "status_list_history"}

Indexes == {"idx_list_id", "idx_issuer", "idx_sub", "idx_resolution", "idx_exp"}

(* In the order of migrations(); a migration's last step is to record it. *)
Migrator ==
    <<[name |-> "mod",
       up |-> <<"credentials", "status_lists", "idx_list_id", "idx_issuer", "idx_sub">>],
      [name |-> "add_updated_at", up |-> <<"updated_at", "backfill">>],
      [name |-> "m20250101_000003_status_list_history",
       up |-> <<"status_list_history", "idx_resolution">>],
      [name |-> "m20260727_000001_status_list_history_exp_index", up |-> <<"idx_exp">>]>>

Names == {Migrator[i].name : i \in DOMAIN Migrator}

Statements == UNION {ToSet(Migrator[i].up) : i \in DOMAIN Migrator}

(* What a complete schema has. *)
Objects == Statements \ {"backfill"}

Unless(done, migration) ==
    IF migration.name \in done THEN <<>> ELSE Append(migration.up, migration.name)

Pending(done) ==
    Unless(done, Migrator[1]) \o Unless(done, Migrator[2]) \o
    Unless(done, Migrator[3]) \o Unless(done, Migrator[4])

MigrationTypeOK ==
    /\ schema \subseteq Objects
    /\ recorded \subseteq Names
    /\ engine \in [Tables -> {"InnoDB", "MyISAM"}]
    /\ binlog \in {"ROW", "STATEMENT"}
    /\ updated_at \in {"absent", "zero", "migrated", "written"}
    /\ todo \in [Replicas -> Seq(Statements \cup Names)]

(* An install of an earlier version has the first migration, with tables   *)
(* of the engine its server had by default.                                *)
MigrationInit(install) ==
    /\ schema = CASE install.version = "none" -> {}
                  [] install.version = "first" -> ToSet(Migrator[1].up)
                  [] install.version = "current" -> Objects
    /\ recorded = CASE install.version = "none" -> {}
                    [] install.version = "first" -> {"mod"}
                    [] install.version = "current" -> Names
    /\ engine = [t \in Tables |-> install.engine]
    /\ binlog = install.binlog
    /\ updated_at = IF install.version = "current" THEN "migrated" ELSE "absent"
    /\ todo = [r \in Replicas |-> <<>>]

-----------------------------------------------------------------------------
(* MySQL and SQLite: one statement after the other *)

ReadApplied(r) ==
    /\ todo' = [todo EXCEPT ![r] = Pending(recorded)]
    /\ UNCHANGED <<schema, recorded, engine, binlog, updated_at>>

Running(r, statements) == todo[r] # <<>> /\ Head(todo[r]) \in statements

Through(r) == todo' = [todo EXCEPT ![r] = Tail(@)]

CreateTable_plain(r) ==
    /\ Running(r, Tables)
    /\ Head(todo[r]) \notin schema
    /\ schema' = schema \cup {Head(todo[r])}
    /\ engine' = [engine EXCEPT ![Head(todo[r])] = "InnoDB"]
    /\ Through(r)
    /\ UNCHANGED <<recorded, binlog, updated_at>>

(* CREATE TABLE IF NOT EXISTS ... ENGINE=InnoDB: an existing table keeps   *)
(* the engine it has.                                                      *)
CreateTable(r) ==
    /\ Running(r, Tables)
    /\ schema' = schema \cup {Head(todo[r])}
    /\ engine' = [engine EXCEPT ![Head(todo[r])] =
                    IF Head(todo[r]) \in schema THEN @ ELSE "InnoDB"]
    /\ Through(r)
    /\ UNCHANGED <<recorded, binlog, updated_at>>

(* Statements that fail when they are run again.  MySQL has no IF NOT      *)
(* EXISTS for indexes, and SeaORM leaves it out there.                     *)
Once(mysql) == {"updated_at"} \cup (IF mysql THEN Indexes ELSE {})

CreateIndex(r, mysql) ==
    /\ Running(r, Indexes)
    /\ Head(todo[r]) \notin Once(mysql) \cap schema
    /\ schema' = schema \cup {Head(todo[r])}
    /\ Through(r)
    /\ UNCHANGED <<recorded, engine, binlog, updated_at>>

AddUpdatedAt_ifNotExists(r) ==
    /\ Running(r, {"updated_at"})
    /\ schema' = schema \cup {"updated_at"}
    /\ updated_at' = IF "updated_at" \in schema THEN updated_at ELSE "zero"
    /\ Through(r)
    /\ UNCHANGED <<recorded, engine, binlog>>

(* ALTER TABLE ... ADD COLUMN ... DEFAULT 0 *)
AddUpdatedAt(r) ==
    /\ Running(r, {"updated_at"})
    /\ "updated_at" \notin schema
    /\ schema' = schema \cup {"updated_at"}
    /\ updated_at' = "zero"
    /\ Through(r)
    /\ UNCHANGED <<recorded, engine, binlog>>

(* Every row, whatever its stamp. *)
Backfill(r) ==
    /\ Running(r, {"backfill"})
    /\ updated_at' = "migrated"
    /\ Through(r)
    /\ UNCHANGED <<schema, recorded, engine, binlog>>

Record(r) ==
    /\ Running(r, Names)
    /\ Head(todo[r]) \notin recorded
    /\ recorded' = recorded \cup {Head(todo[r])}
    /\ Through(r)
    /\ UNCHANGED <<schema, engine, binlog, updated_at>>

(* Another replica was faster: the object exists, the version is recorded. *)
Overtaken(r, mysql) ==
    \/ Running(r, Once(mysql) \cap schema)
    \/ Running(r, recorded)

MigrationStep(r, mysql) ==
    \/ CreateTable(r) \/ CreateIndex(r, mysql)
    \/ AddUpdatedAt(r) \/ Backfill(r)
    \/ Record(r)

(* A migration that is not recorded and will not be: a statement of it     *)
(* cannot be run again, and no replica is past it.                         *)
Wedged(mysql) ==
    \E i \in DOMAIN Migrator :
        /\ Migrator[i].name \notin recorded
        /\ \E s \in ToSet(Migrator[i].up) \cap Once(mysql) \cap schema :
            \A r \in Replicas :
                Migrator[i].name \in ToSet(todo[r]) => s \in ToSet(todo[r])

(* The process ends, what it has run stays. *)
Abandon(r) ==
    /\ todo' = [todo EXCEPT ![r] = <<>>]
    /\ UNCHANGED <<schema, recorded, engine, binlog, updated_at>>

-----------------------------------------------------------------------------
(* Postgres: one transaction *)

CommitAll(r) ==
    /\ todo[r] = Pending(recorded)
    /\ schema' = Objects
    /\ recorded' = Names
    /\ updated_at' = IF "updated_at" \in schema THEN updated_at ELSE "migrated"
    /\ todo' = [todo EXCEPT ![r] = <<>>]
    /\ UNCHANGED <<engine, binlog>>

(* Somebody else committed since the migrations were read. *)
TransactionFails(r) == todo[r] # Pending(recorded)

-----------------------------------------------------------------------------
(* Afterwards *)

(* Rows are returned for the tables there are. *)
verify_innodb_engines == \A t \in Tables \cap schema : engine[t] = "InnoDB"

(* READ COMMITTED writes need ROW or MIXED. *)
verify_binlog_format == binlog # "STATEMENT"

(* The fixes that the two errors ask the operator for. *)
OperatorFixes ==
    /\ ~verify_innodb_engines \/ ~verify_binlog_format
    /\ engine' = [t \in Tables |-> "InnoDB"]
    /\ binlog' = "ROW"
    /\ UNCHANGED <<schema, recorded, updated_at, todo>>

=============================================================================
