--------------------------- MODULE SchemaMigration ---------------------------
(***************************************************************************)
(* Creation and migration of the SQLite database: initialize_schema and    *)
(* apply_schema_migrations, as repository.initialize and migrate_schema    *)
(* run them at the start of almost every command.                          *)
(*                                                                         *)
(* Python's sqlite3 opens a transaction at the first INSERT: what comes    *)
(* before it (reading user_version, the CREATE statements of a new         *)
(* database, the first PRAGMA user_version) is committed statement by      *)
(* statement; the rest is one transaction, which only one process can have *)
(* open.  Programs of different age may share the database.                *)
(***************************************************************************)
EXTENDS Naturals, FiniteSets

CONSTANTS Procs,        \* processes that open the database
          Supports,     \* per process: the SCHEMA_VERSION of its program
          Adds,         \* versions whose migration adds columns (7 and 10)
          Statements,   \* number of SCHEMA_STATEMENTS
          Initial,      \* user_version of the databases to start from
          Together,     \* may others start while a new database is created?
          MaxFailures   \* bound: crashes and lock timeouts

Versions == 1..12
Nobody   == 0

ASSUME SchemaAssumption ==
    /\ Nobody \notin Procs /\ Supports \in [Procs -> Versions] /\ Adds \subseteq Versions
    /\ Statements \in Nat \ {0} /\ Initial \subseteq Versions \cup {0}
    /\ Together \in BOOLEAN /\ MaxFailures \in Nat

VARIABLES
    db,        \* what is committed
    copy,      \* per process: the database as its transaction sees it
    lock,      \* the process with an open transaction
    pc,        \* per process: where it is
    done,      \* per process: SCHEMA_STATEMENTS executed so far
    failures

vars == <<db, copy, lock, pc, done, failures>>

(* user_version, the tables of SCHEMA_STATEMENTS, the migrations whose      *)
(* tables and columns exist, and the rows of schema_migrations.             *)
Database(v) == [version |-> v, tables |-> IF v = 0 THEN 0 ELSE Statements,
                applied |-> 2..v, rows |-> {}]

(* Version 0 is a new database, or one whose creation did not get further;  *)
(* one of version 1 may be older than schema_migrations.                    *)
Init ==
    /\ \E v \in Initial :
          \/ db = [Database(v) EXCEPT !.rows = 1..v]
          \/ v = 1 /\ db = Database(1)
          \/ v = 0 /\ \E n \in 0..Statements : db = [Database(0) EXCEPT !.tables = n]
    /\ copy = [p \in Procs |-> Database(0)]
    /\ lock = Nobody
    /\ pc = [p \in Procs |-> "idle"] /\ done = [p \in Procs |-> 0]
    /\ failures = 0

-----------------------------------------------------------------------------
Goto(p, where) == pc' = [pc EXCEPT ![p] = where]

(* The command is over, and a transaction it has open is rolled back. *)
Leave(p) ==
    /\ Goto(p, "idle")
    /\ done' = [done EXCEPT ![p] = 0]
    /\ copy' = [copy EXCEPT ![p] = Database(0)]
    /\ lock' = IF lock = p THEN Nobody ELSE lock

MayWrite(p) == lock \in {Nobody, p}

Creating(p) == pc[p] \in {"create", "stamp"}

(* user_version is read before any lock is taken. *)
Read(p) ==
    /\ pc[p] = "idle"
    /\ Together \/ \A q \in Procs : ~Creating(q)
    /\ db.version <= Supports[p]
    /\ Goto(p, IF db.version = 0 THEN "create" ELSE "begin")
    /\ UNCHANGED <<db, copy, lock, done, failures>>

(* Mutation: CREATE TABLE without IF NOT EXISTS. *)
Create_New(p) ==
    /\ pc[p] = "create" /\ MayWrite(p)
    /\ done' = [done EXCEPT ![p] = @ + 1]
    /\ db.tables < done'[p] /\ db' = [db EXCEPT !.tables = done'[p]]
    /\ IF done'[p] = Statements THEN Goto(p, "stamp") ELSE pc' = pc
    /\ UNCHANGED <<copy, lock, failures>>

(* CREATE TABLE IF NOT EXISTS, one commit per statement. *)
Create(p) ==
    /\ pc[p] = "create" /\ MayWrite(p)
    /\ done' = [done EXCEPT ![p] = @ + 1]
    /\ db' = IF db.tables < done'[p] THEN [db EXCEPT !.tables = done'[p]] ELSE db
    /\ IF done'[p] = Statements THEN Goto(p, "stamp") ELSE pc' = pc
    /\ UNCHANGED <<copy, lock, failures>>

(* PRAGMA user_version = 1, committed at once. *)
Stamp(p) ==
    /\ pc[p] = "stamp" /\ MayWrite(p)
    /\ db' = [db EXCEPT !.version = 1]
    /\ Goto(p, "begin")
    /\ UNCHANGED <<copy, lock, done, failures>>

(* Mutation: the version read before the lock was taken is trusted. *)
Begin_Stale(p) ==
    /\ pc[p] = "begin" /\ lock = Nobody
    /\ lock' = p
    /\ copy' = [copy EXCEPT ![p] = [db EXCEPT !.rows = db.rows \cup {1}, !.version = 1]]
    /\ Goto(p, "migrate")
    /\ UNCHANGED <<db, done, failures>>

(* The INSERT of the baseline row opens the transaction; user_version is    *)
(* read again inside it.                                                    *)
Begin(p) ==
    /\ pc[p] = "begin" /\ lock = Nobody
    /\ lock' = p
    /\ copy' = [copy EXCEPT ![p] = [db EXCEPT !.rows = db.rows \cup {1}]]
    /\ Goto(p, "migrate")
    /\ UNCHANGED <<db, done, failures>>

Pending(p) == copy[p].version + 1
(* ALTER TABLE ADD COLUMN fails on a column that exists. *)
Duplicate(p) == Pending(p) \in Adds \cap copy[p].applied

(* A database after its next migration: the statements, the version, the row. *)
Migrated(d) == [d EXCEPT !.version = @ + 1, !.applied = @ \cup {d.version + 1},
                         !.rows = @ \cup {d.version + 1}]

(* Mutation: the version is set and committed before the transaction is. *)
Migrate_Early(p) ==
    /\ pc[p] = "migrate"
    /\ copy[p].version < Supports[p] /\ ~Duplicate(p)
    /\ copy' = [copy EXCEPT ![p] = Migrated(@)]
    /\ db' = [db EXCEPT !.version = Pending(p)]
    /\ UNCHANGED <<lock, pc, done, failures>>

(* The next pending migration is run in the transaction. *)
Migrate(p) ==
    /\ pc[p] = "migrate"
    /\ copy[p].version < Supports[p] /\ ~Duplicate(p)
    /\ copy' = [copy EXCEPT ![p] = Migrated(@)]
    /\ UNCHANGED <<db, lock, pc, done, failures>>

(* Nothing is pending. *)
Commit(p) ==
    /\ pc[p] = "migrate" /\ copy[p].version = Supports[p]
    /\ db' = copy[p]
    /\ Leave(p)
    /\ UNCHANGED failures

(* A statement fails, or the database turns out to be newer than the        *)
(* program: the exception rolls the transaction back.                       *)
Raise(p) ==
    /\ pc[p] = "migrate"
    /\ copy[p].version > Supports[p] \/ (copy[p].version < Supports[p] /\ Duplicate(p))
    /\ Leave(p)
    /\ UNCHANGED <<db, failures>>

(* The process dies, or waits for the lock longer than busy_timeout. *)
Crash(p) ==
    /\ pc[p] # "idle"
    /\ failures < MaxFailures /\ failures' = failures + 1
    /\ Leave(p)
    /\ UNCHANGED db

-----------------------------------------------------------------------------
Step(p) ==
    \/ Create(p) \/ Stamp(p) \/ Begin(p) \/ Migrate(p) \/ Commit(p) \/ Raise(p)

Next == \E p \in Procs : Read(p) \/ Step(p) \/ Crash(p)

(* Commands are started again and again, and go on; the lock of SQLite is   *)
(* given to one that waits.                                                 *)
Fairness == \A p \in Procs : WF_vars(Read(p)) /\ SF_vars(Step(p))

Spec     == Init /\ [][Next]_vars
FairSpec == Spec /\ Fairness
-----------------------------------------------------------------------------
Databases == [version: Versions \cup {0}, tables: 0..Statements,
              applied: SUBSET Versions, rows: SUBSET Versions]

(* Every variable has its type and no bound is exceeded. *)
TypeOK ==
    /\ db \in Databases /\ copy \in [Procs -> Databases] /\ lock \in Procs \cup {Nobody}
    /\ pc \in [Procs -> {"idle", "create", "stamp", "begin", "migrate"}]
    /\ done \in [Procs -> 0..Statements] /\ failures \in 0..MaxFailures

(* The committed version tells which tables and columns exist: those of     *)
(* every migration up to it and no others, wherever a process was killed.   *)
VersionTellsSchema ==
    /\ db.applied = 2..db.version
    /\ db.version > 0 => db.tables = Statements

(* Every version up to the committed one has its row in schema_migrations   *)
(* and no other has, but for version 1 before the baseline was recorded.    *)
RowsMatchVersion ==
    \/ db.rows = 1..db.version
    \/ db.rows = {} /\ db.version = 1

(* The version never falls: no program takes a database back. *)
VersionNeverFalls == [][db'.version >= db.version]_vars

(* The database gets to the newest version a program supports: a crash or a *)
(* lost race never leaves one that no program can migrate.                  *)
Newest == CHOOSE v \in {Supports[p] : p \in Procs} : \A p \in Procs : Supports[p] <= v
SchemaBecomesCurrent == <>(db.version >= Newest)

(* Test: a second migrate_schema succeeds and finds nothing pending; that   *)
(* is, no program meets a column it is about to add.                        *)
RerunSucceeds ==
    \A p \in Procs : pc[p] = "migrate" /\ copy[p].version < Supports[p] => ~Duplicate(p)
=============================================================================
