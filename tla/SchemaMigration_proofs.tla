------------------------ MODULE SchemaMigration_proofs ------------------------
(***************************************************************************)
(* Theorems of SchemaMigration for any number of processes, program        *)
(* versions and column-adding migrations, as long as a new database is     *)
(* created by one process before others open it (~Together).               *)
(***************************************************************************)
EXTENDS SchemaMigration, TLAPS

USE SchemaAssumption DEF SchemaAssumption, Versions, Nobody

PCs == {"idle", "create", "stamp", "begin", "migrate"}

(* The part of a database that a program trusts its version for. *)
Sound(d) ==
    /\ d.applied = 2..d.version
    /\ d.version > 0 => d.tables = Statements
    /\ d.rows = 1..d.version \/ (d.rows = {} /\ d.version = 1)

Typed ==
    /\ db \in Databases /\ copy \in [Procs -> Databases] /\ lock \in Procs \cup {Nobody}
    /\ pc \in [Procs -> PCs] /\ done \in [Procs -> Nat]

(* A database is created by one process, of a file that has no version yet. *)
CreatedAlone ==
    /\ \A p, q \in Procs : Creating(p) /\ Creating(q) => p = q
    /\ \A p \in Procs : Creating(p) => db.version = 0

(* The tables are made in the order the counter runs, and kept. *)
TablesFollow ==
    \A p \in Procs :
       /\ pc[p] = "idle" => done[p] = 0
       /\ pc[p] = "create" => done[p] < Statements /\ done[p] <= db.tables
       /\ pc[p] = "stamp" => db.tables = Statements

(* The holder of the lock migrates a sound copy that is not behind. *)
OneMigrates ==
    \A p \in Procs :
       /\ lock = p <=> pc[p] = "migrate"
       /\ pc[p] \in {"begin", "migrate"} => db.version > 0
       /\ pc[p] = "migrate" => /\ Sound(copy[p]) /\ copy[p].version >= db.version
                               /\ 1 \in copy[p].rows

IInv == Typed /\ Sound(db) /\ CreatedAlone /\ TablesFollow /\ OneMigrates

LEMMA DatabaseFields ==
  ASSUME NEW d \in Databases
  PROVE  /\ d.version \in 0..12 /\ d.tables \in 0..Statements
         /\ d.applied \in SUBSET Versions /\ d.rows \in SUBSET Versions
BY DEF Databases

LEMMA InitInv == Init => IInv
<1> SUFFICES ASSUME Init PROVE IInv
  OBVIOUS
<1>1. /\ copy = [p \in Procs |-> Database(0)] /\ lock = Nobody
      /\ pc = [p \in Procs |-> "idle"] /\ done = [p \in Procs |-> 0]
  BY DEF Init
<1>2. \A v \in 0..12 : Database(v) \in Databases
  BY DEF Database, Databases
<1>3. PICK v \in Initial :
          \/ db = [Database(v) EXCEPT !.rows = 1..v]
          \/ v = 1 /\ db = Database(1)
          \/ v = 0 /\ \E n \in 0..Statements : db = [Database(0) EXCEPT !.tables = n]
  BY DEF Init
<1>4. v \in 0..12
  OBVIOUS
<1>5. db \in Databases /\ Sound(db)
  <2>1. CASE db = [Database(v) EXCEPT !.rows = 1..v]
    <3>1. /\ db.version = v /\ db.rows = 1..v /\ db.applied = 2..v
          /\ db.tables = IF v = 0 THEN 0 ELSE Statements
      BY <2>1 DEF Database
    <3>2. db = [version |-> v, tables |-> IF v = 0 THEN 0 ELSE Statements,
                applied |-> 2..v, rows |-> 1..v]
      BY <2>1 DEF Database
    <3>3. v > 0 => v # 0
      BY <1>4
    <3>4. db \in Databases
      BY <1>4, <3>2 DEF Databases
    <3> QED
      BY <3>1, <3>3, <3>4 DEF Sound
  <2>2. CASE v = 1 /\ db = Database(1)
    BY <2>2 DEF Database, Databases, Sound
  <2>3. CASE v = 0 /\ \E n \in 0..Statements : db = [Database(0) EXCEPT !.tables = n]
    BY <2>3 DEF Database, Databases, Sound
  <2> QED
    BY <1>3, <2>1, <2>2, <2>3
<1>6. Typed
  BY <1>1, <1>2, <1>5 DEF Typed, PCs
<1> QED
  BY <1>1, <1>5, <1>6 DEF IInv, CreatedAlone, TablesFollow, OneMigrates, Creating

(* A process that leaves gives its lock back and forgets its copy. *)
LEMMA LeaveInv ==
  ASSUME IInv, NEW p \in Procs, Leave(p), db' = db
  PROVE  IInv'
<1> USE DEF IInv
<1>1. Database(0) \in Databases
  BY DEF Database, Databases
<1>2. /\ pc' = [pc EXCEPT ![p] = "idle"] /\ done' = [done EXCEPT ![p] = 0]
      /\ copy' = [copy EXCEPT ![p] = Database(0)]
      /\ lock' = IF lock = p THEN Nobody ELSE lock
  BY DEF Leave, Goto
<1>3. Typed'
  BY <1>1, <1>2 DEF Typed, PCs
<1>4. /\ pc'[p] = "idle" /\ done'[p] = 0
      /\ \A q \in Procs : q # p => pc'[q] = pc[q] /\ done'[q] = done[q] /\ copy'[q] = copy[q]
  BY <1>2 DEF Typed
<1>5. Sound(db)'
  BY DEF Sound
<1>6. CreatedAlone'
  BY <1>4 DEF CreatedAlone, Creating
<1>7. TablesFollow'
  BY <1>4 DEF TablesFollow
<1>8. OneMigrates'
  <2> SUFFICES ASSUME NEW q \in Procs PROVE OneMigrates!(q)'
    BY DEF OneMigrates
  <2>1. CASE q = p
    BY <1>2, <1>4, <2>1
  <2>2. CASE q # p
    BY <1>2, <1>4, <2>2 DEF OneMigrates, Sound
  <2> QED
    BY <2>1, <2>2
<1> QED
  BY <1>3, <1>5, <1>6, <1>7, <1>8

LEMMA ReadInv ==
  ASSUME IInv, ~Together, NEW p \in Procs, Read(p)
  PROVE  IInv'
<1> USE DEF IInv
<1>1. /\ pc[p] = "idle" /\ \A q \in Procs : ~Creating(q)
      /\ pc' = [pc EXCEPT ![p] = IF db.version = 0 THEN "create" ELSE "begin"]
      /\ db' = db /\ copy' = copy /\ lock' = lock /\ done' = done
  BY DEF Read, Goto
<1>2. db.version \in 0..12 /\ db.tables \in 0..Statements
  BY DatabaseFields DEF Typed
<1>3. Typed'
  BY <1>1 DEF Typed, PCs
<1>4. /\ pc'[p] = IF db.version = 0 THEN "create" ELSE "begin"
      /\ \A q \in Procs : q # p => pc'[q] = pc[q]
  BY <1>1 DEF Typed
<1>5. Sound(db)'
  BY <1>1 DEF Sound
<1>6. CreatedAlone'
  BY <1>1, <1>4 DEF CreatedAlone, Creating
<1>7. TablesFollow'
  BY <1>1, <1>2, <1>4 DEF TablesFollow
<1>8. OneMigrates'
  BY <1>1, <1>2, <1>4 DEF OneMigrates, Sound
<1> QED
  BY <1>3, <1>5, <1>6, <1>7, <1>8

LEMMA CreateInv ==
  ASSUME IInv, NEW p \in Procs, Create(p)
  PROVE  IInv'
<1> USE DEF IInv
<1> DEFINE n == done[p] + 1
<1>1. /\ pc[p] = "create" /\ done' = [done EXCEPT ![p] = n]
      /\ db' = IF db.tables < n THEN [db EXCEPT !.tables = n] ELSE db
      /\ pc' = [pc EXCEPT ![p] = IF n = Statements THEN "stamp" ELSE "create"]
      /\ copy' = copy /\ lock' = lock
  <2>1. pc[p] = "create" /\ pc = [pc EXCEPT ![p] = "create"]
    BY DEF Create, Typed
  <2>2. done'[p] = n
    BY DEF Create, Typed
  <2> QED
    BY <2>1, <2>2 DEF Create, Goto
<1>2. /\ db.version = 0 /\ done[p] \in Nat /\ done[p] < Statements /\ done[p] <= db.tables
      /\ db.tables \in 0..Statements
  BY <1>1, DatabaseFields DEF CreatedAlone, Creating, TablesFollow, Typed
<1>3. /\ db' \in Databases /\ db'.version = 0 /\ db'.rows = db.rows
      /\ db'.applied = db.applied /\ n <= db'.tables /\ db'.tables \in 0..Statements
  <2>1. CASE db.tables < n
    <3>1. n \in 0..Statements
      BY <1>2
    <3> HIDE DEF n
    <3> QED
      BY <1>1, <1>2, <2>1, <3>1 DEF Typed, Databases
  <2>2. CASE ~(db.tables < n)
    BY <1>1, <1>2, <2>2 DEF Typed
  <2> QED
    BY <2>1, <2>2
<1>4. Typed'
  BY <1>1, <1>2, <1>3 DEF Typed, PCs
<1>5. /\ pc'[p] = (IF n = Statements THEN "stamp" ELSE "create") /\ done'[p] = n
      /\ \A q \in Procs : q # p => pc'[q] = pc[q] /\ done'[q] = done[q]
  BY <1>1 DEF Typed
<1>6. \A q \in Procs : Creating(q) => q = p
  BY <1>1 DEF CreatedAlone, Creating
<1>7. Sound(db)'
  BY <1>2, <1>3 DEF Sound
<1>8. CreatedAlone'
  BY <1>3, <1>5, <1>6 DEF CreatedAlone, Creating
<1>9. TablesFollow'
  <2> SUFFICES ASSUME NEW q \in Procs PROVE TablesFollow!(q)'
    BY DEF TablesFollow
  <2>1. CASE q = p
    BY <1>2, <1>3, <1>5, <2>1
  <2>2. CASE q # p
    BY <1>5, <1>6, <2>2 DEF TablesFollow, Creating
  <2> QED
    BY <2>1, <2>2
<1>10. OneMigrates'
  BY <1>1, <1>2, <1>3, <1>5 DEF OneMigrates, Sound
<1> QED
  BY <1>4, <1>7, <1>8, <1>9, <1>10

LEMMA StampInv ==
  ASSUME IInv, NEW p \in Procs, Stamp(p)
  PROVE  IInv'
<1> USE DEF IInv
<1>1. /\ pc[p] = "stamp" /\ db' = [db EXCEPT !.version = 1]
      /\ pc' = [pc EXCEPT ![p] = "begin"] /\ copy' = copy /\ lock' = lock /\ done' = done
  BY DEF Stamp, Goto
<1>2. db.version = 0 /\ db.tables = Statements
  BY <1>1 DEF CreatedAlone, Creating, TablesFollow
<1>3. db.applied = {} /\ db.rows = {}
  BY <1>2 DEF Sound
<1>4. /\ db' \in Databases /\ db'.version = 1 /\ db'.rows = {} /\ db'.applied = {}
      /\ db'.tables = Statements
  BY <1>1, <1>2, <1>3 DEF Typed, Databases
<1>5. Typed'
  BY <1>1, <1>4 DEF Typed, PCs
<1>6. /\ pc'[p] = "begin" /\ \A q \in Procs : q # p => pc'[q] = pc[q]
  BY <1>1 DEF Typed
<1>7. \A q \in Procs : Creating(q) => q = p
  BY <1>1 DEF CreatedAlone, Creating
<1>8. Sound(db)'
  BY <1>4 DEF Sound
<1>9. CreatedAlone'
  BY <1>6, <1>7 DEF CreatedAlone, Creating
<1>10. TablesFollow'
  BY <1>1, <1>6, <1>7 DEF TablesFollow, Creating
<1>11. OneMigrates'
  <2>1. \A q \in Procs : pc[q] # "migrate"
    BY <1>2 DEF OneMigrates
  <2> QED
    BY <1>1, <1>4, <1>6, <2>1 DEF OneMigrates
<1> QED
  BY <1>5, <1>8, <1>9, <1>10, <1>11

LEMMA BeginInv ==
  ASSUME IInv, NEW p \in Procs, Begin(p)
  PROVE  IInv'
<1> USE DEF IInv
<1> DEFINE c == [db EXCEPT !.rows = db.rows \cup {1}]
<1>1. /\ pc[p] = "begin" /\ lock = Nobody /\ lock' = p
      /\ copy' = [copy EXCEPT ![p] = c] /\ pc' = [pc EXCEPT ![p] = "migrate"]
      /\ db' = db /\ done' = done
  BY DEF Begin, Goto
<1>2. db.version > 0 /\ db.version \in 0..12
  BY <1>1, DatabaseFields DEF OneMigrates, Typed
<1>3. /\ c \in Databases /\ c.version = db.version /\ c.tables = db.tables
      /\ c.applied = db.applied /\ c.rows = db.rows \cup {1}
  BY DEF Typed, Databases
<1> HIDE DEF c
<1>4. Sound(c) /\ 1 \in c.rows
  <2>1. Sound(db) /\ db.version \in Nat /\ db.version >= 1
    BY <1>2
  <2>2. db.rows = 1..db.version \/ (db.rows = {} /\ db.version = 1)
    BY <2>1 DEF Sound
  <2>3. db.rows \cup {1} = 1..db.version
    BY <2>1, <2>2
  <2> QED  BY <1>3, <2>1, <2>3 DEF Sound
<1>5. Typed'
  BY <1>1, <1>3 DEF Typed, PCs
<1>6. /\ pc'[p] = "migrate" /\ copy'[p] = c
      /\ \A q \in Procs : q # p => pc'[q] = pc[q] /\ copy'[q] = copy[q]
  BY <1>1 DEF Typed
<1>7. Sound(db)'
  BY <1>1 DEF Sound
<1>8. CreatedAlone'
  BY <1>1, <1>6 DEF CreatedAlone, Creating
<1>9. TablesFollow'
  BY <1>1, <1>6 DEF TablesFollow
<1>10. OneMigrates'
  <2> SUFFICES ASSUME NEW q \in Procs PROVE OneMigrates!(q)'
    BY DEF OneMigrates
  <2>1. CASE q = p
    <3>1. Sound(copy[q])'
      BY <1>4, <1>6, <2>1 DEF Sound
    <3> QED
      BY <1>1, <1>2, <1>3, <1>4, <1>6, <2>1, <3>1
  <2>2. CASE q # p
    BY <1>1, <1>6, <2>2 DEF OneMigrates, Sound
  <2> QED
    BY <2>1, <2>2
<1> QED
  BY <1>5, <1>7, <1>8, <1>9, <1>10

LEMMA MigrateInv ==
  ASSUME IInv, NEW p \in Procs, Migrate(p)
  PROVE  IInv'
<1> USE DEF IInv
<1> DEFINE d == copy[p]
           c == Migrated(d)
<1>1. /\ pc[p] = "migrate" /\ d.version < Supports[p]
      /\ copy' = [copy EXCEPT ![p] = c]
      /\ db' = db /\ lock' = lock /\ pc' = pc /\ done' = done
  BY DEF Migrate
<1>2. d \in Databases /\ Sound(d) /\ d.version >= db.version /\ 1 \in d.rows
  BY <1>1 DEF OneMigrates, Typed
<1>3. /\ db.version \in 0..12 /\ d.version \in 0..12 /\ Supports[p] \in 1..12
      /\ db.version > 0
  BY <1>1, <1>2, DatabaseFields DEF Typed, OneMigrates
<1>4. d.version + 1 \in 1..12
  BY <1>1, <1>3
<1>5. d.applied = 2..d.version /\ d.tables = Statements /\ d.rows = 1..d.version
  BY <1>2, <1>3 DEF Sound
<1>6. /\ c \in Databases /\ c.version = d.version + 1 /\ c.tables = Statements
      /\ c.applied = 2..d.version \cup {d.version + 1}
      /\ c.rows = 1..d.version \cup {d.version + 1}
  BY <1>2, <1>3, <1>4, <1>5 DEF Databases, Migrated
<1>7. c.applied = 2..c.version /\ c.rows = 1..c.version
  <2>1. 2..d.version \cup {d.version + 1} = 2..(d.version + 1)
    BY <1>3, <1>2
  <2>2. 1..d.version \cup {d.version + 1} = 1..(d.version + 1)
    BY <1>3
  <2> QED
    BY <1>6, <2>1, <2>2
<1> HIDE DEF c, d
<1>8. Sound(c) /\ 1 \in c.rows /\ c.version >= db.version
  <2>1. 1 \in c.rows
    BY <1>2, <1>5, <1>6
  <2> QED
    <3>1. c.version >= db.version
      BY <1>2, <1>3, <1>6
    <3>2. c.applied = 2..c.version /\ c.rows = 1..c.version /\ c.tables = Statements
      BY <1>6, <1>7
    <3>3. Sound(c)
      BY <3>2 DEF Sound
    <3> QED
      BY <2>1, <3>1, <3>3
<1>9. Typed'
  BY <1>1, <1>6 DEF Typed
<1>10. copy'[p] = c /\ \A q \in Procs : q # p => copy'[q] = copy[q]
  BY <1>1 DEF Typed
<1>11. Sound(db)' /\ CreatedAlone' /\ TablesFollow'
  BY <1>1 DEF Sound, CreatedAlone, TablesFollow, Creating
<1>12. OneMigrates'
  <2> SUFFICES ASSUME NEW q \in Procs PROVE OneMigrates!(q)'
    BY DEF OneMigrates
  <2>1. CASE q = p
    BY <1>1, <1>8, <1>10, <2>1 DEF OneMigrates, Sound
  <2>2. CASE q # p
    BY <1>1, <1>10, <2>2 DEF OneMigrates, Sound
  <2> QED
    BY <2>1, <2>2
<1> QED
  BY <1>9, <1>11, <1>12

(* The commit is the departure of a process that leaves its copy behind. *)
LEMMA CommitInv ==
  ASSUME IInv, NEW p \in Procs, Commit(p)
  PROVE  IInv' /\ db'.version >= db.version
<1> USE DEF IInv
<1>1. /\ pc[p] = "migrate" /\ db' = copy[p]
      /\ pc' = [pc EXCEPT ![p] = "idle"] /\ done' = [done EXCEPT ![p] = 0]
      /\ copy' = [copy EXCEPT ![p] = Database(0)]
      /\ lock' = IF lock = p THEN Nobody ELSE lock
  BY DEF Commit, Leave, Goto
<1>2. /\ lock = p /\ db' \in Databases /\ Sound(copy[p]) /\ db'.version >= db.version
      /\ db.version > 0
  BY <1>1 DEF OneMigrates, Typed
<1>3. db'.version > 0 /\ db'.version \in 0..12
  <2>1. db.version \in 0..12 /\ copy[p].version \in 0..12
    BY DatabaseFields DEF Typed
  <2> QED
    BY <1>1, <1>2, <2>1
<1>4. Database(0) \in Databases
  BY DEF Database, Databases
<1>5. Typed'
  BY <1>1, <1>2, <1>4 DEF Typed, PCs
<1>6. /\ pc'[p] = "idle" /\ done'[p] = 0
      /\ \A q \in Procs : q # p => pc'[q] = pc[q] /\ done'[q] = done[q] /\ copy'[q] = copy[q]
  BY <1>1 DEF Typed
<1>7. \A q \in Procs : ~Creating(q) /\ (q # p => pc[q] # "migrate")
  BY <1>2 DEF CreatedAlone, OneMigrates
<1>8. Sound(db)'
  BY <1>1, <1>2 DEF Sound
<1>9. CreatedAlone' /\ TablesFollow'
  BY <1>6, <1>7 DEF CreatedAlone, TablesFollow, Creating
<1>10. OneMigrates'
  BY <1>1, <1>2, <1>3, <1>6, <1>7 DEF OneMigrates
<1> QED
  BY <1>2, <1>5, <1>8, <1>9, <1>10

LEMMA StepInv ==
  ASSUME IInv, ~Together, [Next]_vars
  PROVE  IInv' /\ db'.version >= db.version
<1>1. db.version \in 0..12
  BY DatabaseFields DEF IInv, Typed
<1>2. ASSUME NEW p \in Procs, Read(p) PROVE IInv' /\ db' = db
  BY <1>2, ReadInv DEF Read
<1>3. ASSUME NEW p \in Procs, Create(p) PROVE IInv' /\ db'.version = db.version
  <2>1. db'.version = db.version
    BY <1>3 DEF Create, IInv, Typed, Databases
  <2> QED
    BY <1>3, <2>1, CreateInv
<1>4. ASSUME NEW p \in Procs, Stamp(p) PROVE IInv' /\ db'.version >= db.version
  <2>1. db.version = 0
    BY <1>4 DEF Stamp, IInv, CreatedAlone, Creating
  <2>2. db'.version = 1
    BY <1>4 DEF Stamp, IInv, Typed, Databases
  <2> QED
    BY <1>4, <2>1, <2>2, StampInv
<1>5. ASSUME NEW p \in Procs, Begin(p) PROVE IInv' /\ db' = db
  BY <1>5, BeginInv DEF Begin
<1>6. ASSUME NEW p \in Procs, Migrate(p) PROVE IInv' /\ db' = db
  BY <1>6, MigrateInv DEF Migrate
<1>7. ASSUME NEW p \in Procs, Commit(p) PROVE IInv' /\ db'.version >= db.version
  BY <1>7, CommitInv
<1>8. ASSUME NEW p \in Procs, Raise(p) \/ Crash(p) PROVE IInv' /\ db' = db
  BY <1>8, LeaveInv DEF Raise, Crash
<1>9. CASE UNCHANGED vars
  BY <1>1, <1>9 DEF vars, IInv, Typed, Sound, CreatedAlone, TablesFollow, OneMigrates, Creating
<1> QED
  BY <1>1, <1>2, <1>3, <1>4, <1>5, <1>6, <1>7, <1>8, <1>9 DEF Next, Step

LEMMA Inductive == ASSUME ~Together PROVE Spec => []IInv
<1>1. IInv /\ [Next]_vars => IInv'
  BY StepInv
<1> QED
  BY <1>1, InitInv, PTL DEF Spec

(* The committed user_version tells which tables and columns exist, for     *)
(* any processes and program versions, wherever they are killed.            *)
THEOREM VersionTellsSchemaAlways ==
  ASSUME ~Together PROVE Spec => []VersionTellsSchema
<1>1. IInv => VersionTellsSchema
  BY DEF IInv, Sound, VersionTellsSchema
<1> QED
  BY <1>1, Inductive, PTL

(* schema_migrations has the rows of the committed version's migrations.    *)
THEOREM RowsMatchVersionAlways ==
  ASSUME ~Together PROVE Spec => []RowsMatchVersion
<1>1. IInv => RowsMatchVersion
  BY DEF IInv, Sound, RowsMatchVersion
<1> QED
  BY <1>1, Inductive, PTL

(* No program ever meets a column that its next migration would add again:  *)
(* migrate_schema can be run again at any time.                             *)
THEOREM RerunSucceedsAlways ==
  ASSUME ~Together PROVE Spec => []RerunSucceeds
<1>1. IInv => RerunSucceeds
  <2> SUFFICES ASSUME IInv, NEW p \in Procs, pc[p] = "migrate" PROVE ~Duplicate(p)
    BY DEF RerunSucceeds
  <2>1. copy[p] \in Databases /\ copy[p].applied = 2..copy[p].version
    BY DEF IInv, Typed, OneMigrates, Sound
  <2>2. copy[p].version \in 0..12
    BY <2>1, DatabaseFields
  <2> QED
    BY <2>1, <2>2 DEF Duplicate, Pending
<1> QED
  BY <1>1, Inductive, PTL

(* The committed version never falls: no program takes a database back.     *)
THEOREM VersionNeverFallsAlways ==
  ASSUME ~Together PROVE Spec => VersionNeverFalls
<1>1. IInv /\ [Next]_vars => [db'.version >= db.version]_vars
  BY StepInv
<1> QED
  BY <1>1, Inductive, PTL DEF Spec, VersionNeverFalls
=============================================================================
