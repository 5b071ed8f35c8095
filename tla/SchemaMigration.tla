--------------------------- MODULE SchemaMigration ---------------------------
(***************************************************************************)
(* Opening the encrypted database                                          *)
(* (crates/store/bondry-store-sqlcipher/src/database.rs, usage.rs).        *)
(*                                                                         *)
(* A database of any version from 0 to SCHEMA_VERSION is brought to the    *)
(* current schema inside one immediate transaction.  Several processes may *)
(* open the file at once, a statement may fail and a process may die at    *)
(* any point; SQLite rolls the transaction back then.                      *)
(***************************************************************************)
EXTENDS Naturals, Sequences, FiniteSets, FiniteSetsExt

CONSTANTS
    Processes,
    NoProcess,
    Keys,           \* replay records
    MaxRow,         \* bound on row numbers
    MaxCrashes      \* bound on crashes

VARIABLES
    db,         \* the committed database
    writer,     \* the process that holds the write lock
    work,       \* what its transaction sees
    program,    \* the statements its transaction has still to run
    process,    \* what every process does
    seen,       \* the version it read before it asked for the lock
    crashes

vars == <<db, writer, work, program, process, seen, crashes>>

SchemaVersion == 8

-----------------------------------------------------------------------------
(* Schema objects.  The name ends with the form of a table that changed.    *)

Base == {"clients", "tokens", "grants"}
Triggers == {"delivery_triggers", "dedup_triggers"}
Accounting == {"usage", "terminal_index"} \cup Triggers

SchemaOf(version) ==
    CASE version = 0 -> {}
      [] version = 1 -> {"clients", "tokens", "audit_1"}
      [] version = 2 -> Base \cup {"audit_1"}
      [] version = 3 -> Base \cup {"audit_2"}
      [] version = 4 -> Base \cup {"audit_2", "delivery_log"}
      [] version \in {5, 6} -> Base \cup {"audit_2", "delivery_log", "dedup_1"}
      [] version = 7 -> Base \cup {"audit_2", "delivery_log", "dedup_1"} \cup Accounting
      [] OTHER -> Base \cup {"audit_2", "delivery_log", "dedup_2"} \cup Accounting

InitializeAccounting ==
    <<"create_usage", "refresh_usage", "delivery_triggers", "dedup_triggers",
      "terminal_index">>

MigrateFromVersionSeven == <<"rebuild_dedup", "refresh_usage", "dedup_triggers">>
MigrateLegacyDedup == <<"rebuild_dedup">> \o InitializeAccounting
MigrateFromVersionFour == <<"create_dedup">> \o InitializeAccounting
MigrateFromVersionThree == <<"create_delivery_log">> \o MigrateFromVersionFour
MigrateFromVersionTwo == <<"rebuild_audit">> \o MigrateFromVersionThree
MigrateFromVersionOne == <<"create_grants">> \o MigrateFromVersionTwo
MigrateFromEmpty == <<"create_base">> \o MigrateFromVersionThree

Migration(version) ==
    CASE version = 7 -> MigrateFromVersionSeven
      [] version \in {5, 6} -> MigrateLegacyDedup
      [] version = 4 -> MigrateFromVersionFour
      [] version = 3 -> MigrateFromVersionThree
      [] version = 2 -> MigrateFromVersionTwo
      [] version = 1 -> MigrateFromVersionOne
      [] version = 0 -> MigrateFromEmpty

(* The objects a statement creates.  Creating one that exists is an error.  *)
Creates(statement) ==
    CASE statement = "create_base" -> Base \cup {"audit_2"}
      [] statement = "create_grants" -> {"grants"}
      [] statement = "rebuild_audit" -> {"audit_2"}
      [] statement = "create_delivery_log" -> {"delivery_log"}
      [] statement \in {"create_dedup", "rebuild_dedup"} -> {"dedup_2"}
      [] statement = "create_usage" -> {"usage"}
      [] statement = "refresh_usage" -> {}
      [] OTHER -> {statement}

(* Dropping a table drops its triggers with it. *)
Drops(statement) ==
    CASE statement = "rebuild_audit" -> {"audit_1"}
      [] statement = "rebuild_dedup" -> {"dedup_1", "dedup_triggers"}
      [] OTHER -> {}

(* The objects it reads or attaches to. *)
Uses(statement) ==
    CASE statement = "rebuild_audit" -> {"audit_1"}
      [] statement = "rebuild_dedup" -> {"dedup_1"}
      [] statement = "refresh_usage" -> {"usage", "delivery_log", "dedup_2"}
      [] statement = "delivery_triggers" -> {"usage", "delivery_log"}
      [] statement = "dedup_triggers" -> {"usage", "dedup_2"}
      [] statement = "terminal_index" -> {"delivery_log"}
      [] OTHER -> {}

Applies(statement, d) ==
    /\ Uses(statement) \subseteq d.objects
    /\ Creates(statement) \cap (d.objects \ Drops(statement)) = {}

(* Row numbers of the replay records: zero where there is none. *)
Rows(d) == {k \in Keys : d.dedup[k] # 0}

(* Mutated Renumbered: the copy is not ordered. *)
RenumberedBackwards(d) ==
    [k \in Keys |-> IF k \in Rows(d)
                    THEN Cardinality({j \in Rows(d) : d.dedup[j] >= d.dedup[k]}) ELSE 0]

(* INSERT INTO webhook_dedup_next SELECT ... ORDER BY rowid *)
Renumbered(d) ==
    [k \in Keys |-> IF k \in Rows(d)
                    THEN Cardinality({j \in Rows(d) : d.dedup[j] <= d.dedup[k]}) ELSE 0]

(* usage::refresh *)
Refreshed(d) == [d EXCEPT !.usage = Cardinality(Rows(d))]

After(statement, d) ==
    LET changed == [d EXCEPT !.objects = (@ \ Drops(statement)) \cup Creates(statement)] IN
    CASE statement = "rebuild_dedup" -> [changed EXCEPT !.dedup = Renumbered(d)]
      [] statement = "refresh_usage" -> Refreshed(changed)
      [] OTHER -> changed

-----------------------------------------------------------------------------
Objects == UNION {SchemaOf(version) : version \in 0 .. SchemaVersion}
Database ==
    [version : 0 .. SchemaVersion + 1, objects : SUBSET Objects,
     dedup : [Keys -> 0 .. MaxRow], usage : 0 .. Cardinality(Keys)]

(* Types: the process that has the write lock is the one that migrates      *)
(* (database.rs:91-112).                                                    *)
TypeOK ==
    /\ {db, work} \subseteq Database
    /\ writer \in Processes \cup {NoProcess}
    /\ process \in [Processes -> {"closed", "waiting", "migrating", "open", "failed"}]
    /\ \A p \in Processes : process[p] = "migrating" <=> writer = p
    /\ seen \in [Processes -> 0 .. SchemaVersion + 1]
    /\ crashes \in 0 .. MaxCrashes

(* A database that some version left: its objects, its rows, its counter. *)
StoredDatabase(version, rows) ==
    [version |-> version, objects |-> SchemaOf(version), dedup |-> rows,
     usage |-> IF version >= 7 THEN Cardinality({k \in Keys : rows[k] # 0}) ELSE 0]

Init ==
    /\ \E version \in 0 .. SchemaVersion + 1, rows \in [Keys -> 0 .. MaxRow - 1] :
          /\ \A j, k \in Keys : rows[j] = rows[k] /\ rows[k] # 0 => j = k
          /\ version < 5 => \A k \in Keys : rows[k] = 0
          /\ db = StoredDatabase(version, rows)
    /\ writer = NoProcess
    /\ work = db
    /\ program = <<>>
    /\ process = [p \in Processes |-> "closed"]
    /\ seen = [p \in Processes |-> 0]
    /\ crashes = 0

-----------------------------------------------------------------------------
(* SqlCipherStore::open *)

(* The file is protected, the key tried and the version read; any of it may  *)
(* fail.  A current database needs no lock.                                  *)
Open(p) ==
    /\ process[p] = "closed"
    /\ seen' = [seen EXCEPT ![p] = db.version]
    /\ process' \in {[process EXCEPT ![p] = IF db.version = SchemaVersion
                                            THEN "open" ELSE "waiting"],
                     [process EXCEPT ![p] = "failed"]}
    /\ UNCHANGED <<db, writer, work, program, crashes>>

(* The lock is taken and the version read again: another process may have    *)
(* migrated the database in the meantime.                                    *)
Begin(p) ==
    /\ process[p] = "waiting"
    /\ writer = NoProcess
    /\ \/ /\ db.version = SchemaVersion
          /\ process' = [process EXCEPT ![p] = "open"]
          /\ UNCHANGED <<writer, work, program>>
       \/ /\ db.version > SchemaVersion
          /\ process' = [process EXCEPT ![p] = "failed"]
          /\ UNCHANGED <<writer, work, program>>
       \/ /\ db.version < SchemaVersion
          /\ process' = [process EXCEPT ![p] = "migrating"]
          /\ writer' = p
          /\ work' = db
          /\ program' = Migration(db.version)
    /\ UNCHANGED <<db, seen, crashes>>

(* The lock is not given within the busy timeout. *)
Busy(p) ==
    /\ process[p] = "waiting"
    /\ writer # NoProcess
    /\ process' = [process EXCEPT ![p] = "failed"]
    /\ UNCHANGED <<db, writer, work, program, seen, crashes>>

Execute(p) ==
    /\ writer = p
    /\ program # <<>>
    /\ Applies(Head(program), work)
    /\ work' = After(Head(program), work)
    /\ program' = Tail(program)
    /\ UNCHANGED <<db, writer, process, seen, crashes>>

(* user_version is set and the transaction committed. *)
Commit(p) ==
    /\ writer = p
    /\ program = <<>>
    /\ db' = [work EXCEPT !.version = SchemaVersion]
    /\ writer' = NoProcess
    /\ process' = [process EXCEPT ![p] = "open"]
    /\ UNCHANGED <<work, program, seen, crashes>>

(* A statement or the commit fails: the dropped transaction is rolled back. *)
Fail(p) ==
    /\ writer = p
    /\ writer' = NoProcess
    /\ program' = <<>>
    /\ process' = [process EXCEPT ![p] = "failed"]
    /\ UNCHANGED <<db, work, seen, crashes>>

(* The host gives a store up, or tries again after a failure. *)
Close(p) ==
    /\ process[p] \in {"open", "failed"}
    /\ process' = [process EXCEPT ![p] = "closed"]
    /\ UNCHANGED <<db, writer, work, program, seen, crashes>>

(* A process dies; SQLite rolls its transaction back. *)
Crash(p) ==
    /\ crashes < MaxCrashes
    /\ process[p] # "closed"
    /\ crashes' = crashes + 1
    /\ process' = [process EXCEPT ![p] = "closed"]
    /\ IF writer = p THEN writer' = NoProcess /\ program' = <<>>
                     ELSE UNCHANGED <<writer, program>>
    /\ UNCHANGED <<db, work, seen>>

(* A record is inserted in an open database; the trigger counts it. *)
Insert(p, k) ==
    /\ process[p] = "open"
    /\ writer = NoProcess
    /\ db.dedup[k] = 0
    /\ Max({db.dedup[j] : j \in Keys}) < MaxRow
    /\ db' = [db EXCEPT !.dedup[k] = 1 + Max({db.dedup[j] : j \in Keys}),
                       !.usage = @ + IF "dedup_triggers" \in db.objects THEN 1 ELSE 0]
    /\ UNCHANGED <<writer, work, program, process, seen, crashes>>

Step(p) == Open(p) \/ Begin(p) \/ Busy(p) \/ Execute(p) \/ Commit(p) \/ Fail(p)

Next ==
    \E p \in Processes :
        \/ Step(p) \/ Close(p) \/ Crash(p)
        \/ \E k \in Keys : Insert(p, k)

Spec == Init /\ [][Next]_vars

-----------------------------------------------------------------------------
(* Properties *)

(* Whoever has an open store has the current schema, every object of it,    *)
(* whatever version the file had and whoever migrated it                    *)
(* (database.rs:90-216).                                                    *)
OpenIsCurrent ==
    (\E p \in Processes : process[p] = "open") =>
        db.version = SchemaVersion /\ db.objects = SchemaOf(SchemaVersion)

(* No migration meets an object it did not expect, so none fails by itself: *)
(* each path creates what is missing and nothing that is there.             *)
StatementsApply == program # <<>> => Applies(Head(program), work)

(* No version is ever committed without its objects, and as soon as the     *)
(* triggers are there the counter equals the rows, whichever path built the *)
(* accounting over the rows of an older database (usage.rs:22-87).          *)
CountsExact ==
    /\ db.version > SchemaVersion \/ db.objects = SchemaOf(db.version)
    /\ "dedup_triggers" \in db.objects => db.usage = Cardinality(Rows(db))

(* No record is lost and no two change their order, by a migration, a       *)
(* failure or a crash (rebuild_webhook_dedup_table).                        *)
RowsKept ==
    /\ Rows(db) \subseteq Rows(db')
    /\ \A j, k \in Rows(db) : db.dedup[j] < db.dedup[k] => db'.dedup[j] < db'.dedup[k]

(* Opening ends: two processes that open the file together do not keep each *)
(* other waiting.                                                           *)
Opening(p) == process[p] \in {"waiting", "migrating"}
Answered(p) == process[p] \in {"open", "failed", "closed"}
=============================================================================
