--------------------------- MODULE RuntimeMigration ---------------------------
(***************************************************************************)
(* The schema of runtime_state.sqlite3 (runtime_state.py): the services    *)
(* that each inspect, back up and migrate the database they all share when *)
(* they start, and the operator who stops them, backs the database up and  *)
(* restores an older one (runtime_state_admin.py).                         *)
(*                                                                         *)
(* Every migration is one transaction. The last but one has two released   *)
(* forms, and the last adds what the other form would have. PRAGMA         *)
(* user_version and the migration history change together but are read by  *)
(* two statements outside a transaction, so an inspection has two steps.   *)
(***************************************************************************)
EXTENDS Integers, FiniteSets

CONSTANTS
  Services,   \* processes that open the database
  Latest,     \* RUNTIME_SCHEMA_VERSION
  MaxWrites,  \* bound on what services write
  MaxFaults   \* bound on crashes, failed backups and failed migrations

ASSUME MigrationAssumption ==
  /\ Latest \in Nat /\ Latest >= 2
  /\ MaxWrites \in Nat \ {0} /\ MaxFaults \in Nat

VARIABLES
  db,        \* the database file
  backups,   \* runtime_state_backups/
  service,
  operator,
  stopped,   \* has the operator stopped the services?
  writes,    \* how many rows were ever written
  faults

vars == <<db, backups, service, operator, stopped, writes, faults>>

Branched == Latest - 1

Branches == {"attachments", "idempotency"}

\* "branch" is the name of the branched migration in the history.
Databases == [version : 0..Latest, branch : Branches \cup {"none"},
              schema : SUBSET Branches, rows : SUBSET (1..MaxWrites)]

NoDatabase == [version |-> 0, branch |-> "none", schema |-> {}, rows |-> {}]

Present(d) == d # NoDatabase

Starting == [pc : {"down", "inspecting", "comparing", "copying", "describing",
                   "migrating", "running"},
             phase : {"start", "backup", "verify"},
             seen : 0..Latest, current : 0..Latest, copy : Databases]

Down == [pc |-> "down", phase |-> "start", seen |-> 0, current |-> 0, copy |-> NoDatabase]

Operating == [pc : {"idle", "describing", "replacing"}, copy : Databases,
              chosen : Databases, restores : BOOLEAN]

Idle == [pc |-> "idle", copy |-> NoDatabase, chosen |-> NoDatabase, restores |-> FALSE]

TypeOK ==
  /\ db \in Databases
  /\ backups \subseteq [content : Databases, sidecar : BOOLEAN]
  /\ service \in [Services -> Starting]
  /\ operator \in Operating
  /\ stopped \in BOOLEAN
  /\ writes \in 0..MaxWrites
  /\ faults \in 0..MaxFaults

\* A new node, or one whose database an earlier revision left.
Released ==
  {NoDatabase} \cup
  {[version |-> v, branch |-> "none", schema |-> {}, rows |-> {1}] : v \in 0..Branched - 1}
  \cup {[version |-> Branched, branch |-> b, schema |-> {b}, rows |-> {1}] : b \in Branches}

Init ==
  /\ db \in Released
  /\ writes = Cardinality(db.rows)
  /\ backups = {}
  /\ service = [s \in Services |-> Down]
  /\ operator = Idle
  /\ stopped = FALSE
  /\ faults = 0

Fault == faults < MaxFaults /\ faults' = faults + 1

Goes(s, pc) == service' = [service EXCEPT ![s].pc = pc]

\* RuntimeStateError: the service exits, and systemd starts it again.
Fails(s) == service' = [service EXCEPT ![s] = Down]

\* A backup file without its sidecar cannot be verified, so not restored.
Copied(d)    == backups' = backups \cup {[content |-> d, sidecar |-> FALSE]}
Described(d) == backups' = (backups \ {[content |-> d, sidecar |-> FALSE]})
                             \cup {[content |-> d, sidecar |-> TRUE]}

Verified == {b.content : b \in {c \in backups : c.sidecar}}

(***************************************************************************)
(* A service starts: RuntimeState._migrate.                                *)
(***************************************************************************)
Start(s) ==
  /\ service[s].pc = "down" /\ ~stopped
  /\ service' = [service EXCEPT ![s] =
       [Down EXCEPT !.pc = IF Present(db) THEN "inspecting" ELSE "migrating"]]
  /\ UNCHANGED <<db, backups, operator, stopped, writes, faults>>

ReadVersion(s) ==
  /\ service[s].pc = "inspecting"
  /\ service' = [service EXCEPT ![s].pc = "comparing", ![s].seen = db.version]
  /\ UNCHANGED <<db, backups, operator, stopped, writes, faults>>

\* What a verified schema of the latest version must hold.
Complete(d) == d.version = Latest /\ d.schema = Branches

\* The history is read; a database that was migrated since does not match.
Compare(s) ==
  /\ service[s].pc = "comparing"
  /\ LET me == service[s]
         healthy == db.version = me.seen /\ (db.version = Latest => db.schema = Branches)
         next == CASE me.phase = "start" /\ db.version = Latest ->
                        [me EXCEPT !.pc = "inspecting", !.phase = "verify"]
                   [] me.phase = "start" /\ db.version < Latest ->
                        [me EXCEPT !.pc = "inspecting", !.phase = "backup", !.current = db.version]
                   [] me.phase = "backup" -> [me EXCEPT !.pc = "copying"]
                   [] me.phase = "verify" -> [Down EXCEPT !.pc = "running"]
     IN  IF healthy /\ (me.phase = "verify" => Complete(db))
         THEN service' = [service EXCEPT ![s] = next]
         ELSE Fails(s)
  /\ UNCHANGED <<db, backups, operator, stopped, writes, faults>>

\* Mutant: the sidecar is left for later.
CopyUndescribed(s) ==
  /\ service[s].pc = "copying"
  /\ Copied(db)
  /\ service' = [service EXCEPT ![s].pc = "migrating"]
  /\ UNCHANGED <<db, operator, stopped, writes, faults>>

\* create_runtime_backup: the copy is a snapshot, verified before it gets its name.
Copy(s) ==
  /\ service[s].pc = "copying"
  /\ Copied(db)
  /\ service' = [service EXCEPT ![s].pc = "describing", ![s].copy = db]
  /\ UNCHANGED <<db, operator, stopped, writes, faults>>

Describe(s) ==
  /\ service[s].pc = "describing"
  /\ Described(service[s].copy)
  /\ service' = [service EXCEPT ![s].pc = "migrating", ![s].copy = NoDatabase]
  /\ UNCHANGED <<db, operator, stopped, writes, faults>>

BackupFails(s) ==
  /\ service[s].pc \in {"copying", "describing"}
  /\ Fault
  /\ Fails(s)
  /\ UNCHANGED <<db, backups, operator, stopped, writes>>

\* Mutant: the last migration adds what the catalog's own history lacks.
MigratedByCatalog(d, v) ==
  CASE v < Branched -> [d EXCEPT !.version = v]
    [] v = Branched -> [d EXCEPT !.version = v, !.branch = "attachments", !.schema = {"attachments"}]
    [] OTHER        -> [d EXCEPT !.version = v, !.schema = @ \cup {"idempotency"}]

\* The database after the migration to version v.
Migrated(d, v) ==
  CASE v < Branched -> [d EXCEPT !.version = v]
    [] v = Branched -> [d EXCEPT !.version = v, !.branch = "attachments", !.schema = {"attachments"}]
    [] OTHER        -> [d EXCEPT !.version = v, !.schema = @ \cup (Branches \ {d.branch})]

\* Mutant: one migration more than the catalog has.
MigratePast(s) ==
  /\ service[s].pc = "migrating"
  /\ LET v == service[s].current + 1
     IN  IF v > db.version + 1 THEN Fails(s) /\ UNCHANGED db
         ELSE /\ db' = IF db.version >= v THEN db ELSE Migrated(db, v)
              /\ service' = [service EXCEPT ![s].current = v]
  /\ UNCHANGED <<backups, operator, stopped, writes, faults>>

\* One transaction. What another process has migrated in the meantime is a
\* no-op; a migration that cannot follow the database's version is an error.
Migrate(s) ==
  /\ service[s].pc = "migrating"
  /\ service[s].current < Latest
  /\ LET v == service[s].current + 1
     IN  IF v > db.version + 1 THEN Fails(s) /\ UNCHANGED db
         ELSE /\ db' = IF db.version >= v THEN db ELSE Migrated(db, v)
              /\ service' = [service EXCEPT ![s].current = v]
  /\ UNCHANGED <<backups, operator, stopped, writes, faults>>

MigrationFails(s) ==
  /\ service[s].pc = "migrating"
  /\ Fault
  /\ Fails(s)
  /\ UNCHANGED <<db, backups, operator, stopped, writes>>

MigrationsDone(s) ==
  /\ service[s].pc = "migrating"
  /\ service[s].current = Latest
  /\ service' = [service EXCEPT ![s].pc = "inspecting", ![s].phase = "verify"]
  /\ UNCHANGED <<db, backups, operator, stopped, writes, faults>>

Write(s) ==
  /\ service[s].pc = "running"
  /\ writes < MaxWrites
  /\ writes' = writes + 1
  /\ db' = [db EXCEPT !.rows = @ \cup {writes + 1}]
  /\ UNCHANGED <<backups, service, operator, stopped, faults>>

Crash(s) ==
  /\ service[s].pc # "down"
  /\ Fault
  /\ Fails(s)
  /\ UNCHANGED <<db, backups, operator, stopped, writes>>

(***************************************************************************)
(* The operator: runtime_state_admin.py.                                   *)
(***************************************************************************)
StopServices ==
  /\ operator.pc = "idle" /\ ~stopped
  /\ Fault
  /\ stopped' = TRUE
  /\ service' = [s \in Services |-> Down]
  /\ UNCHANGED <<db, backups, operator, writes>>

StartServices ==
  /\ operator.pc = "idle" /\ stopped
  /\ stopped' = FALSE
  /\ UNCHANGED <<db, backups, service, operator, writes, faults>>

\* backup: while the services run.
BackUp ==
  /\ operator.pc = "idle" /\ Present(db)
  /\ Fault
  /\ Copied(db)
  /\ operator' = [Idle EXCEPT !.pc = "describing", !.copy = db]
  /\ UNCHANGED <<db, service, stopped, writes>>

\* Mutant: restore asks for no confirmation that the services are stopped.
RestoreLive ==
  /\ operator.pc = "idle"
  /\ \E d \in Verified :
       operator' = [Idle EXCEPT !.pc = IF Present(db) THEN "describing" ELSE "replacing",
                                !.copy = db, !.chosen = d, !.restores = TRUE]
  /\ IF Present(db) THEN Copied(db) ELSE UNCHANGED backups
  /\ UNCHANGED <<db, service, stopped, writes, faults>>

\* restore, of a verified backup and with all services stopped: it starts
\* with a safety backup of the database it will replace.
BeginRestore ==
  /\ operator.pc = "idle" /\ stopped
  /\ \E d \in Verified :
       operator' = [Idle EXCEPT !.pc = IF Present(db) THEN "describing" ELSE "replacing",
                                !.copy = db, !.chosen = d, !.restores = TRUE]
  /\ IF Present(db) THEN Copied(db) ELSE UNCHANGED backups
  /\ UNCHANGED <<db, service, stopped, writes, faults>>

DescribeBackup ==
  /\ operator.pc = "describing"
  /\ Described(operator.copy)
  /\ operator' = IF operator.restores THEN [operator EXCEPT !.pc = "replacing"] ELSE Idle
  /\ UNCHANGED <<db, service, stopped, writes, faults>>

Replace ==
  /\ operator.pc = "replacing"
  /\ db' = operator.chosen
  /\ operator' = Idle
  /\ UNCHANGED <<backups, service, stopped, writes, faults>>

OperatorDies ==
  /\ operator.pc # "idle"
  /\ Fault
  /\ operator' = Idle
  /\ UNCHANGED <<db, backups, service, stopped, writes>>

StartStep(s) == \/ Start(s) \/ ReadVersion(s) \/ Compare(s) \/ Copy(s)
                \/ Describe(s) \/ Migrate(s) \/ MigrationsDone(s)

OperatorStep == StartServices \/ DescribeBackup \/ Replace

Next ==
  \/ \E s \in Services : StartStep(s) \/ Write(s) \/ BackupFails(s) \/ MigrationFails(s) \/ Crash(s)
  \/ OperatorStep \/ StopServices \/ BackUp \/ BeginRestore \/ OperatorDies

Spec == Init /\ [][Next]_vars

\* systemd restarts a failed service; an operator finishes what was begun.
LiveSpec == Spec /\ WF_vars(OperatorStep) /\ \A s \in Services : WF_vars(StartStep(s))

(***************************************************************************)
(* Properties.                                                             *)
(***************************************************************************)

\* A service that runs has the latest schema under it, with both guarantees
\* of the two released branches, whoever migrated or restored the database
\* (post-migration verification, restore with all services stopped).
RunsOnLatest == \A s \in Services : service[s].pc = "running" => Complete(db)

\* Before a schema changes there is a restorable backup with all the rows in
\* a schema no newer, and before a restore replaces a database there is one
\* of that very database: whatever dies in between, nothing is lost
\* (create_runtime_backup in _migrate and in restore_runtime_backup).
RestorableFirst ==
  [][LET keeps == db.rows \subseteq db'.rows
     IN  db.rows # {} /\ (db'.version # db.version \/ ~keeps) =>
           \E d \in Verified : /\ d.rows = db.rows /\ d.version <= db.version
                               /\ keeps \/ d = db]_vars

\* Every released database comes up: a service that found the database half
\* migrated by another one, or died migrating it, runs in the end.
ComesUp == \A s \in Services : []<>(service[s].pc = "running" \/ stopped)
=============================================================================
