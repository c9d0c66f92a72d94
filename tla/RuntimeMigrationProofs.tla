----------------------- MODULE RuntimeMigrationProofs -----------------------
(***************************************************************************)
(* What holds of RuntimeMigration for every number of services, schema     *)
(* versions, writes, crashes, failed backups and failed migrations.        *)
(***************************************************************************)
EXTENDS RuntimeMigration, TLAPS, FiniteSetTheorems

-----------------------------------------------------------------------------
(***************************************************************************)
(* Types.                                                                  *)
(***************************************************************************)

\* A node without a database, a service that is down and an idle operator.
LEMMA MigrationMembers ==
  /\ NoDatabase \in Databases /\ Down \in Starting /\ Idle \in Operating
  /\ Branched \in Nat \ {0} /\ Latest = Branched + 1
BY MigrationAssumption
   DEF NoDatabase, Databases, Down, Starting, Idle, Operating, Branched

\* The released databases are databases.
LEMMA ReleasedType ==
  /\ Released \subseteq Databases
  /\ \A d \in Released : Cardinality(d.rows) \in 0..MaxWrites
<1>1. 1 \in 1..MaxWrites
  BY MigrationAssumption
<1>2. Released \subseteq Databases
  BY <1>1, MigrationMembers DEF Released, Databases, Branches, NoDatabase
<1>3. \A d \in Released : d.rows = {} \/ d.rows = {1}
  BY DEF Released, NoDatabase
<1>4. Cardinality({}) = 0 /\ Cardinality({1}) = 1
  BY FS_EmptySet, FS_Singleton
<1> QED BY <1>1, <1>2, <1>3, <1>4, MigrationAssumption

\* A migration to the next version keeps a database a database.
LEMMA MigratedType ==
  ASSUME NEW d \in Databases, NEW v \in 0..Latest
  PROVE  /\ Migrated(d, v) \in Databases
         /\ Migrated(d, v).rows = d.rows /\ Migrated(d, v).version = v
<1>1. CASE v < Branched
  BY <1>1 DEF Migrated, Databases
<1>2. CASE v = Branched
  BY <1>2, MigrationMembers DEF Migrated, Databases, Branches
<1>3. CASE v > Branched
  BY <1>3, MigrationMembers DEF Migrated, Databases, Branches
<1> QED BY <1>1, <1>2, <1>3, MigrationMembers

\* What a service does after an inspection: it fails, inspects again, backs
\* the database up, or runs.
LEMMA CompareOutcomes ==
  ASSUME TypeOK, NEW s \in Services, Compare(s)
  PROVE  LET me == service[s] IN
         /\ me.pc = "comparing"
         /\ \/ Fails(s)
            \/ service' = [service EXCEPT ![s] = [me EXCEPT !.pc = "inspecting", !.phase = "verify"]]
            \/ /\ db.version < Latest
               /\ service' = [service EXCEPT ![s] =
                    [me EXCEPT !.pc = "inspecting", !.phase = "backup", !.current = db.version]]
            \/ service' = [service EXCEPT ![s] = [me EXCEPT !.pc = "copying"]]
            \/ /\ Complete(db)
               /\ service' = [service EXCEPT ![s] = [Down EXCEPT !.pc = "running"]]
         /\ UNCHANGED <<db, backups, operator, stopped, writes, faults>>
<1>1. service[s].phase \in {"start", "backup", "verify"} /\ db.version \in 0..Latest
  BY DEF TypeOK, Starting, Databases
<1>2. CASE service[s].phase = "start" /\ db.version = Latest
  BY <1>2 DEF Compare
<1>3. CASE service[s].phase = "start" /\ db.version < Latest
  BY <1>1, <1>3, MigrationAssumption DEF Compare
<1>4. CASE service[s].phase = "backup"
  BY <1>4 DEF Compare
<1>5. CASE service[s].phase = "verify"
  BY <1>5 DEF Compare
<1> QED BY <1>1, <1>2, <1>3, <1>4, <1>5, MigrationAssumption

\* So it stays well formed and keeps or drops its copy; it runs only on a
\* complete schema.
LEMMA CompareMoves ==
  ASSUME TypeOK, NEW s \in Services, Compare(s)
  PROVE  /\ service[s].pc = "comparing"
         /\ UNCHANGED <<db, backups, operator, stopped, writes, faults>>
         /\ \E q \in Starting :
              /\ service' = [service EXCEPT ![s] = q]
              /\ q.pc \in {"down", "inspecting", "copying"} \/ (q.pc = "running" /\ Complete(db))
              /\ q.copy = service[s].copy \/ q.copy = NoDatabase
<1>0. service[s] \in Starting /\ db.version \in 0..Latest
  BY DEF TypeOK, Databases
<1>1. \A q \in {[service[s] EXCEPT !.pc = "inspecting", !.phase = "verify"],
                [service[s] EXCEPT !.pc = "copying"],
                [service[s] EXCEPT !.pc = "inspecting", !.phase = "backup",
                                   !.current = db.version]} :
        q \in Starting /\ q.pc \in {"inspecting", "copying"} /\ q.copy = service[s].copy
  BY <1>0 DEF Starting
<1>2. /\ Down \in Starting /\ Down.pc = "down" /\ Down.copy = NoDatabase
      /\ [Down EXCEPT !.pc = "running"] \in Starting
      /\ [Down EXCEPT !.pc = "running"].pc = "running"
      /\ [Down EXCEPT !.pc = "running"].copy = NoDatabase
  BY MigrationMembers DEF Down, Starting
<1>3. CASE Fails(s)
  BY <1>2, <1>3, CompareOutcomes DEF Fails
<1>4. CASE Complete(db) /\ service' = [service EXCEPT ![s] = [Down EXCEPT !.pc = "running"]]
  BY <1>2, <1>4, CompareOutcomes
<1>5. CASE \E q \in {[service[s] EXCEPT !.pc = "inspecting", !.phase = "verify"],
                     [service[s] EXCEPT !.pc = "copying"],
                     [service[s] EXCEPT !.pc = "inspecting", !.phase = "backup",
                                        !.current = db.version]} :
             service' = [service EXCEPT ![s] = q]
  BY <1>1, <1>5, CompareOutcomes
<1> QED BY <1>3, <1>4, <1>5, CompareOutcomes

\* A backup file has its content with or without a sidecar; what has a
\* sidecar keeps it.
LEMMA BackupsType ==
  ASSUME TypeOK, NEW d \in Databases, Copied(d) \/ Described(d)
  PROVE  /\ backups' \subseteq [content : Databases, sidecar : BOOLEAN]
         /\ Verified \subseteq Verified'
         /\ Described(d) => d \in Verified'
<1>1. \A f \in BOOLEAN : [content |-> d, sidecar |-> f] \in [content : Databases, sidecar : BOOLEAN]
  OBVIOUS
<1>2. /\ [content |-> d, sidecar |-> FALSE] \in [content : Databases, sidecar : BOOLEAN]
      /\ [content |-> d, sidecar |-> TRUE] \in [content : Databases, sidecar : BOOLEAN]
  BY <1>1, Zenon
<1>3. backups' \subseteq backups \cup
        {[content |-> d, sidecar |-> FALSE], [content |-> d, sidecar |-> TRUE]}
  BY DEF Copied, Described
<1>4. backups' \subseteq [content : Databases, sidecar : BOOLEAN]
  BY <1>2, <1>3, Zenon DEF TypeOK
<1>5. \A b \in backups : b.sidecar => b \in backups'
  <2>1. [content |-> d, sidecar |-> FALSE].sidecar = FALSE
    OBVIOUS
  <2> QED BY <2>1, Zenon DEF Copied, Described
<1>6. Verified \subseteq Verified'
  BY <1>5 DEF Verified
<1>7. ASSUME Described(d) PROVE d \in Verified'
  <2> DEFINE b == [content |-> d, sidecar |-> TRUE]
  <2>1. b \in backups' /\ b.sidecar /\ b.content = d
    BY <1>7 DEF Described
  <2> HIDE DEF b
  <2> QED BY <2>1 DEF Verified
<1> QED BY <1>4, <1>6, <1>7

\* Every step of a service keeps the tables well formed.
LEMMA ServiceWellTyped ==
  ASSUME TypeOK, NEW s \in Services,
         StartStep(s) \/ Write(s) \/ BackupFails(s) \/ MigrationFails(s) \/ Crash(s)
  PROVE  TypeOK'
<1> USE DEF TypeOK, Goes, Fails
<1>0. /\ service[s] \in Starting /\ db \in Databases /\ db.version \in 0..Latest
      /\ Latest \in Nat /\ MaxFaults \in Nat /\ MaxWrites \in Nat
  BY MigrationAssumption DEF Databases
<1>1. CASE Start(s)
  BY <1>0, <1>1, MigrationMembers DEF Start, Down, Starting
<1>2. CASE ReadVersion(s)
  BY <1>0, <1>2 DEF ReadVersion, Starting
<1>3. CASE Compare(s)
  BY <1>0, <1>3, CompareMoves
<1>4. CASE Copy(s)
  BY <1>0, <1>4, BackupsType DEF Copy, Starting
<1>5. CASE Describe(s)
  <2>1. service[s].copy \in Databases
    BY <1>0 DEF Starting
  <2>2. backups' \subseteq [content : Databases, sidecar : BOOLEAN]
    BY <1>5, <2>1, BackupsType DEF Describe
  <2>3. service' \in [Services -> Starting]
    BY <1>0, <1>5, MigrationMembers DEF Describe, Starting
  <2> QED BY <1>5, <2>2, <2>3 DEF Describe
<1>6. CASE Migrate(s)
  <2>1. service[s].current + 1 \in 0..Latest
    BY <1>0, <1>6 DEF Migrate, Starting
  <2>2. Migrated(db, service[s].current + 1) \in Databases
    BY <1>0, <2>1, MigratedType
  <2> QED BY <1>0, <1>6, <2>1, <2>2, MigrationMembers DEF Migrate, Starting
<1>7. CASE MigrationsDone(s)
  BY <1>0, <1>7 DEF MigrationsDone, Starting
<1>8. CASE Write(s)
  BY <1>0, <1>8 DEF Write, Databases
<1>9. CASE BackupFails(s) \/ MigrationFails(s) \/ Crash(s)
  BY <1>0, <1>9, MigrationMembers DEF BackupFails, MigrationFails, Crash, Fault
<1> QED
  BY <1>1, <1>2, <1>3, <1>4, <1>5, <1>6, <1>7, <1>8, <1>9 DEF StartStep

\* So does every step of the operator.
LEMMA OperatorWellTyped ==
  ASSUME TypeOK,
         OperatorStep \/ StopServices \/ BackUp \/ BeginRestore \/ OperatorDies
  PROVE  TypeOK'
<1> USE MigrationMembers, MigrationAssumption DEF TypeOK
<1>0. Verified \subseteq Databases
  BY DEF Verified
<1>1. CASE StopServices
  BY <1>1 DEF StopServices, Fault
<1>2. CASE StartServices
  BY <1>2 DEF StartServices
<1>3. CASE BackUp
  <2>1. operator' \in Operating
    BY <1>3 DEF BackUp, Idle, Operating
  <2>2. faults' \in 0..MaxFaults
    BY <1>3 DEF BackUp, Fault
  <2>3. backups' \subseteq [content : Databases, sidecar : BOOLEAN]
    BY <1>3, BackupsType DEF BackUp
  <2> QED BY <1>3, <2>1, <2>2, <2>3 DEF BackUp
<1>4. CASE BeginRestore
  <2>1. PICK d \in Verified :
          operator' = [Idle EXCEPT !.pc = IF Present(db) THEN "describing" ELSE "replacing",
                                   !.copy = db, !.chosen = d, !.restores = TRUE]
    BY <1>4 DEF BeginRestore
  <2>2. operator' \in Operating
    BY <1>0, <2>1 DEF Idle, Operating
  <2>3. backups' \subseteq [content : Databases, sidecar : BOOLEAN]
    BY <1>4, BackupsType DEF BeginRestore
  <2> QED BY <1>4, <2>2, <2>3 DEF BeginRestore
<1>5. CASE DescribeBackup
  <2>1. operator' \in Operating
    BY <1>5 DEF DescribeBackup, Operating
  <2>2. operator.copy \in Databases
    BY DEF Operating
  <2>3. backups' \subseteq [content : Databases, sidecar : BOOLEAN]
    BY <1>5, <2>2, BackupsType DEF DescribeBackup
  <2> QED BY <1>5, <2>1, <2>3 DEF DescribeBackup
<1>6. CASE Replace
  BY <1>6 DEF Replace, Operating
<1>7. CASE OperatorDies
  BY <1>7 DEF OperatorDies, Fault
<1> QED
  BY <1>1, <1>2, <1>3, <1>4, <1>5, <1>6, <1>7 DEF OperatorStep

\* A released database, services that are down and an idle operator are well
\* formed.
LEMMA MigrationTypeInit == Init => TypeOK
<1> SUFFICES ASSUME Init PROVE TypeOK
  OBVIOUS
<1>1. db \in Databases /\ writes \in 0..MaxWrites
  BY ReleasedType DEF Init
<1>2. stopped \in BOOLEAN
  BY DEF Init
<1>3. faults \in 0..MaxFaults
  BY MigrationAssumption DEF Init
<1>4. /\ backups \subseteq [content : Databases, sidecar : BOOLEAN]
      /\ service \in [Services -> Starting] /\ operator \in Operating
  BY MigrationMembers DEF Init
<1> QED BY <1>1, <1>2, <1>3, <1>4 DEF TypeOK

\* Every step keeps them well formed.
LEMMA MigrationTypeStep ==
  ASSUME TypeOK, [Next]_vars
  PROVE  TypeOK'
<1>1. CASE UNCHANGED vars
  BY <1>1 DEF vars, TypeOK
<1>2. CASE Next
  BY <1>2, ServiceWellTyped, OperatorWellTyped DEF Next
<1> QED BY <1>1, <1>2

\* Types hold in every reachable state: in particular no sequence of starts
\* takes the database past the latest version.
THEOREM MigrationTypeCorrect == Spec => []TypeOK
BY MigrationTypeInit, MigrationTypeStep, PTL DEF Spec

-----------------------------------------------------------------------------
(***************************************************************************)
(* Which schema a database holds, and who may be running on it.            *)
(***************************************************************************)

\* The version of a database says which schema it holds; only the branched
\* migration leaves a choice, which the history keeps.
VersionTellsSchema(d) ==
  /\ d.version < Branched => d.schema = {}
  /\ d.version = Branched => d.branch \in Branches /\ d.schema = {d.branch}
  /\ d.version = Latest => d.schema = Branches

\* That holds of the database, of every backup of it, and of every copy a
\* service or the operator holds.
Consistent ==
  /\ VersionTellsSchema(db)
  /\ \A b \in backups : VersionTellsSchema(b.content)
  /\ \A s \in Services : VersionTellsSchema(service[s].copy)
  /\ VersionTellsSchema(operator.copy) /\ VersionTellsSchema(operator.chosen)

\* A service that runs found the latest version, which only a restore takes back.
RunsAtLatest == \A s \in Services : service[s].pc = "running" => db.version = Latest

\* An operator who restores has stopped the services, and they stay stopped.
RestoresStopped ==
  /\ operator.pc = "replacing" => operator.restores
  /\ operator.pc # "idle" /\ operator.restores => stopped
  /\ stopped => \A s \in Services : service[s].pc = "down"

SchemaInv == TypeOK /\ Consistent /\ RunsAtLatest /\ RestoresStopped


\* A node without a database has no schema.
LEMMA NoDatabaseTells == VersionTellsSchema(NoDatabase)
BY MigrationMembers, MigrationAssumption
   DEF VersionTellsSchema, NoDatabase

\* A database that an earlier revision released tells its schema.
LEMMA ReleasedTells == \A d \in Released : VersionTellsSchema(d)
BY NoDatabaseTells, MigrationMembers, MigrationAssumption
   DEF VersionTellsSchema, Released

\* The migration to the next version leaves the schema of that version: the
\* last one adds what the other released branch has, whichever that is.
LEMMA MigratedTells ==
  ASSUME NEW d \in Databases, VersionTellsSchema(d), d.version < Latest
  PROVE  VersionTellsSchema(Migrated(d, d.version + 1))
<1>0. d.version \in Nat
  BY MigrationAssumption DEF Databases
<1>1. CASE d.version + 1 < Branched
  BY <1>0, <1>1, MigrationMembers DEF Migrated, VersionTellsSchema, Databases
<1>2. CASE d.version + 1 = Branched
  <2>1. Migrated(d, Branched) =
          [d EXCEPT !.version = Branched, !.branch = "attachments", !.schema = {"attachments"}]
    BY MigrationMembers DEF Migrated
  <2> DEFINE m == [d EXCEPT !.version = Branched, !.branch = "attachments",
                            !.schema = {"attachments"}]
  <2>2. m.version = Branched /\ m.branch = "attachments" /\ m.schema = {"attachments"}
    BY DEF Databases
  <2> HIDE DEF m
  <2>3. VersionTellsSchema(m)
    BY <2>2, MigrationMembers DEF VersionTellsSchema, Branches
  <2> QED BY <1>2, <2>1, <2>3 DEF m
<1>3. CASE d.version = Branched
  <2>1. Migrated(d, d.version + 1) =
          [d EXCEPT !.version = Latest, !.schema = d.schema \cup (Branches \ {d.branch})]
    BY <1>0, <1>3, MigrationMembers DEF Migrated
  <2>2. d.schema \cup (Branches \ {d.branch}) = Branches
    BY <1>3 DEF VersionTellsSchema
  <2> DEFINE m == [d EXCEPT !.version = Latest, !.schema = d.schema \cup (Branches \ {d.branch})]
  <2>3. m.version = Latest /\ m.schema = Branches
    BY <2>2 DEF Databases
  <2> HIDE DEF m
  <2>4. VersionTellsSchema(m)
    BY <2>3, MigrationMembers DEF VersionTellsSchema
  <2> QED BY <2>1, <2>4 DEF m
<1> QED BY <1>0, <1>1, <1>2, <1>3, MigrationMembers

\* The database an earlier release left tells its schema, and nobody runs.
LEMMA SchemaInvInit == Init => SchemaInv
<1> SUFFICES ASSUME Init, TypeOK PROVE SchemaInv
  BY MigrationTypeInit
<1>1. /\ \A s \in Services : service[s] = Down
      /\ operator = Idle /\ backups = {} /\ VersionTellsSchema(db)
  BY ReleasedTells DEF Init
<1>2. Consistent
  BY <1>1, NoDatabaseTells DEF Consistent, Down, Idle
<1>3. RunsAtLatest /\ RestoresStopped
  BY <1>1 DEF RunsAtLatest, RestoresStopped, Down, Idle
<1> QED BY <1>2, <1>3 DEF SchemaInv

\* What a service that migrates does to the database.
LEMMA MigrateMoves ==
  ASSUME TypeOK, NEW s \in Services, Migrate(s)
  PROVE  /\ service[s].pc = "migrating"
         /\ \/ db' = db
            \/ db.version < Latest /\ db' = Migrated(db, db.version + 1)
         /\ db'.rows = db.rows /\ db'.version >= db.version
         /\ \/ Fails(s)
            \/ \E v \in Int : service' = [service EXCEPT ![s].current = v]
         /\ UNCHANGED <<backups, operator, stopped>>
<1> DEFINE v == service[s].current + 1
<1>1. /\ db \in Databases /\ db.version \in 0..Latest /\ v \in 0..Latest /\ Latest \in Nat
      /\ service[s].pc = "migrating" /\ UNCHANGED <<backups, operator, stopped>>
  BY MigrationAssumption DEF Migrate, TypeOK, Starting, Databases
<1>2. CASE v > db.version + 1
  BY <1>1, <1>2 DEF Migrate
<1>3. CASE v <= db.version
  BY <1>1, <1>3 DEF Migrate
<1>4. CASE v = db.version + 1
  <2>1. db' = Migrated(db, v) /\ service' = [service EXCEPT ![s].current = v]
    BY <1>1, <1>4 DEF Migrate
  <2>2. db'.rows = db.rows /\ db'.version = v
    BY <1>1, <2>1, MigratedType
  <2>3. v \in Int /\ db.version < Latest /\ db'.version >= db.version
    BY <1>1, <1>4, <2>2
  <2>4. db' = Migrated(db, db.version + 1)
    BY <1>4, <2>1
  <2> HIDE DEF v
  <2>5. \E w \in Int : service' = [service EXCEPT ![s].current = w]
    BY <2>1, <2>3
  <2> QED BY <1>1, <2>2, <2>3, <2>4, <2>5
<1> QED BY <1>1, <1>2, <1>3, <1>4

\* The operator's steps leave the database alone, except a restore, which
\* installs a backup.
LEMMA ConsistentOperator ==
  ASSUME TypeOK, Consistent,
         OperatorStep \/ StopServices \/ BackUp \/ BeginRestore \/ OperatorDies
  PROVE  Consistent'
<1> USE NoDatabaseTells DEF Consistent
<1>1. CASE StopServices
  BY <1>1 DEF StopServices, Down
<1>2. CASE StartServices
  BY <1>2 DEF StartServices
<1>3. CASE BackUp
  BY <1>3 DEF BackUp, Copied, Idle
<1>4. CASE BeginRestore
  <2>1. PICK d \in Verified :
          operator' = [Idle EXCEPT !.pc = IF Present(db) THEN "describing" ELSE "replacing",
                                   !.copy = db, !.chosen = d, !.restores = TRUE]
    BY <1>4 DEF BeginRestore
  <2>2. VersionTellsSchema(d)
    BY DEF Verified
  <2>3. operator'.copy = db /\ operator'.chosen = d
    BY <2>1 DEF Idle
  <2>4. \A b \in backups' : VersionTellsSchema(b.content)
    <3>1. Copied(db) \/ backups' = backups
      BY <1>4 DEF BeginRestore
    <3> QED BY <3>1 DEF Copied
  <2> QED BY <1>4, <2>2, <2>3, <2>4 DEF BeginRestore
<1>5. CASE DescribeBackup
  BY <1>5 DEF DescribeBackup, Described, Idle, TypeOK, Operating
<1>6. CASE Replace
  BY <1>6 DEF Replace, Idle
<1>7. CASE OperatorDies
  BY <1>7 DEF OperatorDies, Idle
<1> QED
  BY <1>1, <1>2, <1>3, <1>4, <1>5, <1>6, <1>7 DEF OperatorStep

\* A service changes the database by a migration or a write.
LEMMA ConsistentService ==
  ASSUME TypeOK, Consistent, NEW s \in Services,
         StartStep(s) \/ Write(s) \/ BackupFails(s) \/ MigrationFails(s) \/ Crash(s)
  PROVE  Consistent'
<1> USE NoDatabaseTells DEF Consistent, Goes, Fails
<1>0. service[s] \in Starting /\ service \in [Services -> Starting] /\ db \in Databases
  BY DEF TypeOK
<1>1. CASE Start(s)
  BY <1>0, <1>1 DEF Start, Down
<1>2. CASE ReadVersion(s)
  BY <1>0, <1>2 DEF ReadVersion, Starting
<1>3. CASE Compare(s)
  BY <1>0, <1>3, CompareMoves
<1>4. CASE Copy(s)
  BY <1>0, <1>4 DEF Copy, Copied, Starting
<1>5. CASE Describe(s)
  BY <1>0, <1>5 DEF Describe, Described, Starting
<1>6. CASE Migrate(s)
  BY <1>0, <1>6, MigrateMoves, MigratedTells DEF Down, Starting
<1>7. CASE MigrationsDone(s)
  BY <1>0, <1>7 DEF MigrationsDone, Starting
<1>8. CASE Write(s)
  BY <1>0, <1>8 DEF Write, VersionTellsSchema, Databases
<1>9. CASE BackupFails(s) \/ MigrationFails(s) \/ Crash(s)
  BY <1>0, <1>9 DEF BackupFails, MigrationFails, Crash, Down
<1> QED
  BY <1>1, <1>2, <1>3, <1>4, <1>5, <1>6, <1>7, <1>8, <1>9 DEF StartStep

\* A service only gets to run on the latest version, and none runs while the
\* operator restores.
LEMMA RunningOperator ==
  ASSUME TypeOK, RunsAtLatest, RestoresStopped,
         OperatorStep \/ StopServices \/ BackUp \/ BeginRestore \/ OperatorDies
  PROVE  RunsAtLatest' /\ RestoresStopped'
<1> USE DEF RunsAtLatest, RestoresStopped
<1>0. operator \in Operating
  BY DEF TypeOK
<1>1. CASE StopServices
  BY <1>0, <1>1 DEF StopServices, Down
<1>2. CASE StartServices
  BY <1>0, <1>2 DEF StartServices
<1>3. CASE BackUp
  BY <1>0, <1>3 DEF BackUp, Idle
<1>4. CASE BeginRestore
  BY <1>0, <1>4 DEF BeginRestore, Idle
<1>5. CASE DescribeBackup
  BY <1>0, <1>5 DEF DescribeBackup, Idle, Operating
<1>6. CASE Replace
  BY <1>0, <1>6 DEF Replace, Idle
<1>7. CASE OperatorDies
  BY <1>0, <1>7 DEF OperatorDies, Idle
<1> QED
  BY <1>1, <1>2, <1>3, <1>4, <1>5, <1>6, <1>7 DEF OperatorStep

\* The same of the steps of the services: one gets to run on the latest version
\* only, and none leaves it.
LEMMA RunningService ==
  ASSUME TypeOK, TypeOK', RunsAtLatest, RestoresStopped, NEW s \in Services,
         StartStep(s) \/ Write(s) \/ BackupFails(s) \/ MigrationFails(s) \/ Crash(s)
  PROVE  RunsAtLatest' /\ RestoresStopped'
<1> USE DEF RunsAtLatest, RestoresStopped, Goes, Fails
<1>0. /\ service[s] \in Starting /\ service \in [Services -> Starting]
      /\ db.version \in 0..Latest /\ db'.version \in 0..Latest /\ Latest \in Nat
  BY MigrationAssumption DEF TypeOK, Databases
<1>1. CASE Start(s)
  BY <1>0, <1>1 DEF Start, Down
<1>2. CASE ReadVersion(s)
  BY <1>0, <1>2 DEF ReadVersion, Starting
<1>3. CASE Compare(s)
  BY <1>0, <1>3, CompareMoves DEF Complete
<1>4. CASE Copy(s)
  BY <1>0, <1>4 DEF Copy, Starting
<1>5. CASE Describe(s)
  BY <1>0, <1>5 DEF Describe, Starting
<1>6. CASE Migrate(s)
  BY <1>0, <1>6, MigrateMoves DEF Down, Starting
<1>7. CASE MigrationsDone(s)
  BY <1>0, <1>7 DEF MigrationsDone, Starting
<1>8. CASE Write(s)
  <2>1. db'.version = db.version
    BY <1>8 DEF Write, TypeOK, Databases
  <2> QED BY <1>0, <1>8, <2>1 DEF Write
<1>9. CASE BackupFails(s) \/ MigrationFails(s) \/ Crash(s)
  BY <1>0, <1>9 DEF BackupFails, MigrationFails, Crash, Down
<1> QED
  BY <1>1, <1>2, <1>3, <1>4, <1>5, <1>6, <1>7, <1>8, <1>9 DEF StartStep

\* Every step keeps the schema of each database what its version says, and
\* running services on the latest one.
LEMMA SchemaInvStep ==
  ASSUME SchemaInv, [Next]_vars
  PROVE  SchemaInv'
<1> USE DEF SchemaInv
<1>1. TypeOK'
  BY MigrationTypeStep
<1>2. CASE UNCHANGED vars
  BY <1>1, <1>2 DEF vars, Consistent, RunsAtLatest, RestoresStopped
<1>3. CASE \E s \in Services : StartStep(s) \/ Write(s) \/ BackupFails(s)
                                 \/ MigrationFails(s) \/ Crash(s)
  BY <1>1, <1>3, ConsistentService, RunningService
<1>4. CASE OperatorStep \/ StopServices \/ BackUp \/ BeginRestore \/ OperatorDies
  BY <1>1, <1>4, ConsistentOperator, RunningOperator
<1> QED BY <1>2, <1>3, <1>4 DEF Next

\* A running service has the latest schema under it, with the guarantees of
\* both released branches, however many services start at once, die in the
\* middle of a migration, or find a database another one has begun to
\* migrate, and whatever an operator restores (RuntimeState._migrate,
\* restore_runtime_backup).
THEOREM ServicesRunOnLatest == Spec => []RunsOnLatest
<1>1. SchemaInv => RunsOnLatest
  BY DEF SchemaInv, Consistent, RunsAtLatest, RunsOnLatest, VersionTellsSchema, Complete
<1> QED BY <1>1, SchemaInvInit, SchemaInvStep, PTL DEF Spec

-----------------------------------------------------------------------------
(***************************************************************************)
(* What is backed up when the database changes.                            *)
(***************************************************************************)

\* There is a restorable backup of these rows, in a schema no newer.
KeptIn(d) == \E c \in Verified : c.rows = d.rows /\ c.version <= d.version

\* A service that migrates a database with rows has a restorable backup of
\* them, unless the database already has the latest version.
MigratesKept ==
  \A s \in Services :
    service[s].pc = "migrating" => db.version = Latest \/ db.rows = {} \/ KeptIn(db)

\* The copy that a service is about to describe is one of these rows.
DescribesKept ==
  \A s \in Services :
    service[s].pc = "describing" =>
      \/ db.version = Latest
      \/ service[s].copy.rows = db.rows /\ service[s].copy.version <= db.version

\* An operator who restores has copied the very database it will replace.
RestoresKept ==
  operator.restores =>
    /\ operator.pc = "describing" => operator.copy = db
    /\ operator.pc = "replacing" => db.rows = {} \/ db \in Verified

BackupInv == MigratesKept /\ DescribesKept /\ RestoresKept

\* Nobody migrates, copies or restores at first.
LEMMA BackupInvInit == Init => BackupInv
BY DEF Init, BackupInv, MigratesKept, DescribesKept, RestoresKept, Down, Idle

\* No step takes a backup away.
LEMMA VerifiedGrows ==
  ASSUME TypeOK, Next
  PROVE  Verified \subseteq Verified'
<1>1. CASE \/ \E s \in Services : Copy(s) \/ Describe(s)
           \/ BackUp \/ BeginRestore \/ DescribeBackup
  <2>1. /\ \A s \in Services : service[s].copy \in Databases
        /\ operator.copy \in Databases /\ db \in Databases
    BY DEF TypeOK, Starting, Operating
  <2>2. \/ UNCHANGED backups
        \/ \E d \in Databases : Copied(d) \/ Described(d)
    BY <1>1, <2>1, Zenon DEF Copy, Describe, BackUp, BeginRestore, DescribeBackup
  <2> QED BY <2>2, BackupsType DEF Verified
<1>2. CASE UNCHANGED backups
  BY <1>2 DEF Verified
<1>3. ASSUME NEW s \in Services, Compare(s) PROVE UNCHANGED backups
  BY <1>3, CompareMoves
<1>4. ASSUME NEW s \in Services, Migrate(s) PROVE UNCHANGED backups
  BY <1>4, MigrateMoves
<1>5. ASSUME NEW s \in Services,
             Start(s) \/ ReadVersion(s) \/ MigrationsDone(s) \/ Write(s) \/ BackupFails(s)
               \/ MigrationFails(s) \/ Crash(s)
      PROVE  UNCHANGED backups
  BY <1>5 DEF Start, ReadVersion, MigrationsDone, Write, BackupFails, MigrationFails, Crash
<1>6. ASSUME StartServices \/ Replace \/ StopServices \/ OperatorDies
      PROVE  UNCHANGED backups
  BY <1>6 DEF StartServices, Replace, StopServices, OperatorDies
<1> QED
  BY <1>1, <1>2, <1>3, <1>4, <1>5, <1>6 DEF Next, StartStep, OperatorStep

\* While services run or start, the database only changes forward: rows are
\* only added on the latest version.
LEMMA ServiceForward ==
  ASSUME SchemaInv, NEW s \in Services,
         StartStep(s) \/ Write(s) \/ BackupFails(s) \/ MigrationFails(s) \/ Crash(s)
  PROVE  /\ db.version <= db'.version
         /\ db'.rows = db.rows \/ (db.version = Latest /\ db'.version = Latest)
         /\ db.rows \subseteq db'.rows
         /\ db' # db => ~stopped
         /\ UNCHANGED operator
<1>0. /\ db \in Databases /\ db.version \in Int /\ service[s] \in Starting
      /\ service[s].pc # "down" => ~stopped
  BY MigrationAssumption DEF SchemaInv, RestoresStopped, TypeOK, Databases
<1>1. CASE Migrate(s)
  BY <1>0, <1>1, MigrateMoves DEF SchemaInv
<1>2. CASE Write(s)
  BY <1>0, <1>2 DEF Write, SchemaInv, RunsAtLatest, Databases
<1>3. CASE Compare(s)
  BY <1>0, <1>3, CompareMoves DEF SchemaInv
<1>4. CASE \/ Start(s) \/ ReadVersion(s) \/ Copy(s) \/ Describe(s) \/ MigrationsDone(s)
           \/ BackupFails(s) \/ MigrationFails(s) \/ Crash(s)
  BY <1>0, <1>4
     DEF Start, ReadVersion, Copy, Describe, MigrationsDone, BackupFails, MigrationFails, Crash
<1> QED BY <1>1, <1>2, <1>3, <1>4 DEF StartStep

\* Where a service goes in one step: it comes to migrate an absent database or
\* one whose backup it has just described, and it describes a copy it has
\* just taken.
LEMMA ServiceMoves ==
  ASSUME TypeOK, NEW s \in Services,
         StartStep(s) \/ Write(s) \/ BackupFails(s) \/ MigrationFails(s) \/ Crash(s)
  PROVE  /\ \A t \in Services \ {s} : service'[t] = service[t]
         /\ service'[s].pc = "migrating" =>
              \/ service[s].pc = "migrating"
              \/ ~Present(db) /\ UNCHANGED db
              \/ service[s].pc = "describing" /\ service[s].copy \in Verified' /\ UNCHANGED db
         /\ service'[s].pc = "describing" => service'[s].copy = db /\ UNCHANGED db
<1> USE DEF TypeOK, Goes, Fails
<1>0. service[s] \in Starting /\ service \in [Services -> Starting]
  OBVIOUS
<1>1. CASE Start(s)
  BY <1>0, <1>1 DEF Start, Down
<1>2. CASE ReadVersion(s)
  BY <1>0, <1>2 DEF ReadVersion, Starting
<1>3. CASE Compare(s)
  BY <1>0, <1>3, CompareMoves
<1>4. CASE Copy(s)
  BY <1>0, <1>4 DEF Copy, Starting
<1>5. CASE Describe(s)
  <2>1. service[s].copy \in Verified'
    BY <1>0, <1>5, BackupsType DEF Describe, Starting
  <2> QED BY <1>0, <1>5, <2>1 DEF Describe, Starting
<1>6. CASE Migrate(s)
  BY <1>0, <1>6, MigrateMoves DEF Down, Starting
<1>7. CASE MigrationsDone(s)
  BY <1>0, <1>7 DEF MigrationsDone, Starting
<1>8. CASE Write(s)
  BY <1>0, <1>8 DEF Write
<1>9. CASE BackupFails(s) \/ MigrationFails(s) \/ Crash(s)
  BY <1>0, <1>9 DEF BackupFails, MigrationFails, Crash, Down
<1> QED
  BY <1>1, <1>2, <1>3, <1>4, <1>5, <1>6, <1>7, <1>8, <1>9 DEF StartStep

\* A service on its way to a migration keeps its backup good, whatever the
\* others migrate or write meanwhile.
LEMMA BackupService ==
  ASSUME SchemaInv, TypeOK', BackupInv, NEW s \in Services,
         StartStep(s) \/ Write(s) \/ BackupFails(s) \/ MigrationFails(s) \/ Crash(s)
  PROVE  BackupInv'
<1>0. /\ db \in Databases /\ db' \in Databases /\ db.version \in 0..Latest
      /\ db'.version \in 0..Latest /\ Latest \in Nat
  BY MigrationAssumption DEF SchemaInv, TypeOK, Databases
<1>1. Verified \subseteq Verified'
  BY VerifiedGrows DEF SchemaInv, Next
<1>2. /\ db.version <= db'.version
      /\ db'.rows = db.rows \/ (db.version = Latest /\ db'.version = Latest)
      /\ db' # db => ~stopped
      /\ UNCHANGED operator
  BY ServiceForward
<1>3. db.version = Latest => db'.version = Latest
  BY <1>0, <1>2
<1>4. KeptIn(db) /\ db'.rows = db.rows => KeptIn(db)'
  <2> SUFFICES ASSUME NEW c \in Verified, c.rows = db.rows, c.version <= db.version,
                      db'.rows = db.rows
               PROVE  KeptIn(db)'
    BY DEF KeptIn
  <2>1. c \in Verified' /\ c.version \in Int
    BY <1>0, <1>1 DEF SchemaInv, TypeOK, Verified, Databases
  <2> QED BY <1>0, <1>2, <2>1 DEF KeptIn
<1>5. MigratesKept'
  <2> SUFFICES ASSUME NEW t \in Services, service'[t].pc = "migrating"
               PROVE  db'.version = Latest \/ db'.rows = {} \/ KeptIn(db)'
    BY DEF MigratesKept
  <2>1. CASE service[t].pc = "migrating"
    BY <1>2, <1>3, <1>4, <2>1 DEF BackupInv, MigratesKept
  <2>2. CASE t = s /\ ~Present(db) /\ UNCHANGED db
    BY <2>2 DEF Present, NoDatabase
  <2>3. CASE /\ t = s /\ service[s].pc = "describing"
             /\ service[s].copy \in Verified' /\ UNCHANGED db
    BY <2>3 DEF BackupInv, DescribesKept, KeptIn
  <2> QED BY <2>1, <2>2, <2>3, ServiceMoves DEF SchemaInv
<1>6. DescribesKept'
  <2> SUFFICES ASSUME NEW t \in Services, service'[t].pc = "describing"
               PROVE  \/ db'.version = Latest
                      \/ /\ service'[t].copy.rows = db'.rows
                         /\ service'[t].copy.version <= db'.version
    BY DEF DescribesKept
  <2>1. CASE t = s
    BY <1>0, <2>1, ServiceMoves DEF SchemaInv
  <2>2. CASE t # s
    <3>1. service'[t] = service[t] /\ service[t].copy.version \in Int
      BY <2>2, ServiceMoves DEF SchemaInv, TypeOK, Starting, Databases
    <3> QED BY <1>0, <1>2, <1>3, <3>1 DEF BackupInv, DescribesKept
  <2> QED BY <2>1, <2>2
<1>7. RestoresKept'
  BY <1>1, <1>2 DEF SchemaInv, RestoresStopped, BackupInv, RestoresKept
<1> QED BY <1>5, <1>6, <1>7 DEF BackupInv

\* What the operator's step leaves of the services and the database.
LEMMA BackupOperator ==
  ASSUME SchemaInv, BackupInv,
         OperatorStep \/ StopServices \/ BackUp \/ BeginRestore \/ OperatorDies
  PROVE  BackupInv'
<1> USE DEF SchemaInv, BackupInv
<1>0. Verified \subseteq Verified' /\ operator \in Operating
  BY VerifiedGrows DEF Next, TypeOK
<1>1. CASE UNCHANGED <<service, db>>
  <2>1. MigratesKept' /\ DescribesKept'
    BY <1>0, <1>1 DEF MigratesKept, DescribesKept, KeptIn
  <2>2. RestoresKept'
    <3>1. CASE StartServices
      BY <1>0, <1>1, <3>1 DEF StartServices, RestoresKept
    <3>2. CASE BackUp
      BY <3>2 DEF BackUp, Idle, RestoresKept
    <3>3. CASE BeginRestore
      <4>1. ~Present(db) => db.rows = {}
        BY DEF Present, NoDatabase
      <4>2. operator'.copy = db /\ (operator'.pc = "replacing" => ~Present(db))
        BY <3>3 DEF BeginRestore, Idle
      <4> QED BY <1>1, <4>1, <4>2 DEF RestoresKept
    <3>4. CASE DescribeBackup
      <4>1. operator.copy \in Verified'
        BY <1>0, <3>4, BackupsType DEF DescribeBackup, Operating
      <4> QED BY <1>0, <1>1, <3>4, <4>1 DEF DescribeBackup, RestoresKept, Idle, Operating
    <3>5. CASE OperatorDies
      BY <3>5 DEF OperatorDies, Idle, RestoresKept
    <3>6. CASE StopServices
      BY <1>0, <1>1, <3>6 DEF StopServices, RestoresKept
    <3>7. CASE Replace
      BY <3>7 DEF Replace, Idle, RestoresKept
    <3> QED BY <3>1, <3>2, <3>3, <3>4, <3>5, <3>6, <3>7 DEF OperatorStep
  <2> QED BY <2>1, <2>2
<1>2. CASE StopServices
  BY <1>2 DEF StopServices, Down, MigratesKept, DescribesKept, RestoresKept, Verified
<1>3. CASE Replace
  BY <1>0, <1>3 DEF Replace, Idle, RestoresStopped, MigratesKept, DescribesKept, RestoresKept
<1>4. UNCHANGED <<service, db>> \/ StopServices \/ Replace
  BY DEF OperatorStep, StartServices, BackUp, BeginRestore, DescribeBackup, OperatorDies
<1> QED BY <1>1, <1>2, <1>3, <1>4

\* Every step keeps the backups that a migration or a restore under way relies
\* on.
LEMMA BackupInvStep ==
  ASSUME SchemaInv, BackupInv, [Next]_vars
  PROVE  BackupInv'
<1>1. CASE UNCHANGED vars
  BY <1>1 DEF vars, BackupInv, MigratesKept, DescribesKept, RestoresKept, KeptIn, Verified
<1>2. CASE \E s \in Services : StartStep(s) \/ Write(s) \/ BackupFails(s)
                                 \/ MigrationFails(s) \/ Crash(s)
  BY <1>2, BackupService, MigrationTypeStep DEF SchemaInv
<1>3. CASE OperatorStep \/ StopServices \/ BackUp \/ BeginRestore \/ OperatorDies
  BY <1>3, BackupOperator
<1> QED BY <1>1, <1>2, <1>3 DEF Next

\* A step that changes the version of a database with rows, or takes rows
\* from it, finds the backup that undoes it.
LEMMA ChangesRestorable ==
  ASSUME SchemaInv, BackupInv, Next
  PROVE  LET keeps == db.rows \subseteq db'.rows
         IN  db.rows # {} /\ (db'.version # db.version \/ ~keeps) =>
               \E d \in Verified : /\ d.rows = db.rows /\ d.version <= db.version
                                   /\ keeps \/ d = db
<1> SUFFICES ASSUME db.rows # {}, db'.version # db.version \/ ~(db.rows \subseteq db'.rows)
             PROVE  \E d \in Verified : /\ d.rows = db.rows /\ d.version <= db.version
                                        /\ db.rows \subseteq db'.rows \/ d = db
  OBVIOUS
<1>0. db.version \in Int /\ Latest \in Int /\ db.version <= Latest
  BY MigrationAssumption DEF SchemaInv, TypeOK, Databases
<1>1. ASSUME NEW s \in Services, Migrate(s)
      PROVE  KeptIn(db) /\ db.rows \subseteq db'.rows
  <2>1. service[s].pc = "migrating" /\ db'.rows = db.rows
    BY <1>1, MigrateMoves DEF SchemaInv
  <2>2. db.version < Latest
    BY <1>1, <2>1, MigrateMoves DEF SchemaInv
  <2> QED BY <1>0, <2>1, <2>2 DEF BackupInv, MigratesKept
<1>2. ASSUME NEW s \in Services, Write(s) PROVE FALSE
  BY <1>2 DEF Write, SchemaInv, TypeOK, Databases
<1>3. ASSUME Replace PROVE db \in Verified
  BY <1>3 DEF Replace, SchemaInv, RestoresStopped, BackupInv, RestoresKept
<1>4. ASSUME NEW s \in Services, Compare(s) PROVE FALSE
  BY <1>4, CompareMoves DEF SchemaInv
<1>5. ASSUME NEW s \in Services,
             \/ Start(s) \/ ReadVersion(s) \/ Copy(s) \/ Describe(s) \/ MigrationsDone(s)
             \/ BackupFails(s) \/ MigrationFails(s) \/ Crash(s)
      PROVE FALSE
  BY <1>5
     DEF Start, ReadVersion, Copy, Describe, MigrationsDone, BackupFails, MigrationFails, Crash
<1>6. ASSUME \/ StartServices \/ DescribeBackup \/ StopServices \/ BackUp
             \/ BeginRestore \/ OperatorDies
      PROVE FALSE
  BY <1>6 DEF StartServices, DescribeBackup, StopServices, BackUp, BeginRestore, OperatorDies
<1>7. CASE \E s \in Services : Migrate(s)
  BY <1>1, <1>7 DEF KeptIn
<1>8. CASE Replace
  BY <1>0, <1>3, <1>8
<1> QED
  BY <1>2, <1>4, <1>5, <1>6, <1>7, <1>8 DEF Next, StartStep, OperatorStep

\* Nothing is lost whatever dies in between: before a schema changes there is
\* a restorable backup of all the rows in a schema no newer, and before a
\* restore replaces a database there is one of that very database
\* (create_runtime_backup in _migrate and in restore_runtime_backup), however
\* many services start, migrate and write at the same time.
THEOREM EveryChangeIsRestorable == Spec => RestorableFirst
<1>1. Init => SchemaInv /\ BackupInv
  BY SchemaInvInit, BackupInvInit
<1>2. SchemaInv /\ BackupInv /\ [Next]_vars => SchemaInv' /\ BackupInv'
  BY SchemaInvStep, BackupInvStep
<1>3. SchemaInv /\ BackupInv /\ [Next]_vars =>
        [LET keeps == db.rows \subseteq db'.rows
         IN  db.rows # {} /\ (db'.version # db.version \/ ~keeps) =>
               \E d \in Verified : /\ d.rows = db.rows /\ d.version <= db.version
                                   /\ keeps \/ d = db]_vars
  BY ChangesRestorable
<1> QED BY <1>1, <1>2, <1>3, PTL DEF Spec, RestorableFirst

=============================================================================
