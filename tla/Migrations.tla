----------------------------- MODULE Migrations -----------------------------
(***************************************************************************)
(* The programs of an installation that open the database while packages   *)
(* are upgraded: pvs-monitor and pvs-backfill, which migrate its schema    *)
(* (Open), and pvs-api, which waits for the schema that it needs           *)
(* (OpenReadWrite; OpenReadOnly waits in the same way).                    *)
(*                                                                         *)
(* A transaction of migrate takes the write lock when it begins, and what  *)
(* it does is seen by others when it commits; its process can fail or be   *)
(* killed at any point of it.                                              *)
(*                                                                         *)
(* Simplifications: the 30 s that a migrator waits for the lock and the    *)
(* 20 s that pvs-api waits for the schema may end at any time; a program   *)
(* that has opened the database shows what it saves, as far as migrations  *)
(* are about it: what the current one saves of inverters and outages is    *)
(* the matter of DevicePoller; a save that finds the database locked or    *)
(* its table gone fails, and changes nothing.                              *)
(***************************************************************************)
EXTENDS Schema

CONSTANTS
  Monitor, Backfill,  \* the two programs that migrate
  Api,                \* the one that does not
  Free,               \* nobody has the write lock
  Packages,           \* the schema versions that the packages were built for
  Reported            \* the kinds of rows that devices report

Migrators == {Monitor, Backfill}
Programs  == Migrators \cup {Api}

\* The first package with pvs-backfill is the one that has its source column.
BackfillSince == 10

ASSUME MigrationsAssumption ==
  /\ Monitor # Backfill /\ Api \notin Migrators
  /\ Free \notin Programs
  /\ Packages \subseteq 1 .. Latest
  /\ Reported \subseteq InverterKinds \cup OtherKinds

VARIABLES
  version,  \* PRAGMA user_version
  db,       \* the rest of the database
  lock,     \* who is in a transaction that writes
  pc,       \* of each program: "off", "begin", "sql", "data", "commit", "wait", "open"
  built,    \* len(migrations) of the program that was started
  seen,     \* of each migrator: the version it read in its transaction
  work,     \* the database as that transaction sees it
  package,  \* the package that is installed
  clock,    \* the last moment a row was saved at
  \* not in the code: histories
  saved,    \* the rows that were saved, as they were reported
  applied,  \* how many times a migration was committed
  sole      \* no program but pvs-monitor has migrated

tx      == <<lock, seen, work>>
history == <<saved, applied, sole>>
vars    == <<version, db, lock, pc, built, seen, work, package, clock,
             saved, applied, sole>>

Reports == [ts : Moments, kind : InverterKinds \cup OtherKinds \cup {"reading"}]

TypeOK ==
  /\ version \in Versions
  /\ db \in Contents
  /\ lock \in Migrators \cup {Free}
  /\ pc \in [Programs -> {"off", "begin", "sql", "data", "commit", "wait", "open"}]
  /\ built \in [Programs -> Versions]
  /\ seen \in [Migrators -> Versions]
  /\ work \in [Migrators -> Contents]
  /\ package \in Packages
  /\ clock \in 0 .. MaxTime
  /\ saved \subseteq Reports
  /\ applied \in [1 .. Latest -> Nat]
  /\ sole \in BOOLEAN

\* A database is about to be created by the first package.
Init ==
  /\ version = 0
  /\ db = Empty
  /\ lock = Free
  /\ pc = [p \in Programs |-> "off"]
  /\ built = [p \in Programs |-> 0]
  /\ seen = [m \in Migrators |-> 0]
  /\ work = [m \in Migrators |-> Empty]
  /\ package \in Packages
  /\ clock = 0
  /\ saved = {}
  /\ applied = [i \in 1 .. Latest |-> 0]
  /\ sole = TRUE

-----------------------------------------------------------------------------
(* Programs come and go.                                                   *)

\* A newer package replaces the programs; the ones that run stay as they are.
Install ==
  /\ \E p \in Packages : p > package /\ package' = p
  /\ UNCHANGED <<version, db, tx, pc, built, clock, history>>

\* systemd, or for pvs-backfill the administrator, starts what is installed.
Start(p) ==
  /\ pc[p] = "off"
  /\ p = Backfill => package >= BackfillSince
  /\ built' = [built EXCEPT ![p] = package]
  /\ pc' = [pc EXCEPT ![p] = IF p = Api THEN "wait" ELSE "begin"]
  /\ UNCHANGED <<version, db, tx, package, clock, history>>

\* The transaction of m is over.
EndTx(m) ==
  /\ lock' = Free
  /\ seen' = [seen EXCEPT ![m] = 0]
  /\ work' = [work EXCEPT ![m] = Empty]

\* Mutant: the transaction is left behind.
LeakLock(p) == UNCHANGED tx

\* What a transaction has not committed is gone when it ends.
Rollback(p) ==
  IF lock = p THEN EndTx(p) ELSE UNCHANGED tx

\* The program fails, is killed, or has done its work.
Exit(p) ==
  /\ pc[p] # "off"
  /\ Rollback(p)
  /\ pc' = [pc EXCEPT ![p] = "off"]
  /\ built' = [built EXCEPT ![p] = 0]
  /\ UNCHANGED <<version, db, package, clock, history>>

-----------------------------------------------------------------------------
(* migrate.                                                                *)

\* Mutant: BEGIN is deferred, and takes no lock.
BeginDeferred(m) ==
  /\ pc[m] = "begin"
  /\ version < built[m]
  /\ UNCHANGED lock
  /\ seen' = [seen EXCEPT ![m] = version]
  /\ work' = [work EXCEPT ![m] = db]
  /\ pc' = [pc EXCEPT ![m] = "sql"]
  /\ UNCHANGED <<version, db, built, package, clock, history>>

\* BEGIN IMMEDIATE; the version that is read inside says that there is work.
Begin(m) ==
  /\ pc[m] = "begin"
  /\ lock = Free
  /\ version < built[m]
  /\ lock' = m
  /\ seen' = [seen EXCEPT ![m] = version]
  /\ work' = [work EXCEPT ![m] = db]
  /\ pc' = [pc EXCEPT ![m] = "sql"]
  /\ UNCHANGED <<version, db, built, package, clock, history>>

\* There is none, or none left: the transaction is rolled back.
UpToDate(m) ==
  /\ pc[m] = "begin"
  /\ lock = Free
  /\ version >= built[m]
  /\ pc' = [pc EXCEPT ![m] = "open"]
  /\ UNCHANGED <<version, db, tx, built, package, clock, history>>

\* The SQL of the migration; one that was applied already fails (Exit).
ExecSQL(m) ==
  /\ pc[m] = "sql"
  /\ Applicable(seen[m] + 1, work[m])
  /\ work' = [work EXCEPT ![m] = ApplySQL(seen[m] + 1, @)]
  /\ pc' = [pc EXCEPT ![m] = "data"]
  /\ UNCHANGED <<version, db, lock, built, seen, package, clock, history>>

\* Its function.
ExecData(m) ==
  /\ pc[m] = "data"
  /\ work' = [work EXCEPT ![m] = DataMigration(seen[m] + 1, @)]
  /\ pc' = [pc EXCEPT ![m] = "commit"]
  /\ UNCHANGED <<version, db, lock, built, seen, package, clock, history>>

\* Mutant: user_version is left to a later statement.
KeepVersion(m) == version

\* The version that a committed migration sets.
NextVersion(m) == seen[m] + 1

\* user_version is set and the transaction commits, then it is all over again.
Commit(m) ==
  /\ pc[m] = "commit"
  /\ version' = NextVersion(m)
  /\ db' = work[m]
  /\ EndTx(m)
  /\ pc' = [pc EXCEPT ![m] = "begin"]
  /\ applied' = [applied EXCEPT ![seen[m] + 1] = @ + 1]
  /\ sole' = (sole /\ m = Monitor)
  /\ UNCHANGED <<built, package, clock, saved>>

MigratorStep(m) == Begin(m) \/ UpToDate(m) \/ ExecSQL(m) \/ ExecData(m) \/ Commit(m)

-----------------------------------------------------------------------------
(* openNonMigrating.                                                       *)

\* Mutants: any schema will do; only the very schema will do.
AnySchema(v, want)  == v > 0
SameSchema(v, want) == v = want

Ready(v, want) == v >= want

\* An attempt finds the schema; one that does not is made again (no step), or
\* is the last one (Exit).
TryOpen ==
  /\ pc[Api] = "wait"
  /\ Ready(version, built[Api])
  /\ pc' = [pc EXCEPT ![Api] = "open"]
  /\ UNCHANGED <<version, db, tx, built, package, clock, history>>

-----------------------------------------------------------------------------
(* What pvs-monitor saves.                                                 *)

\* Mutant: nobody else's transaction is in the way.
Unlocked(l) == TRUE

\* A statement that writes needs the lock for itself.
Writable(l) == l = Free

\* A row of this kind is saved at the next moment.
Save(kind) ==
  /\ pc[Monitor] = "open"
  /\ Writable(lock)
  /\ clock < MaxTime
  /\ clock' = clock + 1
  /\ saved' = saved \cup {[ts |-> clock', kind |-> kind]}
  /\ UNCHANGED <<version, tx, pc, built, package, applied, sole>>

\* SaveReading: with the rollups, once the program knows of them.
SaveReading ==
  /\ Save("reading")
  /\ db' = [db EXCEPT !.readings = @ \cup {clock'},
                      !.rolled = IF built[Monitor] >= 5 THEN @ \cup {clock'} ELSE @]

\* What the programs of migration 1 did.
SaveRaw(kind) ==
  /\ built[Monitor] = 1
  /\ "device_readings" \in db.tables
  /\ Save(kind)
  /\ db' = [db EXCEPT !.raw = @ \cup {[ts |-> clock', kind |-> kind]}]

\* What the programs of migrations 2 and 3 did with an inverter.
SaveInverter(kind) ==
  /\ built[Monitor] \in {2, 3}
  /\ Save(kind)
  /\ db' = [db EXCEPT !.inv = @ \cup {[ts |-> clock', state |-> kind]}]

\* And those of migration 2 with another device.
SaveTyped(kind) ==
  /\ built[Monitor] = 2
  /\ "pvs_readings" \in db.tables
  /\ Save(kind)
  /\ db' = [db EXCEPT !.typed = @ \cup {[ts |-> clock', device |-> kind]}]

\* SaveDevices, from migration 3 on.
SaveAux(kind) ==
  /\ built[Monitor] >= 3
  /\ Save(kind)
  /\ db' = [db EXCEPT !.aux = @ \cup {[ts |-> clock', device |-> kind]}]

Saves ==
  \/ SaveReading
  \/ \E kind \in Reported : SaveRaw(kind)
  \/ \E kind \in Reported \cap {"working", "error"} : SaveInverter(kind)
  \/ \E kind \in Reported \cap OtherKinds : SaveTyped(kind) \/ SaveAux(kind)

Next ==
  \/ Install
  \/ \E p \in Programs : Start(p) \/ Exit(p)
  \/ \E m \in Migrators : MigratorStep(m)
  \/ TryOpen
  \/ Saves

Spec == Init /\ [][Next]_vars

\* systemd starts the daemons again; a transaction that is not cut short gets to
\* its end; a migrator that tries for the lock again and again gets it, and an
\* attempt to open is made again and again.
Fairness ==
  /\ \A p \in {Monitor, Api} : WF_vars(Start(p))
  /\ \A m \in Migrators : /\ SF_vars(Begin(m)) /\ SF_vars(UpToDate(m))
                          /\ WF_vars(ExecSQL(m)) /\ WF_vars(ExecData(m))
                          /\ WF_vars(Commit(m))
  /\ SF_vars(TryOpen)

FairSpec == Spec /\ Fairness

-----------------------------------------------------------------------------
(* Safety.                                                                 *)

\* Each migration up to the version has been committed exactly once, and none
\* after it, by whichever programs, however many of them failed half way
\* (migrate).
AppliedOnce ==
  \A i \in 1 .. Latest : applied[i] = IF i <= version THEN 1 ELSE 0

\* No migrator is about to create what another one has created meanwhile: "none
\* may fail with a duplicate-migration error"
\* (TestConcurrentOpenMigratesWithoutRace).
NoDuplicateMigration ==
  \A m \in Migrators : pc[m] = "sql" => Applicable(seen[m] + 1, db)

\* Nothing runs on a schema older than the one it was built for, whatever is
\* installed, started and killed meanwhile (Open, openNonMigrating).
ServesReadySchema ==
  \A p \in Programs : pc[p] = "open" => version >= built[p]

\* What a device reported is somewhere in the database.
Kept(s) ==
  /\ s.kind = "reading" => s.ts \in db.readings
  /\ s.kind \in InverterKinds \ {"garbled"} =>
       \/ s \in db.raw
       \/ [ts |-> s.ts, state |-> InverterState(s.kind)] \in db.inv
  /\ s.kind \in OtherKinds =>
       \/ s \in db.raw
       \/ \E r \in db.typed \cup db.aux : r.ts = s.ts

\* No row is lost on its way through the tables, except inverter rows that do
\* not parse, also when an upgrade is cut short or overtaken by another program
\* (migrateV2, migrateV3).
NothingLost == \A s \in saved : Kept(s)

\* As long as pvs-monitor is the one that migrates, what is computed from the
\* rows is computed from all of them: no older program goes on saving rows
\* behind the back of migrations 4 and 5.  Then every error row is in an outage
\* and no working row is in one, and the rollups have every reading (migrateV4,
\* migrateV5).  Of the unreachable rows nothing is said: the comment on migrateV4
\* has an outage end at a working row, its code at any that is not an error.
InOutage(t) ==
  \E o \in db.outages :
    o.error_at <= t /\ (o.healthy_at = Ongoing \/ t < o.healthy_at)

ComputedFromAll ==
  sole =>
    /\ version >= 4 => \A r \in db.inv :
         /\ r.state = "error" => InOutage(r.ts)
         /\ r.state = "working" => ~InOutage(r.ts)
    /\ version >= 5 => db.rolled = db.readings

\* pvs-monitor is the sole migrator: the comments on OpenReadOnly and
\* OpenReadWrite.
SoleMigrator == [][version' # version => pc[Monitor] = "commit"]_vars

-----------------------------------------------------------------------------
(* Refinement.                                                             *)

Upgrade == INSTANCE SchemaUpgrade

\* The programs, their transactions and failures do not show in the database:
\* it goes from version to version with all its rows, at once (migrate).
ImplementsUpgrade == Upgrade!Spec

-----------------------------------------------------------------------------
(* Liveness.                                                               *)

\* If from some time on pvs-monitor does not fail any more, then it has opened
\* the database for good, whoever else tries to migrate it and fails half way
\* (beginImmediate).
UpgradeCompletes ==
  <>[](pc[Monitor] # "off") => <>[](pc[Monitor] = "open")

\* And then pvs-api comes up however often it fails, provided that it is not of
\* a newer package; it may have given up before (openNonMigrating).
ApiComesUp ==
  <>[](pc[Monitor] # "off" /\ built[Monitor] >= built[Api]) => []<>(pc[Api] = "open")
=============================================================================
