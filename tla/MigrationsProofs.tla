-------------------------- MODULE MigrationsProofs --------------------------
(***************************************************************************)
(* Proofs about Migrations, for any packages, rows and number of failures. *)
(*                                                                         *)
(* The inductive invariant says what the write lock is for: between the    *)
(* BEGIN and the COMMIT of a migrator the version it has read is still the *)
(* version of the database, and what it works on is that database with the *)
(* part of the next migration that it has executed.                        *)
(***************************************************************************)
EXTENDS Migrations, SetLemmas

-----------------------------------------------------------------------------
(* Each migration makes the schema of its version of the one before.       *)

LEMMA CreatedType ==
  /\ \A t \in Tables : Created[t] \in 1 .. 11
  /\ DOMAIN Dropped \subseteq Tables
  /\ \A t \in DOMAIN Dropped : Dropped[t] \in {2, 3, 7} /\ Created[t] < Dropped[t]
BY DEF Tables, Created, Dropped

LEMMA CreatesNew ==
  ASSUME NEW v \in 0 .. 10
  PROVE  TablesAt(v) \cap Creates(v + 1) = {}
BY CreatedType DEF TablesAt, Creates

LEMMA TablesNext ==
  ASSUME NEW v \in 0 .. 10
  PROVE  TablesAt(v + 1) = (TablesAt(v) \cup Creates(v + 1)) \ Drops(v + 1)
BY CreatedType DEF TablesAt, Creates, Drops

LEMMA DropsOnly ==
  ASSUME NEW i \in 1 .. 11, i \notin {2, 3, 7}
  PROVE  Drops(i) = {}
BY CreatedType DEF Drops

LEMMA TablesAtType == ASSUME NEW v PROVE TablesAt(v) \subseteq Tables
BY DEF TablesAt

LEMMA CreatesType == ASSUME NEW i PROVE Creates(i) \subseteq Tables
BY DEF Creates

LEMMA SQLType ==
  ASSUME NEW i \in 1 .. 11, NEW c \in Contents
  PROVE  ApplySQL(i, c) \in Contents
BY CreatesType DEF ApplySQL, Contents

LEMMA V2Type == ASSUME NEW c \in Contents PROVE migrateV2(c) \in Contents
<1>1. \A r \in c.raw : r.kind \in InverterKinds \ {"garbled"} =>
        [ts |-> r.ts, state |-> InverterState(r.kind)] \in InvRows
  BY DEF Contents, RawRows, InvRows, States, InverterKinds, OtherKinds, InverterState
<1>2. \A r \in c.raw : [ts |-> r.ts, device |-> "PVS"] \in OtherRows
  BY DEF Contents, RawRows, OtherRows, OtherKinds
<1> QED BY <1>1, <1>2 DEF migrateV2, Contents

LEMMA V4Type == ASSUME NEW c \in Contents PROVE migrateV4(c) \in Contents
<1>1. OutagesOf(c.inv) \subseteq Outages BY DEF OutagesOf
<1> QED BY <1>1 DEF migrateV4, Contents

LEMMA DataType ==
  ASSUME NEW i \in 1 .. 11, NEW c \in Contents
  PROVE  DataMigration(i, c) \in Contents
<1>1. migrateV3(c) \in Contents BY DEF migrateV3, Contents
<1>2. migrateV5(c) \in Contents BY DEF migrateV5, Contents
<1>3. /\ i = 2 => DataMigration(i, c) = migrateV2(c)
      /\ i = 3 => DataMigration(i, c) = migrateV3(c)
      /\ i = 4 => DataMigration(i, c) = migrateV4(c)
      /\ i = 5 => DataMigration(i, c) = migrateV5(c)
      /\ i \notin {2, 3, 4, 5} => DataMigration(i, c) = c
  BY DEF DataMigration
<1> QED BY <1>1, <1>2, <1>3, V2Type, V4Type

LEMMA MigratedType ==
  ASSUME NEW i \in 1 .. 11, NEW c \in Contents
  PROVE  Migrated(i, c) \in Contents
BY SQLType, DataType DEF Migrated

\* The function of a migration drops what its SQL does not.
LEMMA DataTables ==
  ASSUME NEW i \in 1 .. 11, NEW c \in Contents
  PROVE  DataMigration(i, c).tables = c.tables \ (IF i \in {2, 3} THEN Drops(i) ELSE {})
<1>1. migrateV2(c).tables = c.tables \ Drops(2) BY DEF migrateV2, Contents
<1>2. migrateV3(c).tables = c.tables \ Drops(3) BY DEF migrateV3, Contents
<1>3. migrateV4(c).tables = c.tables BY DEF migrateV4, Contents
<1>4. migrateV5(c).tables = c.tables BY DEF migrateV5, Contents
<1> QED BY <1>1, <1>2, <1>3, <1>4 DEF DataMigration

LEMMA MigratedTables ==
  ASSUME NEW v \in 0 .. 10, NEW c \in Contents, c.tables = TablesAt(v)
  PROVE  Migrated(v + 1, c).tables = TablesAt(v + 1)
<1> DEFINE i == v + 1
           s == ApplySQL(i, c)
<1>1. i \in 1 .. 11 OBVIOUS
<1>2. s \in Contents BY <1>1, SQLType
<1>3. s.tables = (TablesAt(v) \cup Creates(i)) \ (IF i = 7 THEN Drops(i) ELSE {})
  BY DEF ApplySQL, Contents
<1>4. Migrated(i, c).tables = s.tables \ (IF i \in {2, 3} THEN Drops(i) ELSE {})
  BY <1>1, <1>2, DataTables DEF Migrated
<1>5. TablesAt(i) = (TablesAt(v) \cup Creates(i)) \ Drops(i) BY TablesNext
<1>6. i \notin {2, 3, 7} => Drops(i) = {} BY <1>1, DropsOnly
<1> HIDE DEF i, s
<1>7. Migrated(i, c).tables = TablesAt(i)
  <2>1. i \in {2, 3} => Migrated(i, c).tables = TablesAt(i) BY <1>3, <1>4, <1>5
  <2>2. i = 7 => Migrated(i, c).tables = TablesAt(i) BY <1>3, <1>4, <1>5
  <2>3. i \notin {2, 3, 7} => Migrated(i, c).tables = TablesAt(i)
    BY <1>3, <1>4, <1>5, <1>6
  <2> QED BY <2>1, <2>2, <2>3
<1> QED BY <1>7 DEF i

-----------------------------------------------------------------------------
(* The invariant.                                                          *)

InTx(m) == pc[m] \in {"sql", "data", "commit"}

TxInv ==
  /\ pc[Api] \in {"off", "wait", "open"}
  /\ \A m \in Migrators :
       /\ lock = m <=> InTx(m)
       /\ InTx(m) => seen[m] = version /\ version < built[m]
       /\ pc[m] = "sql"    => work[m] = db
       /\ pc[m] = "data"   => work[m] = ApplySQL(version + 1, db)
       /\ pc[m] = "commit" => work[m] = Migrated(version + 1, db)

SchemaInv == db.tables = TablesAt(version)

Inv == TypeOK /\ TxInv /\ SchemaInv /\ ServesReadySchema /\ AppliedOnce

LEMMA InitInv == Init => Inv
<1> SUFFICES ASSUME Init PROVE Inv OBVIOUS
<1> USE MigrationsAssumption DEF Init
<1>1. Empty \in Contents BY DEF Empty, Contents
<1>2. TypeOK BY <1>1, SchemaAssumption DEF TypeOK, Versions, Latest, Programs
<1>3. TxInv BY DEF TxInv, InTx, Programs, Migrators
<1>4. SchemaInv BY CreatedType DEF SchemaInv, TablesAt, Empty
<1>5. ServesReadySchema BY DEF ServesReadySchema
<1>6. AppliedOnce BY DEF AppliedOnce, Latest
<1> QED BY <1>2, <1>3, <1>4, <1>5, <1>6 DEF Inv

\* The steps of programs that come and go.
LEMMA InstallInv == Inv /\ Install => Inv'
BY DEF Inv, Install, TypeOK, TxInv, InTx, SchemaInv, ServesReadySchema, AppliedOnce,
       tx, history

LEMMA StartInv == ASSUME Inv, NEW p \in Programs, Start(p) PROVE Inv'
<1> USE MigrationsAssumption DEF Start, tx, history
<1>1. package \in Versions BY DEF Inv, TypeOK, Versions, Latest
<1>2. TypeOK' BY <1>1 DEF Inv, TypeOK
<1>3. TxInv' BY DEF Inv, TypeOK, TxInv, InTx, Programs, Migrators
<1>4. ServesReadySchema' BY DEF Inv, TypeOK, ServesReadySchema
<1>5. SchemaInv' /\ AppliedOnce' BY DEF Inv, SchemaInv, AppliedOnce
<1> QED BY <1>2, <1>3, <1>4, <1>5 DEF Inv

LEMMA EmptyType == Empty \in Contents
BY DEF Empty, Contents

LEMMA ExitInv == ASSUME Inv, NEW p \in Programs, Exit(p) PROVE Inv'
<1> USE MigrationsAssumption DEF Exit, Rollback, EndTx, tx, history
<1>1. TypeOK' BY EmptyType DEF Inv, TypeOK, Versions, Latest
<1>2. TxInv'
  <2>1. pc'[Api] \in {"off", "wait", "open"} BY DEF Inv, TypeOK, TxInv, Programs
  <2>2. ASSUME NEW m \in Migrators, m # p
        PROVE  /\ pc'[m] = pc[m] /\ built'[m] = built[m]
               /\ seen'[m] = seen[m] /\ work'[m] = work[m]
               /\ lock' = m <=> lock = m
    BY <2>2 DEF Inv, TypeOK, Programs, Migrators
  <2>3. ASSUME NEW m \in Migrators, m = p
        PROVE  pc'[m] = "off" /\ lock' # m
    BY <2>3 DEF Inv, TypeOK, Programs, Migrators
  <2> QED BY <2>1, <2>2, <2>3 DEF Inv, TxInv, InTx
<1>3. ServesReadySchema' BY DEF Inv, TypeOK, ServesReadySchema
<1>4. SchemaInv' /\ AppliedOnce' BY DEF Inv, SchemaInv, AppliedOnce
<1> QED BY <1>1, <1>2, <1>3, <1>4 DEF Inv

-----------------------------------------------------------------------------
(* The steps of migrate.                                                   *)

\* The types that the steps within a transaction rely on.
LEMMA TxFacts ==
  ASSUME Inv, NEW m \in Migrators
  PROVE  /\ m \in Programs /\ m # Api /\ m # Free
         /\ pc \in [Programs -> {"off", "begin", "sql", "data", "commit", "wait", "open"}]
         /\ built[m] \in 0 .. 11 /\ version \in 0 .. 11
         /\ seen \in [Migrators -> 0 .. 11] /\ work \in [Migrators -> Contents]
         /\ InTx(m) => version \in 0 .. 10 /\ seen[m] = version
         /\ \A k \in Migrators : InTx(m) /\ k # m => ~InTx(k)
BY MigrationsAssumption DEF Inv, TypeOK, TxInv, InTx, Programs, Versions, Latest, Migrators

LEMMA BeginInv == ASSUME Inv, NEW m \in Migrators, Begin(m) PROVE Inv'
<1> USE TxFacts DEF Begin, history
<1>1. TypeOK' BY DEF Inv, TypeOK
<1>2. TxInv'
  <2>1. \A k \in Migrators : k # m => ~InTx(k) BY DEF Inv, TxInv, TypeOK
  <2>2. pc'[m] = "sql" /\ seen'[m] = version /\ work'[m] = db BY DEF Inv, TypeOK
  <2>3. \A k \in Migrators : k # m => pc'[k] = pc[k] BY DEF Inv, TypeOK
  <2>4. pc'[Api] = pc[Api] BY DEF Inv, TypeOK
  <2> QED BY <2>1, <2>2, <2>3, <2>4 DEF Inv, TxInv, InTx
<1>3. ServesReadySchema' BY DEF Inv, TypeOK, ServesReadySchema
<1>4. SchemaInv' /\ AppliedOnce' BY DEF Inv, SchemaInv, AppliedOnce
<1> QED BY <1>1, <1>2, <1>3, <1>4 DEF Inv

LEMMA UpToDateInv == ASSUME Inv, NEW m \in Migrators, UpToDate(m) PROVE Inv'
<1> USE TxFacts DEF UpToDate, history, tx
<1>1. TypeOK' BY DEF Inv, TypeOK
<1>2. TxInv' BY DEF Inv, TypeOK, TxInv, InTx
<1>3. ServesReadySchema' BY DEF Inv, TypeOK, ServesReadySchema
<1>4. SchemaInv' /\ AppliedOnce' BY DEF Inv, SchemaInv, AppliedOnce
<1> QED BY <1>1, <1>2, <1>3, <1>4 DEF Inv

LEMMA ExecSQLInv == ASSUME Inv, NEW m \in Migrators, ExecSQL(m) PROVE Inv'
<1> USE TxFacts DEF ExecSQL, history
<1>0. version \in 0 .. 10 /\ seen[m] = version BY DEF InTx
<1>1. ApplySQL(seen[m] + 1, work[m]) \in Contents BY <1>0, SQLType
<1>2. TypeOK' BY <1>1 DEF Inv, TypeOK
<1>3. TxInv'
  <2>1. pc'[m] = "data" /\ work'[m] = ApplySQL(version + 1, db)
    BY <1>0 DEF Inv, TxInv, TypeOK
  <2>2. \A k \in Migrators : k # m => pc'[k] = pc[k] /\ work'[k] = work[k]
    BY DEF Inv, TypeOK
  <2>3. pc'[Api] = pc[Api] BY DEF Inv, TypeOK
  <2> QED BY <2>1, <2>2, <2>3 DEF Inv, TxInv, InTx
<1>4. ServesReadySchema' BY DEF Inv, TypeOK, ServesReadySchema
<1>5. SchemaInv' /\ AppliedOnce' BY DEF Inv, SchemaInv, AppliedOnce
<1> QED BY <1>2, <1>3, <1>4, <1>5 DEF Inv

LEMMA ExecDataInv == ASSUME Inv, NEW m \in Migrators, ExecData(m) PROVE Inv'
<1> USE TxFacts DEF ExecData, history
<1>0. version \in 0 .. 10 /\ seen[m] = version BY DEF InTx
<1>1. DataMigration(seen[m] + 1, work[m]) \in Contents BY <1>0, DataType
<1>2. TypeOK' BY <1>1 DEF Inv, TypeOK
<1>3. TxInv'
  <2>1. pc'[m] = "commit" /\ work'[m] = Migrated(version + 1, db)
    BY <1>0 DEF Inv, TxInv, TypeOK, Migrated
  <2>2. \A k \in Migrators : k # m => pc'[k] = pc[k] /\ work'[k] = work[k]
    BY DEF Inv, TypeOK
  <2>3. pc'[Api] = pc[Api] BY DEF Inv, TypeOK
  <2> QED BY <2>1, <2>2, <2>3 DEF Inv, TxInv, InTx
<1>4. ServesReadySchema' BY DEF Inv, TypeOK, ServesReadySchema
<1>5. SchemaInv' /\ AppliedOnce' BY DEF Inv, SchemaInv, AppliedOnce
<1> QED BY <1>2, <1>3, <1>4, <1>5 DEF Inv

\* What a commit does to the database.
LEMMA CommitStep ==
  ASSUME Inv, NEW m \in Migrators, Commit(m)
  PROVE  /\ version \in 0 .. 10 /\ seen[m] = version
         /\ version' = version + 1
         /\ db' = Migrated(version + 1, db)
BY TxFacts DEF Inv, TxInv, InTx, Commit, NextVersion

LEMMA CommitInv == ASSUME Inv, NEW m \in Migrators, Commit(m) PROVE Inv'
<1> USE TxFacts, CommitStep DEF EndTx
<1>1. db' \in Contents BY MigratedType DEF Inv, TypeOK
<1>2. TypeOK'
  <2>1. version' \in Versions BY DEF Versions, Latest
  <2>2. /\ lock' \in Migrators \cup {Free} /\ sole' \in BOOLEAN
        /\ work' \in [Migrators -> Contents]
        /\ pc' \in [Programs -> {"off", "begin", "sql", "data", "commit", "wait", "open"}]
    BY EmptyType DEF Inv, TypeOK, Commit
  <2>3. seen' \in [Migrators -> Versions]
    <3>1. 0 \in Versions BY DEF Versions, Latest
    <3>2. seen' = [seen EXCEPT ![m] = 0] BY DEF Commit
    <3> QED BY <3>1, <3>2 DEF Inv, TypeOK
  <2>4. applied' \in [1 .. Latest -> Nat]
    <3>1. applied \in [1 .. Latest -> Nat] BY DEF Inv, TypeOK
    <3>2. applied' = [applied EXCEPT ![version + 1] = applied[version + 1] + 1]
      BY DEF Commit
    <3>3. applied[version + 1] + 1 \in Nat BY <3>1 DEF Latest
    <3> QED BY <3>1, <3>2, <3>3
  <2>5. UNCHANGED <<built, package, clock, saved>> BY DEF Commit
  <2> QED BY <1>1, <2>1, <2>2, <2>3, <2>4, <2>5 DEF Inv, TypeOK
<1>3. TxInv'
  <2>1. pc'[m] = "begin" /\ lock' = Free BY DEF Inv, TypeOK, Commit
  <2>2. \A k \in Migrators : k # m => pc'[k] = pc[k] /\ ~InTx(k)
    BY DEF Inv, TypeOK, Commit, InTx
  <2>3. pc'[Api] = pc[Api] BY DEF Inv, TypeOK, Commit
  <2> QED BY <2>1, <2>2, <2>3 DEF Inv, TxInv, InTx
<1>4. ServesReadySchema'
  <2> SUFFICES ASSUME NEW p \in Programs, pc'[p] = "open"
               PROVE  version' >= built'[p]
    BY DEF ServesReadySchema
  <2>1. pc[p] = "open" /\ built'[p] = built[p] BY DEF Inv, TypeOK, Commit
  <2> QED BY <2>1 DEF Inv, TypeOK, ServesReadySchema, Versions, Latest
<1>5. SchemaInv' BY MigratedTables DEF Inv, SchemaInv, TypeOK
<1>6. AppliedOnce'
  <2> SUFFICES ASSUME NEW i \in 1 .. Latest
               PROVE  applied'[i] = IF i <= version' THEN 1 ELSE 0
    BY DEF AppliedOnce
  <2>1. applied'[i] = IF i = version + 1 THEN applied[i] + 1 ELSE applied[i]
    BY DEF Inv, TypeOK, Commit, Latest
  <2>2. applied[i] = IF i <= version THEN 1 ELSE 0 BY DEF Inv, AppliedOnce
  <2> QED BY <2>1, <2>2 DEF Latest
<1> QED BY <1>2, <1>3, <1>4, <1>5, <1>6 DEF Inv

-----------------------------------------------------------------------------
(* Saves, and every step.                                                  *)

\* A save finds no transaction, and adds rows of the moment after the clock.
LEMMA SaveFacts ==
  ASSUME Inv, NEW kind \in InverterKinds \cup OtherKinds \cup {"reading"}, Save(kind)
  PROVE  /\ clock' \in Moments
         /\ saved' = saved \cup {[ts |-> clock', kind |-> kind]}
         /\ saved' \subseteq Reports
         /\ \A m \in Migrators : ~InTx(m)
         /\ UNCHANGED <<version, lock, seen, work, pc, built, package, applied, sole>>
<1>1. clock' \in Moments /\ saved' = saved \cup {[ts |-> clock', kind |-> kind]}
  BY SchemaAssumption DEF Save, Inv, TypeOK, Moments
<1>2. saved' \subseteq Reports BY <1>1 DEF Inv, TypeOK, Reports
<1>3. \A m \in Migrators : ~InTx(m) BY TxFacts DEF Save, Writable, Inv, TxInv
<1> QED BY <1>1, <1>2, <1>3 DEF Save, tx

\* What a save does to the database: rows are added, and tables are not.
Grows(old, new) ==
  /\ new \in Contents
  /\ new.tables = old.tables
  /\ old.raw \subseteq new.raw /\ old.inv \subseteq new.inv
  /\ old.typed \subseteq new.typed /\ old.aux \subseteq new.aux
  /\ old.readings \subseteq new.readings /\ old.rolled \subseteq new.rolled
  /\ new.outages = old.outages

LEMMA SavesStep ==
  ASSUME Inv, Saves
  PROVE  \E kind \in InverterKinds \cup OtherKinds \cup {"reading"} :
           Save(kind) /\ Grows(db, db')
<1> USE MigrationsAssumption DEF Grows
<1>1. db \in Contents BY DEF Inv, TypeOK
<1>2. CASE SaveReading
  <2>1. Save("reading") /\ clock' \in Moments BY <1>2, SaveFacts DEF SaveReading
  <2>2. Grows(db, db') BY <1>1, <1>2, <2>1 DEF SaveReading, Contents
  <2> QED BY <2>1, <2>2
<1>3. ASSUME NEW kind \in Reported, SaveRaw(kind)
      PROVE  Save(kind) /\ Grows(db, db')
  <2>1. Save(kind) /\ clock' \in Moments BY <1>3, SaveFacts DEF SaveRaw
  <2>2. [ts |-> clock', kind |-> kind] \in RawRows BY <2>1 DEF RawRows
  <2> QED BY <1>1, <1>3, <2>1, <2>2 DEF SaveRaw, Contents
<1>4. ASSUME NEW kind \in Reported \cap {"working", "error"}, SaveInverter(kind)
      PROVE  Save(kind) /\ Grows(db, db')
  <2>1. Save(kind) /\ clock' \in Moments BY <1>4, SaveFacts DEF SaveInverter
  <2>2. [ts |-> clock', state |-> kind] \in InvRows BY <2>1 DEF InvRows, States
  <2> QED BY <1>1, <1>4, <2>1, <2>2 DEF SaveInverter, Contents
<1>5. ASSUME NEW kind \in Reported \cap OtherKinds, SaveTyped(kind)
      PROVE  Save(kind) /\ Grows(db, db')
  <2>1. Save(kind) /\ clock' \in Moments BY <1>5, SaveFacts DEF SaveTyped
  <2>2. [ts |-> clock', device |-> kind] \in OtherRows BY <2>1 DEF OtherRows
  <2> QED BY <1>1, <1>5, <2>1, <2>2 DEF SaveTyped, Contents
<1>6. ASSUME NEW kind \in Reported \cap OtherKinds, SaveAux(kind)
      PROVE  Save(kind) /\ Grows(db, db')
  <2>1. Save(kind) /\ clock' \in Moments BY <1>6, SaveFacts DEF SaveAux
  <2>2. [ts |-> clock', device |-> kind] \in OtherRows BY <2>1 DEF OtherRows
  <2> QED BY <1>1, <1>6, <2>1, <2>2 DEF SaveAux, Contents
<1> QED BY <1>2, <1>3, <1>4, <1>5, <1>6 DEF Saves

LEMMA SavesInv == Inv /\ Saves => Inv'
<1> SUFFICES ASSUME Inv, Saves PROVE Inv' OBVIOUS
<1>1. PICK kind \in InverterKinds \cup OtherKinds \cup {"reading"} :
        Save(kind) /\ Grows(db, db')
  BY SavesStep
<1> USE <1>1, SaveFacts
<1>2. TypeOK' BY DEF Inv, TypeOK, Grows, Moments
<1>3. TxInv' BY DEF Inv, TxInv, InTx
<1>4. ServesReadySchema' BY DEF Inv, ServesReadySchema
<1>5. SchemaInv' BY DEF Inv, SchemaInv, Grows
<1>6. AppliedOnce' BY DEF Inv, AppliedOnce
<1> QED BY <1>2, <1>3, <1>4, <1>5, <1>6 DEF Inv

LEMMA TryOpenInv == Inv /\ TryOpen => Inv'
<1> SUFFICES ASSUME Inv, TryOpen PROVE Inv' OBVIOUS
<1> USE MigrationsAssumption DEF TryOpen, history, tx
<1>1. TypeOK' BY DEF Inv, TypeOK
<1>2. TxInv'
  <2>1. \A m \in Migrators : pc'[m] = pc[m] BY TxFacts DEF Inv, TypeOK
  <2>2. pc'[Api] = "open" BY DEF Inv, TypeOK, Programs
  <2> QED BY <2>1, <2>2 DEF Inv, TxInv, InTx
<1>3. ServesReadySchema' BY DEF Inv, TypeOK, ServesReadySchema, Ready
<1>4. SchemaInv' /\ AppliedOnce' BY DEF Inv, SchemaInv, AppliedOnce
<1> QED BY <1>1, <1>2, <1>3, <1>4 DEF Inv

LEMMA NextInv == Inv /\ [Next]_vars => Inv'
<1> SUFFICES ASSUME Inv, [Next]_vars PROVE Inv' OBVIOUS
<1>1. CASE Install BY <1>1, InstallInv
<1>2. ASSUME NEW p \in Programs, Start(p) \/ Exit(p) PROVE Inv'
  BY <1>2, StartInv, ExitInv
<1>3. ASSUME NEW m \in Migrators, MigratorStep(m) PROVE Inv'
  BY <1>3, BeginInv, UpToDateInv, ExecSQLInv, ExecDataInv, CommitInv DEF MigratorStep
<1>4. CASE TryOpen BY <1>4, TryOpenInv
<1>5. CASE Saves BY <1>5, SavesInv
<1>6. CASE UNCHANGED vars
  BY <1>6 DEF vars, Inv, TypeOK, TxInv, InTx, SchemaInv, ServesReadySchema, AppliedOnce
<1> QED BY <1>1, <1>2, <1>3, <1>4, <1>5, <1>6 DEF Next

LEMMA InvHolds == Spec => []Inv
BY InitInv, NextInv, PTL DEF Spec

-----------------------------------------------------------------------------
(* What follows.                                                           *)

\* Every variable keeps its type, the rows of the database and of every
\* transaction in particular (migrateV2 .. migrateV5, SaveReading, SaveDevices).
THEOREM TypeCorrect == Spec => []TypeOK
<1>1. Inv => TypeOK BY DEF Inv
<1> QED BY <1>1, InvHolds, PTL

\* Each migration is committed exactly once, whoever commits it and however many
\* transactions were cut short before (migrate).
THEOREM MigratedExactlyOnce == Spec => []AppliedOnce
<1>1. Inv => AppliedOnce BY DEF Inv
<1> QED BY <1>1, InvHolds, PTL

\* No program that has opened the database is newer than its schema (Open,
\* openNonMigrating).
THEOREM SchemaIsReady == Spec => []ServesReadySchema
<1>1. Inv => ServesReadySchema BY DEF Inv
<1> QED BY <1>1, InvHolds, PTL

\* No migrator meets what its migration creates (migrate): the tables are those
\* of the version, which cannot change while it has the lock.
THEOREM NoDuplicates == Spec => []NoDuplicateMigration
<1>1. Inv => NoDuplicateMigration
  <2> SUFFICES ASSUME Inv, NEW m \in Migrators, pc[m] = "sql"
               PROVE  Applicable(seen[m] + 1, db)
    BY DEF NoDuplicateMigration
  <2>1. version \in 0 .. 10 /\ seen[m] = version BY TxFacts DEF InTx
  <2>2. db.tables \cap Creates(version + 1) = {}
    BY <2>1, CreatesNew DEF Inv, SchemaInv
  <2> QED BY <2>1, <2>2 DEF Applicable
<1> QED BY <1>1, InvHolds, PTL

-----------------------------------------------------------------------------
(* Refinement.                                                             *)

LEMMA SameMigrations ==
  ASSUME NEW i, NEW c
  PROVE  Upgrade!Migrated(i, c) = Migrated(i, c)
<1>1. Upgrade!Creates(i) = Creates(i) /\ \A j : Upgrade!Drops(j) = Drops(j)
  BY DEF Upgrade!Creates, Creates, Upgrade!Drops, Drops, Upgrade!Tables, Tables,
         Upgrade!Created, Created, Upgrade!Dropped, Dropped
<1>2. Upgrade!ApplySQL(i, c) = ApplySQL(i, c)
  BY <1>1 DEF Upgrade!ApplySQL, ApplySQL
<1>3. ASSUME NEW d PROVE Upgrade!migrateV2(d) = migrateV2(d)
  BY <1>1 DEF Upgrade!migrateV2, migrateV2, Upgrade!InverterState, InverterState,
              Upgrade!InverterKinds, InverterKinds, Upgrade!OtherKinds, OtherKinds
<1>4. ASSUME NEW d PROVE Upgrade!migrateV3(d) = migrateV3(d)
  BY <1>1 DEF Upgrade!migrateV3, migrateV3
<1>5. ASSUME NEW d PROVE Upgrade!migrateV4(d) = migrateV4(d)
  BY DEF Upgrade!migrateV4, migrateV4, Upgrade!OutagesOf, OutagesOf, Upgrade!Outages,
         Outages, Upgrade!Ongoing, Ongoing, Upgrade!Moments, Moments,
         Upgrade!OpensOutage, OpensOutage, Upgrade!Healthy, Healthy
<1>6. ASSUME NEW d PROVE Upgrade!migrateV5(d) = migrateV5(d)
  BY DEF Upgrade!migrateV5, migrateV5
<1> QED
  BY <1>2, <1>3, <1>4, <1>5, <1>6
  DEF Upgrade!Migrated, Migrated, Upgrade!DataMigration, DataMigration

LEMMA SameContents == Upgrade!Contents = Contents /\ Upgrade!Empty = Empty
BY DEF Upgrade!Contents, Contents, Upgrade!Empty, Empty, Upgrade!Tables, Tables,
       Upgrade!Created, Created, Upgrade!RawRows, RawRows, Upgrade!InvRows, InvRows,
       Upgrade!OtherRows, OtherRows, Upgrade!Outages, Outages, Upgrade!Ongoing, Ongoing,
       Upgrade!Moments, Moments, Upgrade!States, States, Upgrade!InverterKinds,
       InverterKinds, Upgrade!OtherKinds, OtherKinds

LEMMA UpgradeStep ==
  ASSUME Inv, [Next]_vars
  PROVE  [Upgrade!Next]_<<version, db>>
<1>1. CASE Install BY <1>1 DEF Install
<1>2. ASSUME NEW p \in Programs, Start(p) \/ Exit(p)
      PROVE  UNCHANGED <<version, db>>
  BY <1>2 DEF Start, Exit
<1>3. ASSUME NEW m \in Migrators, MigratorStep(m)
      PROVE  [Upgrade!Next]_<<version, db>>
  <2>1. CASE Commit(m)
    <3>1. /\ version < 11 /\ version' = version + 1
          /\ db' = Upgrade!Migrated(version + 1, db)
      BY <2>1, CommitStep, SameMigrations
    <3> QED BY <3>1 DEF Upgrade!Next, Upgrade!Migrate, Upgrade!Latest
  <2>2. CASE ~Commit(m)
    BY <1>3, <2>2 DEF MigratorStep, Begin, UpToDate, ExecSQL, ExecData
  <2> QED BY <2>1, <2>2
<1>4. CASE TryOpen BY <1>4 DEF TryOpen
<1>5. CASE Saves
  <2>1. PICK kind \in InverterKinds \cup OtherKinds \cup {"reading"} :
          Save(kind) /\ Grows(db, db')
    BY <1>5, SavesStep
  <2>2. version' = version BY <2>1 DEF Save
  <2> QED BY <2>1, <2>2, SameContents DEF Grows, Upgrade!Next, Upgrade!Save
<1>6. CASE UNCHANGED vars BY <1>6 DEF vars
<1> QED BY <1>1, <1>2, <1>3, <1>4, <1>5, <1>6 DEF Next

\* Programs, transactions and failures do not show: the database goes from one
\* version to the next with all its rows, or not at all (migrate).
THEOREM MigrationsImplementUpgrade == Spec => ImplementsUpgrade
<1>1. Init => Upgrade!Init BY SameContents DEF Init, Upgrade!Init
<1> QED BY <1>1, InvHolds, UpgradeStep, PTL DEF Spec, ImplementsUpgrade, Upgrade!Spec

-----------------------------------------------------------------------------
(* Rows are kept.                                                          *)

KeptIn(s, c) ==
  /\ s.kind = "reading" => s.ts \in c.readings
  /\ s.kind \in InverterKinds \ {"garbled"} =>
       \/ s \in c.raw
       \/ [ts |-> s.ts, state |-> InverterState(s.kind)] \in c.inv
  /\ s.kind \in OtherKinds =>
       \/ s \in c.raw
       \/ \E r \in c.typed \cup c.aux : r.ts = s.ts

LEMMA KeptSQL ==
  ASSUME NEW s \in Reports, NEW i \in 1 .. 11, NEW c \in Contents, KeptIn(s, c)
  PROVE  KeptIn(s, ApplySQL(i, c))
BY DEF KeptIn, ApplySQL, Contents

LEMMA KeptV2 ==
  ASSUME NEW s \in Reports, NEW c \in Contents, KeptIn(s, c)
  PROVE  KeptIn(s, migrateV2(c))
<1> DEFINE d == migrateV2(c)
<1>1. /\ d.readings = c.readings /\ c.inv \subseteq d.inv
      /\ c.typed \subseteq d.typed /\ d.aux = c.aux
  BY DEF migrateV2, Contents
<1>2. \A r \in c.raw : r.kind \in InverterKinds \ {"garbled"} =>
        [ts |-> r.ts, state |-> InverterState(r.kind)] \in d.inv
  BY DEF migrateV2, Contents
<1>3. \A r \in c.raw : r.kind \in OtherKinds => \E q \in d.typed : q.ts = r.ts
  <2> TAKE r \in c.raw
  <2> HAVE r.kind \in OtherKinds
  <2>1. [ts |-> r.ts, device |-> "PVS"] \in d.typed BY DEF migrateV2, Contents
  <2> QED BY <2>1
<1> HIDE DEF d
<1> USE DEF KeptIn
<1>5. s.kind = "reading" => s.ts \in d.readings BY <1>1
<1>6. s.kind \in InverterKinds \ {"garbled"} =>
        [ts |-> s.ts, state |-> InverterState(s.kind)] \in d.inv
  BY <1>1, <1>2
<1>7. s.kind \in OtherKinds => \E r \in d.typed \cup d.aux : r.ts = s.ts
  BY <1>1, <1>3
<1>8. KeptIn(s, d) BY <1>5, <1>6, <1>7
<1> QED BY <1>8 DEF d

LEMMA KeptMigrated ==
  ASSUME NEW s \in Reports, NEW i \in 1 .. 11, NEW c \in Contents, KeptIn(s, c)
  PROVE  KeptIn(s, Migrated(i, c))
<1> DEFINE d == ApplySQL(i, c)
<1>1. d \in Contents /\ KeptIn(s, d) BY SQLType, KeptSQL
<1> HIDE DEF d
<1>2. KeptIn(s, migrateV2(d)) BY <1>1, KeptV2
<1>3. KeptIn(s, migrateV3(d)) BY <1>1 DEF KeptIn, migrateV3, Contents
<1>4. KeptIn(s, migrateV4(d)) BY <1>1 DEF KeptIn, migrateV4, Contents
<1>5. KeptIn(s, migrateV5(d)) BY <1>1 DEF KeptIn, migrateV5, Contents
<1>6. KeptIn(s, DataMigration(i, d)) BY <1>1, <1>2, <1>3, <1>4, <1>5 DEF DataMigration
<1> QED BY <1>6 DEF d, Migrated

LEMMA KeptGrows ==
  ASSUME NEW s \in Reports, NEW c, NEW d, KeptIn(s, c), Grows(c, d)
  PROVE  KeptIn(s, d)
BY DEF KeptIn, Grows

\* A row that is saved is kept.
LEMMA KeptSaved ==
  ASSUME Inv, Saves,
         NEW s \in saved', s \notin saved
  PROVE  KeptIn(s, db')
<1> USE MigrationsAssumption DEF KeptIn
<1>1. db \in Contents BY DEF Inv, TypeOK
<1>2. CASE SaveReading
  <2>1. s = [ts |-> clock', kind |-> "reading"] BY <1>2, SaveFacts DEF SaveReading
  <2>2. clock' \in db'.readings BY <1>1, <1>2 DEF SaveReading, Contents
  <2> QED BY <2>1, <2>2 DEF InverterKinds, OtherKinds
<1>3. ASSUME NEW kind \in Reported, SaveRaw(kind)
      PROVE  KeptIn(s, db')
  <2>1. s = [ts |-> clock', kind |-> kind] BY <1>3, SaveFacts DEF SaveRaw
  <2>2. s \in db'.raw BY <1>1, <1>3, <2>1 DEF SaveRaw, Contents
  <2> QED BY <2>1, <2>2 DEF InverterKinds, OtherKinds
<1>4. ASSUME NEW kind \in Reported \cap {"working", "error"}, SaveInverter(kind)
      PROVE  KeptIn(s, db')
  <2>1. s = [ts |-> clock', kind |-> kind] BY <1>4, SaveFacts DEF SaveInverter
  <2>2. [ts |-> clock', state |-> kind] \in db'.inv BY <1>1, <1>4 DEF SaveInverter, Contents
  <2> QED BY <2>1, <2>2 DEF InverterKinds, OtherKinds, InverterState
<1>5. ASSUME NEW kind \in Reported \cap OtherKinds, SaveTyped(kind)
      PROVE  KeptIn(s, db')
  <2>1. s = [ts |-> clock', kind |-> kind] BY <1>5, SaveFacts DEF SaveTyped
  <2>2. [ts |-> clock', device |-> kind] \in db'.typed BY <1>1, <1>5 DEF SaveTyped, Contents
  <2>3. \E r \in db'.typed \cup db'.aux : r.ts = s.ts BY <2>1, <2>2
  <2> QED BY <2>1, <2>3 DEF InverterKinds, OtherKinds
<1>6. ASSUME NEW kind \in Reported \cap OtherKinds, SaveAux(kind)
      PROVE  KeptIn(s, db')
  <2>1. s = [ts |-> clock', kind |-> kind] BY <1>6, SaveFacts DEF SaveAux
  <2>2. [ts |-> clock', device |-> kind] \in db'.aux BY <1>1, <1>6 DEF SaveAux, Contents
  <2>3. \E r \in db'.typed \cup db'.aux : r.ts = s.ts BY <2>1, <2>2
  <2> QED BY <2>1, <2>3 DEF InverterKinds, OtherKinds
<1> QED BY <1>2, <1>3, <1>4, <1>5, <1>6 DEF Saves

LEMMA NothingLostStep == Inv /\ NothingLost /\ [Next]_vars => NothingLost'
<1> SUFFICES ASSUME Inv, \A s \in saved : KeptIn(s, db), [Next]_vars,
                    NEW s \in saved'
             PROVE  KeptIn(s, db')
  BY DEF NothingLost, Kept, KeptIn
<1>1. saved \subseteq Reports /\ db \in Contents BY DEF Inv, TypeOK
<1>2. CASE saved' = saved /\ db' = db BY <1>2
<1>3. ASSUME NEW m \in Migrators, Commit(m) PROVE KeptIn(s, db')
  <2>1. s \in Reports /\ KeptIn(s, db) BY <1>1, <1>3 DEF Commit
  <2>2. version + 1 \in 1 .. 11 /\ db' = Migrated(version + 1, db) BY <1>3, CommitStep
  <2> QED BY <1>1, <2>1, <2>2, KeptMigrated
<1>4. CASE Saves
  <2>1. CASE s \in saved
    <3>1. PICK kind \in InverterKinds \cup OtherKinds \cup {"reading"} :
            Save(kind) /\ Grows(db, db')
      BY <1>4, SavesStep
    <3> QED BY <1>1, <2>1, <3>1, KeptGrows
  <2> QED BY <1>4, <2>1, KeptSaved
<1> QED
  BY <1>2, <1>3, <1>4
  DEF Next, Install, Start, Exit, MigratorStep, Begin, UpToDate, ExecSQL, ExecData,
      TryOpen, vars, history

\* What was saved is kept through every upgrade, as it was or converted, except
\* inverter rows that do not parse (migrateV2, migrateV3).
THEOREM RowsAreKept == Spec => []NothingLost
<1>1. Init => NothingLost BY DEF Init, NothingLost
<1> QED BY <1>1, InvHolds, NothingLostStep, PTL DEF Spec

-----------------------------------------------------------------------------
(* Outages are computed from all rows.                                     *)

\* A moment has one row at most.
OneEach(R) == \A q, r \in R : q.ts = r.ts => q = r

Covers(o, t) == o.error_at <= t /\ (o.healthy_at = Ongoing \/ t < o.healthy_at)

\* An outage ends by the first row after it that is no error.
LEMMA CoveredIsError ==
  ASSUME NEW inv \in SUBSET InvRows, OneEach(inv), NEW r \in inv,
         NEW o \in OutagesOf(inv), Covers(o, r.ts)
  PROVE  r.state = "error"
<1>1. PICK e \in inv : e.ts = o.error_at /\ OpensOutage(inv, e)
  BY DEF OutagesOf
<1>2. e.state = "error"
  BY <1>1 DEF OpensOutage
<1>3. r.ts \in 1 .. MaxTime /\ e.ts \in 1 .. MaxTime
  BY DEF InvRows, Moments
<1> SUFFICES ASSUME r.state # "error" PROVE FALSE
  OBVIOUS
<1>4. r.ts > e.ts
  BY <1>1, <1>2, <1>3 DEF OneEach, Covers
<1>5. r \in Healthy(inv, o.error_at)
  BY <1>1, <1>4 DEF Healthy
<1>6. PICK h \in Healthy(inv, o.error_at) :
        h.ts = o.healthy_at /\ \A q \in Healthy(inv, o.error_at) : h.ts <= q.ts
  BY <1>5 DEF OutagesOf
<1>7. h.ts \in 1 .. MaxTime /\ h.ts <= r.ts
  BY <1>5, <1>6 DEF Healthy, InvRows, Moments
<1> QED
  BY <1>3, <1>6, <1>7 DEF Covers, Ongoing

\* An error row belongs to the outage that the first of the error rows opens
\* which it follows with no other row between.
LEMMA ErrorIsCovered ==
  ASSUME NEW inv \in SUBSET InvRows, OneEach(inv), NEW r \in inv, r.state = "error"
  PROVE  \E o \in OutagesOf(inv) : Covers(o, r.ts)
<1> DEFINE Run == {q \in inv : /\ q.state = "error" /\ q.ts <= r.ts
                               /\ \A x \in inv : q.ts < x.ts /\ x.ts < r.ts => x.state = "error"}
<1>1. \A q \in inv : q.ts \in Moments /\ q.ts \in Nat /\ q.ts > 0
  BY DEF InvRows, Moments
<1>2. PICK e \in Run : \A q \in Run : e.ts <= q.ts
  <2> DEFINE V == {q.ts : q \in Run}
  <2>1. r \in Run
    BY <1>1
  <2>2. V \in SUBSET Nat /\ V # {}
    BY <1>1, <2>1
  <2> HIDE DEF V
  <2>3. PICK v \in V : \A m \in V : v <= m
    BY <2>2, Smallest
  <2> QED
    BY <2>3 DEF V
<1>3. /\ e \in inv /\ e.state = "error" /\ e.ts <= r.ts
      /\ \A x \in inv : e.ts < x.ts /\ x.ts < r.ts => x.state = "error"
  BY <1>2
<1>4. OpensOutage(inv, e)
  <2> SUFFICES ASSUME NEW q \in inv, q.ts < e.ts, q.state = "error",
                      \A x \in inv : q.ts < x.ts /\ x.ts < e.ts => x.state = "error"
               PROVE  FALSE
    BY <1>3 DEF OpensOutage
  <2>1. ASSUME NEW x \in inv, q.ts < x.ts, x.ts < r.ts PROVE x.state = "error"
    <3>1. CASE x.ts = e.ts
      BY <1>3, <3>1 DEF OneEach
    <3> QED
      BY <1>1, <1>3, <2>1, <3>1
  <2>2. q \in Run
    BY <1>1, <1>3, <2>1
  <2> QED
    BY <1>1, <1>2, <1>3, <2>2
<1> HIDE DEF Run
<1>5. CASE Healthy(inv, e.ts) = {}
  <2> DEFINE o == [error_at |-> e.ts, healthy_at |-> Ongoing]
  <2>1. o \in Outages
    BY <1>1, <1>3 DEF Outages
  <2>2. o \in OutagesOf(inv)
    BY <1>3, <1>4, <1>5, <2>1 DEF OutagesOf
  <2> QED
    BY <1>3, <2>2 DEF Covers
<1>6. CASE Healthy(inv, e.ts) # {}
  <2> DEFINE V == {h.ts : h \in Healthy(inv, e.ts)}
  <2>1. V \in SUBSET Nat /\ V # {}
    BY <1>1, <1>6 DEF Healthy
  <2>2. PICK h \in Healthy(inv, e.ts) : \A q \in Healthy(inv, e.ts) : h.ts <= q.ts
    <3> HIDE DEF V
    <3>1. PICK v \in V : \A m \in V : v <= m
      BY <2>1, Smallest
    <3> QED
      BY <3>1 DEF V
  <2>3. h \in inv /\ h.ts > e.ts /\ h.state # "error"
    BY DEF Healthy
  <2> DEFINE o == [error_at |-> e.ts, healthy_at |-> h.ts]
  <2>4. o \in Outages
    BY <1>1, <1>3, <2>3 DEF Outages
  <2>5. o \in OutagesOf(inv)
    BY <1>3, <1>4, <2>2, <2>4 DEF OutagesOf
  <2>6. r.ts < h.ts
    <3>1. h.ts # r.ts
      BY <2>3 DEF OneEach
    <3>2. ~ (h.ts < r.ts)
      BY <1>3, <2>3
    <3> QED
      BY <1>1, <2>3, <3>1, <3>2
  <2> QED
    BY <1>3, <2>5, <2>6 DEF Covers
<1> QED
  BY <1>5, <1>6

-----------------------------------------------------------------------------
(* As long as pvs-monitor is the one that migrates.                        *)

\* It is not older than the schema.
SoleInv ==
  /\ built[Monitor] <= package
  /\ sole => /\ version <= package
             /\ pc[Monitor] # "off" => version <= built[Monitor]

\* Where the rows are that outages are computed from; no row is of the future.
RowsInv ==
  /\ \A r \in db.raw \cup db.inv : r.ts <= clock
  /\ OneEach(db.raw) /\ OneEach(db.inv)
  /\ version >= 2 => db.raw = {}
  /\ version < 2 => db.inv = {}
  /\ version < 4 => db.outages = {}
  /\ db.rolled \subseteq db.readings

\* What migrations 4 and 5 have computed: to the code an outage goes on just as
\* long as the rows are errors.
ComputedInv ==
  sole =>
    /\ version >= 4 => \A r \in db.inv : InOutage(r.ts) <=> r.state = "error"
    /\ version >= 5 => db.rolled = db.readings

SourceInv == SoleInv /\ RowsInv /\ ComputedInv

LEMMA SourceInit == Init => SourceInv
<1> SUFFICES ASSUME Init PROVE SourceInv
  OBVIOUS
<1>1. Monitor \in Programs /\ package \in 1 .. 11
  BY MigrationsAssumption DEF Init, Programs, Migrators, Latest
<1>2. SoleInv
  BY <1>1 DEF Init, SoleInv
<1>3. RowsInv
  BY DEF Init, Empty, RowsInv, OneEach
<1>4. ComputedInv
  BY DEF Init, ComputedInv
<1> QED
  BY <1>2, <1>3, <1>4 DEF SourceInv

\* Where the database stays as it is, so does what it was computed from.
LEMMA SourceKept ==
  ASSUME SourceInv, UNCHANGED <<version, db, clock, sole>>, SoleInv'
  PROVE  SourceInv'
BY DEF SourceInv, RowsInv, ComputedInv, InOutage

\* Programs come and go: what is installed is not older, and what is started is
\* what is installed.
LEMMA SoleKept ==
  ASSUME Inv, SoleInv,
         \/ Install \/ TryOpen \/ UNCHANGED vars
         \/ \E p \in Programs : Start(p) \/ Exit(p)
         \/ \E m \in Migrators : Begin(m) \/ UpToDate(m) \/ ExecSQL(m) \/ ExecData(m)
  PROVE  SoleInv' /\ UNCHANGED <<version, db, clock, sole>>
<1>1. /\ version \in 0 .. 11 /\ package \in 1 .. 11
      /\ Monitor \in Programs
      /\ built \in [Programs -> 0 .. 11]
      /\ pc \in [Programs -> {"off", "begin", "sql", "data", "commit", "wait", "open"}]
  BY MigrationsAssumption DEF Inv, TypeOK, Versions, Latest, Programs, Migrators
<1>2. CASE Install
  BY <1>1, <1>2, MigrationsAssumption DEF Install, SoleInv, Latest, history
<1>3. CASE TryOpen
  BY <1>1, <1>3, MigrationsAssumption DEF TryOpen, SoleInv, history, Migrators
<1>4. CASE UNCHANGED vars
  BY <1>4 DEF vars, SoleInv
<1>5. ASSUME NEW p \in Programs, Start(p) \/ Exit(p)
      PROVE  SoleInv' /\ UNCHANGED <<version, db, clock, sole>>
  <2>1. CASE Start(p)
    BY <1>1, <2>1 DEF Start, SoleInv, history
  <2>2. CASE Exit(p)
    BY <1>1, <2>2 DEF Exit, SoleInv, history
  <2> QED
    BY <1>5, <2>1, <2>2
<1>6. ASSUME NEW m \in Migrators, Begin(m) \/ UpToDate(m) \/ ExecSQL(m) \/ ExecData(m)
      PROVE  SoleInv' /\ UNCHANGED <<version, db, clock, sole>>
  <2>1. UNCHANGED <<version, db, built, package, clock, sole>>
    BY <1>6 DEF Begin, UpToDate, ExecSQL, ExecData, history
  <2>2. pc[m] # "off" /\ (\A p \in Programs : p # m => pc'[p] = pc[p])
    BY <1>1, <1>6 DEF Begin, UpToDate, ExecSQL, ExecData
  <2>3. pc'[Monitor] # "off" => pc[Monitor] # "off"
    BY <1>1, <2>2
  <2> QED
    BY <2>1, <2>3 DEF SoleInv
<1> QED
  BY <1>2, <1>3, <1>4, <1>5, <1>6

\* The inverter rows made of raw ones.
Parsed(R) ==
  {[ts |-> r.ts, state |-> InverterState(r.kind)] :
     r \in {q \in R : q.kind \in InverterKinds \ {"garbled"}}}

\* What a migration does to the rows that are computed from.
LEMMA MigratedRows ==
  ASSUME NEW i \in 1 .. 11, NEW c \in Contents
  PROVE  LET d == Migrated(i, c)
         IN  /\ d.raw = IF i = 2 THEN {} ELSE c.raw
             /\ d.inv = IF i = 2 THEN c.inv \cup Parsed(c.raw) ELSE c.inv
             /\ d.outages = IF i = 4 THEN c.outages \cup OutagesOf(c.inv) ELSE c.outages
             /\ d.readings = c.readings
             /\ d.rolled = IF i = 5 THEN c.rolled \cup c.readings ELSE c.rolled
<1> DEFINE s == ApplySQL(i, c)
<1>1. /\ s \in Contents /\ s.raw = c.raw /\ s.inv = c.inv /\ s.outages = c.outages
      /\ s.readings = c.readings /\ s.rolled = c.rolled
  BY SQLType DEF ApplySQL, Contents
<1>0. Migrated(i, c) = DataMigration(i, s)
  BY DEF Migrated
<1> HIDE DEF s
<1>2. CASE i = 2
  <2>1. Migrated(i, c) = migrateV2(s)
    BY <1>0, <1>2 DEF DataMigration
  <2>2. /\ migrateV2(s).raw = {} /\ migrateV2(s).inv = s.inv \cup Parsed(s.raw)
        /\ migrateV2(s).outages = s.outages
        /\ migrateV2(s).readings = s.readings /\ migrateV2(s).rolled = s.rolled
    BY <1>1 DEF migrateV2, Contents, Parsed
  <2> QED
    BY <1>1, <1>2, <2>1, <2>2
<1>3. CASE i = 3
  <2>1. Migrated(i, c) = migrateV3(s)
    BY <1>0, <1>3 DEF DataMigration
  <2>2. /\ migrateV3(s).raw = s.raw /\ migrateV3(s).inv = s.inv
        /\ migrateV3(s).outages = s.outages
        /\ migrateV3(s).readings = s.readings /\ migrateV3(s).rolled = s.rolled
    BY <1>1 DEF migrateV3, Contents
  <2> QED
    BY <1>1, <1>3, <2>1, <2>2
<1>4. CASE i = 4
  <2>1. Migrated(i, c) = migrateV4(s)
    BY <1>0, <1>4 DEF DataMigration
  <2> QED
    BY <1>1, <1>4, <2>1 DEF migrateV4, Contents
<1>5. CASE i = 5
  <2>1. Migrated(i, c) = migrateV5(s)
    BY <1>0, <1>5 DEF DataMigration
  <2> QED
    BY <1>1, <1>5, <2>1 DEF migrateV5, Contents
<1>6. CASE i \notin {2, 3, 4, 5}
  <2>1. Migrated(i, c) = s
    BY <1>0, <1>6 DEF DataMigration
  <2> QED
    BY <1>1, <1>6, <2>1
<1> QED
  BY <1>2, <1>3, <1>4, <1>5, <1>6

LEMMA CommitSource ==
  ASSUME Inv, SourceInv, NEW m \in Migrators, Commit(m)
  PROVE  SourceInv'
<1> DEFINE i == version + 1
<1>1. /\ i \in 1 .. 11 /\ version \in 0 .. 10 /\ version' = i
      /\ db' = Migrated(i, db) /\ db \in Contents
  BY CommitStep DEF Inv, TypeOK
<1>2. UNCHANGED <<built, package, clock>> /\ (sole' => sole /\ m = Monitor)
  <2>1. ASSUME sole' PROVE sole /\ m = Monitor
    BY <2>1, Zenon DEF Commit
  <2> QED
    BY <2>1 DEF Commit
<1>3. SoleInv'
  <2>1. version < built[m] /\ built[m] \in 0 .. 11 /\ package \in 1 .. 11
    BY TxFacts, MigrationsAssumption DEF Commit, InTx, Inv, TxInv, TypeOK, Latest
  <2> QED
    BY <1>1, <1>2, <2>1 DEF SourceInv, SoleInv, Inv, TypeOK
<1>4. /\ db'.raw = IF i = 2 THEN {} ELSE db.raw
      /\ db'.outages = IF i = 4 THEN db.outages \cup OutagesOf(db.inv) ELSE db.outages
      /\ db'.readings = db.readings
      /\ db'.rolled = IF i = 5 THEN db.rolled \cup db.readings ELSE db.rolled
      /\ i # 2 => db'.inv = db.inv
  BY <1>1, MigratedRows
<1> HIDE DEF i
<1>5. i = 2 => /\ \A r \in db'.inv : r.ts <= clock
               /\ OneEach(db'.inv)
  <2> SUFFICES ASSUME i = 2 PROVE (\A r \in db'.inv : r.ts <= clock) /\ OneEach(db'.inv)
    OBVIOUS
  <2>1. db.inv = {}
    BY <1>1 DEF SourceInv, RowsInv, i
  <2>2. db'.inv = Parsed(db.raw)
    BY <1>1, <2>1, MigratedRows
  <2>3. ASSUME NEW r \in db'.inv
        PROVE  \E q \in db.raw : r = [ts |-> q.ts, state |-> InverterState(q.kind)]
    BY <2>2 DEF Parsed
  <2>4. ASSUME NEW r \in db'.inv, NEW x \in db'.inv, r.ts = x.ts
        PROVE  r = x
    <3>1. PICK q \in db.raw : r = [ts |-> q.ts, state |-> InverterState(q.kind)]
      BY <2>3
    <3>2. PICK y \in db.raw : x = [ts |-> y.ts, state |-> InverterState(y.kind)]
      BY <2>3
    <3>3. q = y
      BY <2>4, <3>1, <3>2 DEF SourceInv, RowsInv, OneEach
    <3> QED
      BY <3>1, <3>2, <3>3
  <2> QED
    BY <2>3, <2>4 DEF SourceInv, RowsInv, OneEach
<1>6. RowsInv'
  <2>1. RowsInv
    BY DEF SourceInv
  <2>2. /\ \A r \in db'.raw : r.ts <= clock'
        /\ OneEach(db'.raw)
        /\ version' >= 2 => db'.raw = {}
    BY <1>1, <1>2, <1>4, <2>1 DEF RowsInv, OneEach, i
  <2>3. /\ \A r \in db'.inv : r.ts <= clock'
        /\ OneEach(db'.inv)
        /\ version' < 2 => db'.inv = {}
    BY <1>1, <1>2, <1>4, <1>5, <2>1 DEF RowsInv, OneEach, i
  <2>4. /\ version' < 4 => db'.outages = {}
        /\ db'.rolled \subseteq db'.readings
    BY <1>1, <1>4, <2>1 DEF RowsInv, i
  <2> QED
    BY <2>2, <2>3, <2>4 DEF RowsInv
<1>7. ASSUME sole', version' >= 4, NEW r \in db'.inv
      PROVE  InOutage(r.ts)' <=> r.state = "error"
  <2>1. sole /\ db'.inv = db.inv
    BY <1>1, <1>2, <1>4, <1>7
  <2>2. CASE i = 4
    <3>1. db.outages = {} /\ OneEach(db.inv) /\ db.inv \in SUBSET InvRows
      BY <1>1, <2>2 DEF SourceInv, RowsInv, Contents, i
    <3>2. db'.outages = OutagesOf(db.inv)
      BY <1>4, <2>2, <3>1
    <3>3. InOutage(r.ts)' <=> \E o \in OutagesOf(db.inv) : Covers(o, r.ts)
      BY <3>2 DEF InOutage, Covers
    <3> QED
      BY <1>7, <2>1, <3>1, <3>3, CoveredIsError, ErrorIsCovered
  <2>3. CASE i # 4
    <3>1. version >= 4 /\ db'.outages = db.outages
      BY <1>1, <1>4, <1>7, <2>3 DEF i
    <3> QED
      BY <1>7, <2>1, <3>1 DEF SourceInv, ComputedInv, InOutage
  <2> QED
    BY <2>2, <2>3
<1>8. ASSUME sole', version' >= 5
      PROVE  db'.rolled = db'.readings
  <2>1. CASE i = 5
    BY <1>4, <2>1 DEF SourceInv, RowsInv
  <2>2. CASE i # 5
    BY <1>1, <1>2, <1>4, <1>8, <2>2 DEF SourceInv, ComputedInv, i
  <2> QED
    BY <2>1, <2>2
<1> QED
  BY <1>3, <1>6, <1>7, <1>8 DEF SourceInv, ComputedInv

\* A monitor that has opened the database is of its very version, and so it saves
\* neither inverters of the old kind after migration 4 nor readings without the
\* rollups after migration 5.
LEMMA SavesSource ==
  ASSUME Inv, SourceInv, Saves
  PROVE  SourceInv'
<1>1. PICK k \in InverterKinds \cup OtherKinds \cup {"reading"} :
        Save(k) /\ Grows(db, db')
  BY SavesStep
<1>2. /\ clock' = clock + 1 /\ clock \in 0 .. MaxTime /\ pc[Monitor] = "open"
      /\ UNCHANGED <<version, pc, built, package, sole>>
  BY <1>1, SaveFacts DEF Save, Inv, TypeOK
<1>3. /\ version >= built[Monitor] /\ version \in 0 .. 11 /\ built[Monitor] \in 0 .. 11
      /\ db \in Contents /\ db.tables = TablesAt(version)
      /\ sole => version = built[Monitor]
  <2>1. Monitor \in Programs
    BY DEF Programs, Migrators
  <2> QED
    BY <1>2, <2>1
    DEF Inv, TypeOK, Versions, Latest, ServesReadySchema, SchemaInv, SourceInv, SoleInv
<1>4. SoleInv'
  BY <1>2 DEF SourceInv, SoleInv
<1>5. \/ /\ db'.raw = db.raw
      \/ /\ version < 2
         /\ \E kind : db'.raw = db.raw \cup {[ts |-> clock', kind |-> kind]}
  <2>1. "device_readings" \in TablesAt(version) => version < 2
    BY <1>3 DEF TablesAt, Dropped
  <2> QED
    BY <1>3, <2>1
    DEF Saves, SaveReading, SaveRaw, SaveInverter, SaveTyped, SaveAux, Contents
<1>6. \/ /\ db'.inv = db.inv
      \/ /\ built[Monitor] \in {2, 3}
         /\ \E state : db'.inv = db.inv \cup {[ts |-> clock', state |-> state]}
  BY <1>3 DEF Saves, SaveReading, SaveRaw, SaveInverter, SaveTyped, SaveAux, Contents
<1>7. \/ /\ db'.readings = db.readings /\ db'.rolled = db.rolled
      \/ /\ db'.readings = db.readings \cup {clock'}
         /\ db'.rolled = IF built[Monitor] >= 5 THEN db.rolled \cup {clock'} ELSE db.rolled
  BY <1>3 DEF Saves, SaveReading, SaveRaw, SaveInverter, SaveTyped, SaveAux, Contents
<1>8. db'.outages = db.outages
  BY <1>1 DEF Grows
<1>9. \A r \in db.raw \cup db.inv : r.ts \in Nat /\ r.ts <= clock /\ r.ts < clock'
  BY <1>2, <1>3 DEF SourceInv, RowsInv, Contents, RawRows, InvRows, Moments
<1>10. /\ \A r \in db'.raw : r.ts <= clock'
       /\ OneEach(db'.raw)
       /\ version >= 2 => db'.raw = {}
  BY <1>2, <1>3, <1>5, <1>9 DEF SourceInv, RowsInv, OneEach
<1>11. /\ \A r \in db'.inv : r.ts <= clock'
       /\ OneEach(db'.inv)
       /\ version < 2 => db'.inv = {}
  BY <1>2, <1>3, <1>6, <1>9 DEF SourceInv, RowsInv, OneEach
<1>12. RowsInv'
  BY <1>2, <1>7, <1>8, <1>10, <1>11 DEF SourceInv, RowsInv
<1>13. ASSUME sole', version' >= 4
       PROVE  \A r \in db'.inv : InOutage(r.ts)' <=> r.state = "error"
  <2>1. db'.inv = db.inv
    BY <1>2, <1>3, <1>6, <1>13
  <2> QED
    BY <1>2, <1>8, <1>13, <2>1 DEF SourceInv, ComputedInv, InOutage
<1>14. ASSUME sole', version' >= 5
       PROVE  db'.rolled = db'.readings
  BY <1>2, <1>3, <1>7, <1>14 DEF SourceInv, ComputedInv
<1> QED
  BY <1>4, <1>12, <1>13, <1>14 DEF SourceInv, ComputedInv

LEMMA SourceStep == ASSUME Inv, SourceInv, [Next]_vars PROVE SourceInv'
<1>1. CASE Saves
  BY <1>1, SavesSource
<1>2. ASSUME NEW m \in Migrators, Commit(m) PROVE SourceInv'
  BY <1>2, CommitSource
<1>3. CASE /\ ~ Saves
           /\ \A m \in Migrators : ~ Commit(m)
  <2>1. SoleInv' /\ UNCHANGED <<version, db, clock, sole>>
    BY <1>3, SoleKept DEF Next, MigratorStep, SourceInv
  <2> QED
    BY <2>1, SourceKept
<1> QED
  BY <1>1, <1>2, <1>3

\* Outages and rollups are computed from all rows: while pvs-monitor is the one
\* that migrates, no older program saves rows behind the back of migrations 4
\* and 5, and every error row is in an outage and no working row (migrateV4,
\* migrateV5).
THEOREM AllIsComputed == Spec => []ComputedFromAll
<1>1. Init => Inv /\ SourceInv
  BY InitInv, SourceInit
<1>2. Inv /\ SourceInv /\ [Next]_vars => (Inv /\ SourceInv)'
  BY NextInv, SourceStep
<1>3. SourceInv => ComputedFromAll
  BY DEF SourceInv, ComputedInv, ComputedFromAll
<1> QED
  BY <1>1, <1>2, <1>3, PTL DEF Spec
=============================================================================
