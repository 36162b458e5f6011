------------------------------- MODULE Schema -------------------------------
(***************************************************************************)
(* The schema of the database and what each migration does to it and to    *)
(* the rows it holds (store/sqlite/sqlite.go, sql/migrations/*.sql).       *)
(*                                                                         *)
(* Simplifications: "tables" stands for the tables, and the columns and    *)
(* the index that a later migration adds or drops and that cannot be added *)
(* twice; rows are those of one panel and one device of another kind, at   *)
(* most one row per table and moment; a rollup is the set of readings that *)
(* it includes; maintenance events and settings hold no rows.              *)
(***************************************************************************)
EXTENDS Naturals

CONSTANT MaxTime  \* bound: the last moment that a row is saved at

ASSUME SchemaAssumption == MaxTime \in Nat

Moments == 1 .. MaxTime

\* The number of migrations.
Latest   == 11
Versions == 0 .. Latest

\* The migration that creates a table, and the one that drops it.
Created ==
  [readings |-> 1, device_readings |-> 1,
   inverter_readings |-> 2, pvs_readings |-> 2, meter_readings |-> 2,
   aux_device_readings |-> 3, inverter_outages |-> 4,
   readings_hourly |-> 5, readings_daily |-> 5,
   maintenance_events |-> 6, start_date |-> 6, start_at |-> 7,
   settings |-> 9, source |-> 10, idx_readings_backfilled |-> 11]

Dropped ==
  [device_readings |-> 2, pvs_readings |-> 3, meter_readings |-> 3, start_date |-> 7]

Tables == DOMAIN Created

\* The tables there are after a number of migrations.
TablesAt(v) ==
  {t \in Tables : Created[t] <= v /\ (t \in DOMAIN Dropped => v < Dropped[t])}

\* What a device reported: an inverter's state, with a record of zeros or of
\* something that is no number instead; or another kind of device.
InverterKinds == {"working", "error", "zeros", "garbled"}
OtherKinds    == {"PVS", "Power Meter"}
RawRows       == [ts : Moments, kind : InverterKinds \cup OtherKinds]

States    == {"working", "error", "unreachable"}
InvRows   == [ts : Moments, state : States]
OtherRows == [ts : Moments, device : OtherKinds]

\* The end of an outage that goes on: healthy_at is NULL.
Ongoing == 0
Outages == [error_at : Moments, healthy_at : Moments \cup {Ongoing}]

\* tables: the schema; raw: device_readings; inv: inverter_readings; typed:
\* pvs_readings and meter_readings; aux: aux_device_readings; outages:
\* inverter_outages; readings: readings; rolled: the readings in the rollups.
Contents ==
  [tables : SUBSET Tables, raw : SUBSET RawRows, inv : SUBSET InvRows,
   typed : SUBSET OtherRows, aux : SUBSET OtherRows, outages : SUBSET Outages,
   readings : SUBSET Moments, rolled : SUBSET Moments]

Empty ==
  [tables |-> {}, raw |-> {}, inv |-> {}, typed |-> {}, aux |-> {},
   outages |-> {}, readings |-> {}, rolled |-> {}]

-----------------------------------------------------------------------------
(* One migration: its SQL, then its function if it has one.                *)

\* What the SQL of migration i creates, all of it or none.
Creates(i) == {t \in Tables : Created[t] = i}
Drops(i)   == {t \in DOMAIN Dropped : Dropped[t] = i}

\* 001 says IF NOT EXISTS; of the others, one that is applied twice fails.
Applicable(i, c) == i = 1 \/ c.tables \cap Creates(i) = {}

\* 007 drops what it replaces; the others leave that to their functions.
ApplySQL(i, c) ==
  [c EXCEPT !.tables = (@ \cup Creates(i)) \ (IF i = 7 THEN Drops(i) ELSE {})]

\* Mutant: the state is the one the device claims.
ClaimedState(kind) == kind

\* The state stored for an inverter's record.
InverterState(kind) == IF kind = "zeros" THEN "unreachable" ELSE kind

\* Mutant: the table is dropped and nothing is copied of the other devices.
InvertersOnly(c) ==
  [c EXCEPT !.inv = @ \cup {[ts |-> r.ts, state |-> InverterState(r.kind)] :
                              r \in {q \in c.raw : q.kind \in InverterKinds \ {"garbled"}}},
            !.raw = {},
            !.tables = @ \ Drops(2)]

\* device_readings is split up.  An inverter row that does not parse is skipped;
\* a row of anything else becomes one of pvs_readings.
migrateV2(c) ==
  [c EXCEPT !.inv = @ \cup {[ts |-> r.ts, state |-> InverterState(r.kind)] :
                              r \in {q \in c.raw : q.kind \in InverterKinds \ {"garbled"}}},
            !.typed = @ \cup {[ts |-> r.ts, device |-> "PVS"] :
                                r \in {q \in c.raw : q.kind \in OtherKinds}},
            !.raw = {},
            !.tables = @ \ Drops(2)]

\* The rows of the two typed tables become payloads again.
migrateV3(c) ==
  [c EXCEPT !.aux = @ \cup c.typed,
            !.typed = {},
            !.tables = @ \ Drops(3)]

\* An error row that does not follow another one opens an outage; the first
\* row after it in any other state closes it, also one that is unreachable, of
\* which the comment on migrateV4 does not speak.
OpensOutage(inv, r) ==
  /\ r.state = "error"
  /\ \A q \in inv : q.ts < r.ts /\ q.state = "error" =>
       \E x \in inv : q.ts < x.ts /\ x.ts < r.ts /\ x.state # "error"

Healthy(inv, t) == {q \in inv : q.ts > t /\ q.state # "error"}

\* Mutant: an outage that goes on is forgotten.
ClosedOutages(inv) ==
  {o \in Outages :
     /\ \E r \in inv : r.ts = o.error_at /\ OpensOutage(inv, r)
     /\ \E h \in Healthy(inv, o.error_at) :
          h.ts = o.healthy_at /\ \A q \in Healthy(inv, o.error_at) : h.ts <= q.ts}

OutagesOf(inv) ==
  {o \in Outages :
     /\ \E r \in inv : r.ts = o.error_at /\ OpensOutage(inv, r)
     /\ \/ /\ Healthy(inv, o.error_at) = {}
           /\ o.healthy_at = Ongoing
        \/ \E h \in Healthy(inv, o.error_at) :
             h.ts = o.healthy_at /\ \A q \in Healthy(inv, o.error_at) : h.ts <= q.ts}

migrateV4(c) == [c EXCEPT !.outages = @ \cup OutagesOf(c.inv)]

\* The rollups are computed from every reading.
migrateV5(c) == [c EXCEPT !.rolled = @ \cup c.readings]

\* The function of migration i, the identity if it has none.
DataMigration(i, c) ==
  CASE i = 2 -> migrateV2(c)
    [] i = 3 -> migrateV3(c)
    [] i = 4 -> migrateV4(c)
    [] i = 5 -> migrateV5(c)
    [] OTHER -> c

\* All of migration i.
Migrated(i, c) == DataMigration(i, ApplySQL(i, c))
=============================================================================
