# pvs-monitoring in TLA+

Models of pvs-monitoring, a set of small Go programs around one SQLite database
that record what a SunPower PVS6 gateway reports, with the TLC runs that check
them and the TLAPS proofs of what matters most. Paths are relative to `src/`.

- [1. The system](#1-the-system)
- [2. The modules](#2-the-modules)
- [3. The runs](#3-the-runs)
- [4. The proofs](#4-the-proofs)
- [5. Where code and documents disagree](#5-where-code-and-documents-disagree)
- [6. What is not modelled, and the plan](#6-what-is-not-modelled-and-the-plan)

`tlc -config X.cfg M` runs a check, `tlapm M.tla` checks proofs. `PROJECT.json`
maps every definition to the lines it stands for and lists the mutants: for each
property of a passing run, a plausible bug in a definition that TLC then finds.

## 1. The system

| Component | State | Operations | What is hard |
|---|---|---|---|
| **Device poller** (`pvs/device_poller.go`, in pvs-monitor) | `lastInverterState`, current list; volatile | every interval: enable telemetry, log in, fetch the list, open and close outages, save what is not suppressed | a restart between two store calls; failed calls that are only logged; error/unreachable flips; a 401 hours after startup |
| **Monitor** (`pvs/monitor.go`, in pvs-monitor) | WebSocket, current reading, counters | dial with backoff, read with a timeout, save each power frame, statistics | a silent stream found by a timeout; a reboot that forgets telemetry; a backoff that must be short again; dropped saves |
| **Store** (`store/sqlite/sqlite.go`) | `readings`, hourly and daily rollups, `inverter_readings`, `inverter_outages`, `aux_device_readings`, `settings`, `maintenance_events`, `user_version` | save, backfill, rebuild, migrate, query | rollups kept by upsert and by rebuild; migrations by several programs |
| **pvs-backfill** (`cmd/pvs-backfill`) | none between runs | list gaps, read meter samples, fill a gap and rebuild its buckets | lists outside the transaction; several runs; runs cut short |
| **pvs-api** (`cmd/pvs-api`) | none | read handlers, PATCH of settings, maintenance events | several queries per answer; settings written key by key; starts before the migration is done |
| **Configuration** (`config/`, used by pvs-monitor) | `settings` table, file | seed, seed missing keys, overlay, give up as unconfigured | read then write beside pvs-api; partial writes; two sources of the same value |
| **Panel health** (`pvs/panelhealth.go`, in pvs-api) | none | compare the newest row of each panel with a percentile of all | rows of different age, because the poller suppresses some |
| **pvs-mcp, pvs-ui, scripts** | browser state; none | clients of the API, dead-man switch, update, backup | answers out of order |

How they interact. The poller's enabling call keeps the monitor's stream alive:
the PVS6 forgets it at a reboot. Both write to the store, each call in a
transaction of its own. pvs-monitor and pvs-backfill open the store with `Open`
and so migrate it; pvs-api and pvs-mcp open it without migrating and wait for the
schema they were built for. pvs-api's panel health and UI rest on the rows that
the poller chooses to save. pvs-backfill reads the meters that the poller saved
to repair the readings that the monitor missed, in tables that the monitor goes
on writing.

What makes each correct:

- poller and outages: one open outage per panel, exactly while its last report
  delivers no data, through restarts; suppressed panels remain visible and cost
  one row per outage; telemetry comes back;
- stream: power readings flow again within a bounded time after the last thing that
  went wrong; each is in the statistics once;
- readings: rollups are a function of the rows, whoever wrote them and in which
  order, and so are the answers drawn from them; a repair stands only in a gap and is made once;
- settings: what a user has set stays, the daemon runs on what the table says,
  and comes up when nothing is in the way;
- panel health: the verdict is that of the present list, whatever rows it was
  left, and a large outage is one;
- migrations: each applied once, whole, to all rows; nobody serves a schema older
  than the one it was built for; everybody comes up in the end.

The full list of hazards, each at its line, with the properties that cover it or
the reason why none does yet, is in `PROJECT.json`.

## 2. The modules

| Module | Role |
|---|---|
| `DevicePoller` | the poller, the two tables it writes and the telemetry setting of the PVS6 |
| `InverterLedger` | abstract: what the outage table promises |
| `Rollups` | constant level: rows, buckets, upsert, rebuild, gaps, meter samples, averages, series, energy |
| `Backfill` | extends `Rollups`: pvs-monitor's writes beside runs of pvs-backfill |
| `Schema` | constant level: tables by version, the rows, migrations 2 to 5 |
| `SchemaUpgrade` | abstract, extends `Schema`: the database goes from version to version at once |
| `Migrations` | extends `Schema`: pvs-monitor, pvs-backfill and pvs-api opening the database while packages are upgraded |
| `PowerStream` | the monitor's connection and statistics, the PVS6's reboots and the poller's enabling call, with time |
| `Settings` | the config file, the settings table, the start of pvs-monitor and PATCH of pvs-api |
| `PanelHealth` | extends `DevicePoller`: the powers of the rows it leaves, and the verdict on them |
| `MC...` | model values and input sets of the runs |
| `...Proofs` | theorems about the module of that name (`BackfillRunsProofs`: those about runs of pvs-backfill) |
| `SetLemmas` | lemmas about finite sets and sums over them |

**DevicePoller.** `pc` follows `Run`: `seed` (seedFromStore), `enable`
(enableTelemetryWS), `fetch`, `apply` (the loop of `poll`, one inverter per step
because each opens or closes an outage in a transaction of its own, and then
SaveDevices), `idle`, `dead` (Run has returned on a refused credential),
`stopped` (no process). `Stop` may come at any point and clears the memory,
systemd's restart is `Start`. A store call takes the outcome "done" or "error".
The store is `openRows` (rows with `healthy_at` NULL) and `latest` (state of the
newest row). `known` and `faults` are chosen at the start and constant: which
panels had rows before and what may go wrong, so that one run covers several
settings and the conditional properties see the faults they exclude switched off
only where they say so. `seen` and `downRows` are histories. Left out: timing, as
there is one thread; devices that are no inverters, which are always saved; the
numbers of a record beyond genuine, all zero or unparseable.

**Rollups and Backfill.** Time is discrete, an "hour" and a "day" are buckets of
`Hour` and `Day` ticks, a reconstructed row stands for `MeterWeight` ticks, a gap
is longer than `MinGap`. A row has a transaction number, so two rows of the same
second stay two rows. A bucket holds the weighted count, the weighted sum of
power (the code keeps the mean: sum over count, without its rounding) and the
extremes of the energy counter. Of power and energy there is one value each: solar, load
and net go through the same SQL. `SaveReading` is the row with both upserts, one transaction;
`ListGaps`, `ReadSamples` and `Fill` are the three transactions of a backfill
run; `Exit` ends a run anywhere, and it may be started again with another
window. `RebuildRollups` may be called for any window at any time.

What a query answers is an operator: `AveragePower`, `ReadingsSeries` (the stored
ones; a size of table and a step of the chart), `BackfilledSeconds`,
`EnergyDelta`. A mean is kept as numerator and denominator.

**Settings.** `pc` follows `run` of pvs-monitor: `read` (the file is loaded),
`missing`, `seed` (one key per step), `running`, `unconfigured` (exit code 2,
which systemd does not answer with a restart), `stopped`. A request to pvs-api is
in `req` and the keys still to be written in `left`, also one per step, for any
number of concurrent requests. `Exit` and `EndRequest` stand for every way in
which either may end early. `Tables` are those of a new installation and of an
earlier release, which had fewer keys. A value is ordinary, the example address, a
malformed duration or the password mask. `asked`, `raced` and `fresh` are
histories: what a client has written last; which keys it wrote then while a seeding
that had already looked at the table was about to write them, and did; and what
has been written while the daemon runs.

**PanelHealth.** Each action is one of `DevicePoller`, with the powers of the list
(`power`) and of each newest row (`row`), or `Age`: half an hour without a row.
`ListsSeen` gives the lists and powers to look at for each set of known panels.
The clock is taken to go forward and lists to be a second or more apart, since
the code finds the newest row by a time in seconds. A panel in error is taken to
make no power, as the comments of `panelhealth.go` take it, though the code would store
what its record holds.
`EvaluatePanelHealth` is a function of any set of panels, so that the verdict that
the API gives, on the rows, can be compared with the one that the list would give
by itself. `IsPercentile` says which value stands at a rank of the sorted powers
without sorting them.

**Schema, SchemaUpgrade and Migrations.** The schema is a set of names: tables,
and the columns and index that cannot be added twice. The conversions of
migrations 2 to 5 are operators on the rows: state computed from a record
(all-zero becomes `unreachable`), other devices, outages from transitions,
rollups. A migrator follows `migrate`: `Begin` (BEGIN IMMEDIATE and the version
read inside), `ExecSQL`, `ExecData`, `Commit`, again until nothing is left;
`work` is what its transaction sees, and `Exit` loses it. pvs-api waits in
`TryOpen`. `Install` replaces the package while old programs run on. What
programs older than the repository wrote is external, modelled from what the
migrations read.

**PowerStream.** `pc` follows `Monitor.Run` and `runLoop`: `dial`, `read`, the four
steps of a frame (`publish`, `total`, `interval`, `save`), `wait` (the backoff).
`runStats` is a second thread, `stats`, which swaps the interval counter between
any two of these. `conn` tells a live connection from one that is open and dead
and one whose next read fails; `arrived` is what the next read returns. The
poller is its timer and its enabling call. Time passes in ticks, one power frame
to each while the PVS6 sends; steps of the program take no time and a timer that
has run out is acted on before the next tick (`Quiet`). What does take time, a
dial, save or enabling call that hangs, or a process that is not running, is a
disturbance, like a reboot, a failed call or a broken connection: each sets
`calm`, the ticks since the last one, to zero. `Recovery` is the bound the code's timers make:

    max(longest wait, max(ReadTimeout, Interval) + ReconnectInitial) + 1

It is tight: with one less TLC finds a tick without a reading. Not in the
model: a PVS6 that sends no power frames though telemetry is on, and clocks of
different speed.

## 3. The runs

| Run | Module, cfg | Expected | Shows |
|---|---|---|---|
| `poller` | `MCDevicePoller`, `poller.cfg` | pass | six safety properties of outages and rows, and `ImplementsLedger` |
| `backfill` | `MCBackfill`, `backfill.cfg` | pass | rollups and the answers to long ranges follow the rows, repairs stand in gaps, once, and a run leaves nothing to repair |
| `backfill_unpaired` | `backfill_unpaired.cfg` | violation | `RecoverableIsReconstructed` |
| `energy_rollup` | `energy_rollup.cfg` | violation | `NoEnergyFromDecline` |
| `migrations` | `MCMigrations`, `migrations.cfg` | pass | applied once, nothing lost, nothing computed from part of the rows, ready schemas, everybody comes up, `ImplementsUpgrade` |
| `migrations_sole` | `migrations_sole.cfg` | violation | `SoleMigrator` |
| `stream` | `MCPowerStream`, `stream.cfg` | pass | the stream is back after any disturbance within `Recovery`, the statistics add up |
| `settings` | `MCSettings`, `settings.cfg` | pass | what a user sets is kept, the daemon runs on the table, nothing of a rejected request is stored, the daemon comes up |
| `settings_placeholder` | `settings_placeholder.cfg` | violation | `UnconfiguredIsTheFile` |
| `settings_race` | `settings_race.cfg` | violation | `PresentKeysUntouched` |
| `panels` | `MCPanelHealth`, `panels.cfg` | pass | the verdict after a recorded list is the list's own; a large outage is seen, panel by panel, and an odd reading makes none |
| `panels_lost_row` | `panels_lost_row.cfg` | violation | `StoppedIsReported` |

**Bounds and why they are enough.**
The poller is unbounded in time: every state is reached from finitely many
settings. Two panels are needed because a record that does not parse takes the
others of its batch with it; panels do not interact otherwise. The four cases of
`SafetyCases` switch faults off in turn: with store errors; without them but with
unparseable records; dependable; and a new installation.
`backfill` has five ticks, an hour of two and a day of four, so that gaps lie
inside a bucket, cross one, and end at an edge; three live rows make two gaps;
two meter samples and two fills let two runs repair the same gap; two windows
differ in what they cut off. A reconstructed row weighs three, so that weights
mixed up show. `backfill_unpaired` and `energy_rollup` are the same model with
less of it. Symmetry is over the two runs of the tool here and over the panels
in `panels`, and nowhere where liveness is checked.
`migrations` has two moments at which rows are saved, any kind of row at each,
and packages of version 1, 2 and 11: both sides of migrations 2 to 5, all of
which change rows, and of the first package that has pvs-backfill. Two moments
are enough for an outage to open and close or go on. More packages or moments
were too slow with the liveness properties.
A range counts as long from two ticks on (`RollupAfter`), so that its ends
fall inside, at the start and at the end of hours.
`stream` has waits of 1, 2 and 3 ticks, so that the limit cuts a doubled wait off,
a read timeout of 3 and an interval of 4, the slower of the two (by default both
are a minute); `Recovery` is 6. A process reads up to `MaxFrames` = 7 frames, more than
fit into a recovery, and may restart. The bound only keeps the counters finite.

`settings` has four keys, the address, the password, a duration and one that an
earlier release did not have; one client, whose requests hold one key, two with
the mask, two with a malformed duration, or an unknown name; and a config file
that is the installed example, corrected or broken. A second client multiplies the states beyond
what the liveness property allows; the proofs are for any number. `settings_race` begins with
the table of an earlier release, and its client sets the new key.
`panels` has three powers: none, one that is dead beside a full one and too dark
for a verdict by itself, and full. In four of its cases two panels, each the
peer of the other, appear in lists of every kind, with the poller's faults switched
as above; in the fifth an array of five works without faults, of which any number
fails and recovers, or one reads full power over a dim rest. The reference is the
value at three quarters (`RefPercent`, 90 in the code), so that of five panels the second
brightest sets it, which is neither the brightest nor the one in the middle: a
median, which `panelhealth.go:25-29` warns of, would be told apart, as would one odd
reading that sets the reference. At 90 that would take eleven panels; the proof is
for any number and any percentile.

**Fairness.** `settings`: systemd starts the daemon whenever it is down (a pause
of 30 s, so its limit of starts in a short time is not reached), and each step of
a start that is tried at one start after another succeeds at one of them (strong
fairness, because any of them may be cut short). Nothing is assumed of clients
or of whoever edits the file: `ComesUp` is about a daemon with nothing in the way.
`migrations`: systemd restarts the two daemons; a transaction that is not cut
short gets on; a migrator that tries for the lock again and again gets it; a
waiting pvs-api that finds the schema again and again opens it. pvs-backfill has
to be started by hand, so it is never assumed to start.
`UpgradeCompletes` and `ApiComesUp` say so of installations that stop being
replaced. Nothing assumes that programs stop failing: strong fairness covers
attempts cut short.

`stream` needs none: its bound on the recovery is a safety property, and the
urgency of `Quiet`, that a program does what is due before a tick has passed, is
stated in the model.

A deadlock is an error everywhere.

## 4. The proofs

All hold for every value of the constants, under the assumptions named in the
modules (`CasesAssumption`, `RollupsAssumption`, `StepAssumption`, `BackfillAssumption`,
`SchemaAssumption`, `MigrationsAssumption`, `StreamAssumption`, `KeysAssumption`,
`ValuesAssumption`, `InputAssumption`, `PanelAssumption`, `ListsAssumption`), and for runs of any length. `Schema`
itself is fixed: its table of migrations is that of the code.

`SetLemmas`. The sums of the buckets and the extremes of their rows are folds over
sets, so what they are has to be shown by induction over data. The induction
theorems of the library take an operator; `SetInduction` says the same of a *set*
of subsets: if a subset of a finite set belongs to it whenever all its proper
subsets do, then all do. It follows from the well-foundedness of the strict
subset ordering, by way of a least subset that does not belong. With it, every
`MapThenSumSet` is a `Total(w, S)` that exists, is unique, and adds up over disjoint
sets whatever order the fold takes (`SumExists`, `SumUnique`, `TotalStep`,
`TotalUnion`). `Smallest` is the least-number principle.

`DevicePollerProofs`. `Inv` is the type and `BatchInv`: what the loop has still
to visit and what it has queued are disjoint panels of the list, and the memory of
a queued panel is the state it was queued with.
- `TypeCorrect`, `AtMostOneOpen`: directly from `Inv`; the latter needs no
  assumption about faults, since the insert looks for an open row and the close
  closes one.
- `DownPanelsAreInLedger` needs `DownInv`: with a working store, whoever the
  *memory* takes for down has an open outage as well. It is what makes the
  suppressed case of `poll`, which touches no table, keep the invariant, and
  seeding from the open outages is what re-establishes it after a restart.
- `LedgerIsExact` needs `FollowInv`: when every panel had a row before, every open
  outage is known to the memory once it has been seeded.
- `PollerImplementsLedger`: with that, each `VisitInverter` is a `ReportDown` or
  `ReportUp` and every other step a stutter.
- `OneDownRow` and `SuppressedPanelsAreVisible` relate rows already saved and rows
  queued in `toSave`: a panel is never queued as down while a row of
  this outage is in the table, and one that is taken for down is in one or the other.

`BackfillProofs`. The invariant says that each bucket is what its rows would make
it if it were computed anew (`BucketsFollow`), beside types, finite tables, live
rows whose transaction numbers are below the counter (so that a new row *is* new),
and samples that lie in the gap of the run that holds them.
- What keeps it under a live reading is `UpsertIsRebuild`: the upsert of a row
  and the rebuild of the bucket with it are the same, in count, sum and extremes. It
  needs `MeterWeight >= 1`, or a bucket of reconstructed rows would look like one
  that does not exist. Under a fill or a rebuild it is `RebuildFollows`: the range
  covers the bucket of every row inserted, division being monotone.
- `TypeCorrect`, `SampleCountHolds` and `BucketsStayExact` read it off.
- `LongRangesAreExact`: the mean over a set of buckets is the one over all their
  rows (`MeanFollowsRows`, an induction over the set of buckets), the hours of a
  step of the chart are the rows of that step (`WholeSteps`; this is where six
  hours have to be whole hours, `StepAssumption`), and the whole hours of an
  aligned range are the seconds of it (`WholeHours`).
- `ShortRangesGiveNoEnergy` is the part of `NoEnergyFromDecline` that does hold: of
  every range answered from the rows. What `energy_rollup` refutes is the rest.

`BackfillRunsProofs`.
- `RepairsStandInGaps` needs `GapInv`: no row is of the future; a gap that a run
  has listed or is about to fill is silent, it lies between two neighbouring live
  rows more than `MinGap` apart. A listed gap is silent even where the row next to
  it is a reconstructed one, because that one stands in a silent gap itself
  (`GapsAreSilent`); and it remains so, as later live rows are of later seconds
  (`StaysSilent`).
- `SamplesAreUsedOnce` and `RunsRepairAll` are about runs that follow one another
  beside a live stream and meters that go on. `RunInv`: what a run holds, read in
  earlier transactions, is still true of the tables. Its gaps are gaps still and no
  reconstructed row stands in them or at their beginning (`Fresh`), its samples
  are those of the gap, and none that could be recovered in its window, up to the
  last row it could see, is missing. A live row only makes one new gap, which
  ends now, beyond what a run could see, and begins at a live row, since no
  reconstructed row is the last (`LiveRowGaps`, `LiveRowsAreLast`); a meter
  payload of now is in no gap; a fill leaves the other gaps as they are and makes
  smaller ones of its own, in which nothing is left to recover (`FilledGaps`).
- `RecoverableGapsHaveSamples` is the part of `RecoverableIsReconstructed` that
  holds: while all payloads of the meters are complete, also when runs overlap.

`MigrationsProofs`. `Inv` is type, `TxInv` (whoever is in a transaction has the
lock, has read the present version, and works on the present database as far as
it has got), `SchemaInv` (the tables are those of the version), and two of the
properties. From it:
- `MigratedExactlyOnce`, `NoDuplicates`: the lock is taken before the version is
  read, so no other commit comes between;
- `SchemaIsReady`: a version never goes back;
- `MigrationsImplementUpgrade`: `Commit` is `Migrate`, saves are `Save`, all
  other steps stutter. `SameMigrations` and `SameContents` show that the operators
  of the two instances of `Schema` are the same;
- `RowsAreKept`: a row is kept by each conversion (`KeptMigrated`, one lemma for
  migration 2, which alone moves it), and by whatever grows;
- `AllIsComputed`: `SoleInv`, as long as pvs-monitor alone migrates, the version is
  neither beyond the package nor beyond a pvs-monitor that runs, so that one
  that saves is of the very version and writes neither inverter rows of the old
  kind after migration 4 nor readings without rollups after 5; and `RowsInv`, which
  table has rows at which version, one to a moment. That the outages migration 4
  makes of such rows cover the error rows and no others is `CoveredIsError` and
  `ErrorIsCovered`: an error row belongs to the outage opened by the first of the
  errors that it follows without another row between. This is what the code does
  (`ComputedInv`); the property claims it of error and working rows alone, see section 5.

`PowerStreamProofs`. `TypeCorrect` and `EveryReadingIsReported` are inductive as they
stand. `StreamRecovers` needs `StreamInv`, which bounds `calm` by the timer that
is running, for each way in which the stream can be off: an unusable
connection is no older than the read's timer (`BrokenInv`); telemetry
that is off is found at the poller's next tick (`OffInv`); a wait goes on for as
long as its backoff says, and is a short one if the connection was lost
(`WaitInv`). None of these can last for `Recovery` ticks, so that after so many
the connection is live, telemetry is on and every tick's frame is read
(`BackInv`). A disturbance sets `calm` to zero and so re-establishes every part
(`DisturbanceStep`); what the program does hands `calm` from one timer to the
next (`ProgramStep`); only a tick makes it grow, and moves a timer with it
(`TickStep`).

`SettingsProofs`. `IInv` is the type and the three properties with `Loaded` (until it has
read the table the daemon knows the values of some file), `Seeding` (a key that the loop
will not write is in the table; one that it will was set by no client before, as the table
had no value when it was read, which is `UserValueKept` at that moment, so that what a
client has set of it was set since, `raced`, and is still there) and `Handling` (what
is left of a request is part of what it may write).
- `UserValueIsKept`: a value that a client has set is undone in the way of `settings_race`
  and in no other; a key whose seeding is stopped before it writes is safe again.
- `GivesUpByTable` is the remedy that the finding about the config file leaves: by
  the time the daemon gives up its table is complete and the file does not count, so
  an address that a client has set, other than the example's, is in the way only
  if it was lost in that race.

`PanelHealthProofs`. From a typed state every step of `PanelSpec` is one of the poller
or a stutter (`PollerStepOrStutter`), so the poller's `TypeOK` holds of it (`PollerTypes`).
`PanelInv` adds that a panel without data has a row without power, and that in the
loop a listed panel is still to be visited, queued, or without data.
- `VerdictCurrent`: a panel whose record is not saved is without data and has a row
  that says so, so that after the save the rows have the powers of the list; and if
  the rows are still too old nothing was saved, all powers are 0, and neither
  verdict is one.
- `LargeOutageSeen`: `PercentileExists` (some value has the rank, by a least element
  of the powers at or above it) and `ReferenceInTop`: a set of panels that holds with
  each one all brighter ones holds the one of the reference just if it has its
  share of the array, by a count of the panels on either side. The panels that make
  the minimum are such a set, and those that outshine a given panel are
  (`DeadBelow`).

**Only model-checked**: liveness (`UpgradeCompletes`, `ApiComesUp`, `ComesUp`),
which rests on fairness and ENABLED. Every invariant and every action property
of a passing run, and both refinements, are proved.

## 5. Where code and documents disagree

Each is a run that TLC refutes; `PROJECT.json` quotes the lines.

1. `backfill_unpaired`: a gap counts as recoverable by one meter's payloads, and
   is filled from pairs.
2. `energy_rollup`: over more than 48 h the energy of a counter that runs
   backward is MAX minus MIN, which `energy_delta.sql` explains to be wrong.
3. `migrations_sole`: pvs-backfill migrates, also in a dry run.
4. `settings_placeholder`: the first start with the installed example file writes
   its placeholder address into the settings table, which wins over the file from
   then on: after editing the file, as the message asks, the daemon is still
   unconfigured. A PATCH of pvs-api repairs it.
5. `settings_race`: after an upgrade a client sets a key that the release has
   brought, between SeedMissingSettings' look at the table and its write of that key;
   the write replaces what the client was told is stored, though the comment says that
   keys already present are left untouched. On a first start SeedSettingsIfEmpty
   does the same to any key.
6. `panels_lost_row`: the daemon stops between opening an outage and saving the
   row that shows it; after the restart the panel is taken for one whose row has
   been saved, and its old row counts as producing.

Three more were met and have no run of their own: a *new* panel whose outage was opened
and whose first row was lost is not seeded, so its outage stays open after it
works again (`device_poller.go:134` against the comment at 113-115; this is why
`LedgerFollowsReports` is about panels that had a row before); migration 4 ends an
outage at a row without contact (`sqlite.go:331`), where its comment at 302-303 says that
working closes it (so `ComputedFromAll` claims nothing of those rows); and in an array
of ten panels or fewer a single odd reading does set the reference
(`panelhealth.go:145` against 44-46), as a tenth of them is one.

## 6. What is not modelled, and the plan

Next, in this order:

1. **UI**: the fetch tokens of `overview.js` and the form of `events.js`, whose
   awaits interleave with clicks.
2. **One answer of pvs-api** put together from several snapshots, beside writers.
3. **Dates**: resolveRange of pvs-mcp, the age test of the heartbeat.
4. **Proofs**: the same for what these add; of the model as it is only liveness
   is unproved.

Not planned: static file serving and the reverse proxy of pvs-ui, packaging,
TLS fingerprints and the version, which keep no state; `backup.sh`, `install.sh`
and `pvs-update.sh`, sequences of commands that run alone; the text that pvs-mcp
formats; rendering in the browser. Maintenance events are single statements on
single rows.
