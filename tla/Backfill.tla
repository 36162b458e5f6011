------------------------------ MODULE Backfill ------------------------------
(***************************************************************************)
(* Everyone who writes the readings of the store, and pvs-backfill, which  *)
(* repairs the gaps in them from the payloads of the Power Meters          *)
(* (cmd/pvs-backfill/main.go, store/sqlite/sqlite.go).                     *)
(*                                                                         *)
(* A run of pvs-backfill lists the gaps once, then reads the samples of a  *)
(* gap and fills it, each in a transaction of its own, while pvs-monitor   *)
(* goes on writing; it may end between any two of these, and be run again. *)
(*                                                                         *)
(* Simplifications: a run without -apply, which writes nothing, and the    *)
(* backup, which the database does not show, are left out; a failed write  *)
(* of pvs-monitor is one that does not happen; a meter payload is visible  *)
(* in the second that it was received in, and there is one per second.     *)
(***************************************************************************)
EXTENDS Rollups

CONSTANTS
  Tools,     \* the runs of pvs-backfill there may be at the same time
  Windows,   \* the -from and -to they may be given
  Payloads,  \* the [kw, kwh] of live readings
  MeterData, \* the [kw, kwh, paired] of meter payloads
  MaxLive,   \* bound: how many live readings are saved
  MaxMeters, \* bound: how many meter payloads are saved
  MaxFills   \* bound: how many gaps are filled

ASSUME BackfillAssumption ==
  /\ Windows \subseteq [from : Times, to : Times]
  /\ Payloads \subseteq [kw : Int, kwh : Int]
  /\ MeterData \subseteq [kw : Int, kwh : Int, paired : BOOLEAN]
  /\ {MaxLive, MaxMeters, MaxFills} \subseteq Nat

VARIABLES
  now,      \* the clock
  rows,     \* readings
  rollup,   \* readings_hourly and readings_daily
  meters,   \* aux_device_readings of the Power Meters
  live,     \* how many live readings have been saved
  fills,    \* how many gaps have been filled
  \* a run of pvs-backfill
  pc,       \* "idle", "next" gap, "fill" it, "done"
  queue,    \* the recoverable gaps that it has still to look at
  gap,      \* the gap that it is about to fill
  samples,  \* the samples of that gap
  window,   \* -from and -to
  \* not in the code: histories
  upto,     \* the end of the window of a run, cut at the last row it could see
  alone     \* no two runs have been under way at the same time

db   == <<rows, rollup, meters, live, fills>>
tool == <<pc, queue, gap, samples, window, upto, alone>>
vars == <<now, rows, rollup, meters, live, fills, pc, queue, gap, samples,
          window, upto, alone>>

GapRecords == [lo : Times, hi : Times]
NoGap      == [lo |-> 0, hi |-> 0]
NoWindow   == [from |-> 0, to |-> 0]

TypeOK ==
  /\ now \in Times
  /\ rows \subseteq Rows
  /\ rollup \in [Sizes -> [Times -> Buckets]]
  /\ meters \subseteq Meters
  /\ live \in Nat /\ fills \in Nat
  /\ pc \in [Tools -> {"idle", "next", "fill", "done"}]
  /\ queue \in [Tools -> SUBSET GapRecords]
  /\ gap \in [Tools -> GapRecords]
  /\ samples \in [Tools -> SUBSET Meters]
  /\ upto \in [Tools -> Times]
  /\ window \in [Tools -> Windows \cup {NoWindow}]
  /\ alone \in BOOLEAN

Init ==
  /\ now = 0
  /\ rows = {}
  /\ rollup = [z \in Sizes |-> [b \in Times |-> NoBucket]]
  /\ meters = {}
  /\ live = 0 /\ fills = 0
  /\ pc = [t \in Tools |-> "idle"]
  /\ queue = [t \in Tools |-> {}]
  /\ gap = [t \in Tools |-> NoGap]
  /\ samples = [t \in Tools |-> {}]
  /\ upto = [t \in Tools |-> 0]
  /\ window = [t \in Tools |-> NoWindow]
  /\ alone = TRUE

-----------------------------------------------------------------------------
(* pvs-monitor.                                                            *)

Clock ==
  /\ now < MaxTime
  /\ now' = now + 1
  /\ UNCHANGED <<db, tool>>

\* A reading of the live stream: the row and both its buckets, at once.
SaveReading(p) ==
  LET r == [tx |-> live, ts |-> now, kw |-> p.kw, kwh |-> p.kwh, source |-> "live"]
  IN  /\ live < MaxLive
      /\ rows' = rows \cup {r}
      /\ rollup' = [z \in Sizes |->
                      [rollup[z] EXCEPT ![Bucket(now, z)] = Upsert(@, r)]]
      /\ live' = live + 1
      /\ UNCHANGED <<now, meters, fills, tool>>

\* A poll of the Power Meters, stored by SaveDevices.
SaveMeters(d) ==
  /\ \A m \in meters : m.ts # now
  /\ Cardinality(meters) < MaxMeters
  /\ meters' = meters \cup {[ts |-> now, kw |-> d.kw, kwh |-> d.kwh, paired |-> d.paired]}
  /\ UNCHANGED <<now, rows, rollup, live, fills, tool>>

\* The maintenance call; it may be made for any range at any time.
RebuildRollups(since, until) ==
  /\ since <= until
  /\ rollup' = RebuildRange(rollup, rows, since, until)
  /\ UNCHANGED <<now, rows, meters, live, fills, tool>>

-----------------------------------------------------------------------------
(* pvs-backfill -apply.                                                    *)

\* The gaps in the window are listed, and the ones that cannot be recovered
\* are skipped.  (A run that finds no readings ends at once.)
ListGaps(t) ==
  /\ pc[t] = "idle"
  /\ rows # {}
  /\ \E w \in Windows :
       /\ queue' = [queue EXCEPT ![t] = {g \in Gaps(rows) : /\ w.from <= g.lo /\ g.hi <= w.to
                                                            /\ Recoverable(meters, g)}]
       /\ upto' = [upto EXCEPT ![t] = Min({w.to, Max({r.ts : r \in rows})})]
       /\ window' = [window EXCEPT ![t] = w]
  /\ pc' = [pc EXCEPT ![t] = "next"]
  /\ alone' = (alone /\ \A u \in Tools : pc[u] = "idle")
  /\ UNCHANGED <<now, db, gap, samples>>

\* The loop takes the gaps in the order of time, and reads the samples of each.
ReadSamples(t) ==
  /\ pc[t] = "next"
  /\ \E g \in queue[t] :
       /\ \A h \in queue[t] : g.lo <= h.lo
       /\ queue' = [queue EXCEPT ![t] = @ \ {g}]
       /\ gap' = [gap EXCEPT ![t] = g]
       /\ samples' = [samples EXCEPT ![t] = MeterSamples(meters, g.lo, g.hi)]
  /\ pc' = [pc EXCEPT ![t] = "fill"]
  /\ UNCHANGED <<now, db, window, upto, alone>>

\* Mutant: the row is stamped with the beginning of the time it stands for.
ReconstructedEarly(m) ==
  [tx |-> fills, ts |-> m.ts - 1, kw |-> m.kw, kwh |-> m.kwh, source |-> "meter-1min"]

\* The row made from a sample.
Reconstructed(m) ==
  [tx |-> fills, ts |-> m.ts, kw |-> m.kw, kwh |-> m.kwh, source |-> "meter-1min"]

\* BackfillRange: the rows are inserted and the buckets of the gap rebuilt.
Fill(t) ==
  /\ pc[t] = "fill"
  /\ fills < MaxFills
  /\ rows' = rows \cup {Reconstructed(m) : m \in samples[t]}
  /\ rollup' = RebuildRange(rollup, rows', gap[t].lo, gap[t].hi)
  /\ fills' = fills + 1
  /\ gap' = [gap EXCEPT ![t] = NoGap]
  /\ samples' = [samples EXCEPT ![t] = {}]
  /\ pc' = [pc EXCEPT ![t] = "next"]
  /\ UNCHANGED <<now, meters, live, queue, window, upto, alone>>

\* No gap is left.
Finish(t) ==
  /\ pc[t] = "next"
  /\ queue[t] = {}
  /\ pc' = [pc EXCEPT ![t] = "done"]
  /\ UNCHANGED <<now, db, queue, gap, samples, window, upto, alone>>

\* The run has returned, failed or been killed; it may be started again.
Exit(t) ==
  /\ pc[t] # "idle"
  /\ pc' = [pc EXCEPT ![t] = "idle"]
  /\ queue' = [queue EXCEPT ![t] = {}]
  /\ gap' = [gap EXCEPT ![t] = NoGap]
  /\ samples' = [samples EXCEPT ![t] = {}]
  /\ upto' = [upto EXCEPT ![t] = 0]
  /\ window' = [window EXCEPT ![t] = NoWindow]
  /\ UNCHANGED <<now, db, alone>>

Next ==
  \/ Clock
  \/ \E p \in Payloads : SaveReading(p)
  \/ \E d \in MeterData : SaveMeters(d)
  \/ \E w \in Windows : RebuildRollups(w.from, w.to)
  \/ \E t \in Tools : ListGaps(t) \/ ReadSamples(t) \/ Fill(t) \/ Finish(t) \/ Exit(t)

Spec == Init /\ [][Next]_vars

-----------------------------------------------------------------------------
(* Safety.                                                                 *)

\* sample_count is the time a bucket's rows stand for, however live readings,
\* repairs and rebuilds of overlapping ranges follow each other: the upsert of
\* SaveReading and the rebuild of BackfillRange agree on what a bucket is
\* (upsert_hourly.sql, rebuild_hourly_range.sql).
SampleCountIsTime ==
  \A z \in Sizes, b \in Times :
    LET S == {r \in rows : r.ts \div z = b}
    IN  rollup[z][b].n = Cardinality({r \in S : r.source = "live"})
                           + MeterWeight * Cardinality({r \in S : r.source # "live"})

\* The rest of a bucket follows its rows as well: the average is weighted by
\* that time, and the extremes of the counters are those of some row, also
\* when readings go on arriving in a bucket that has been repaired.
BucketsAreExact ==
  \A z \in Sizes, b \in Times :
    LET S == {r \in rows : r.ts \div z = b}
    IN  S # {} =>
          /\ rollup[z][b].sum =
               MapThenSumSet(LAMBDA r : r.kw * (IF r.source = "live" THEN 1 ELSE MeterWeight), S)
          /\ rollup[z][b].lo = Min({r.kwh : r \in S})
          /\ rollup[z][b].hi = Max({r.kwh : r \in S})

\* What a long range answers is what the rows say: the average, the points of
\* the 6-hourly and of the daily chart are those of the rows of the whole hours
\* and days touched, each weighted by the time it stands for, though the two
\* tables they come from are kept apart.  Of whole hours, the seconds that are
\* not reported as reconstructed are the live rows (AveragePower,
\* ReadingsSeries, BackfilledSeconds).
MeanOf(S) == [n   |-> SampleCount(S), sum |-> PowerSum(S)]

PointsOf(S, step) ==
  [p \in {r.ts \div step : r \in S} |-> MeanOf({r \in S : r.ts \div step = p})]

LongRangesFollowRows ==
  \A since, until \in Times :
    until - since > RollupAfter =>
      LET Within(z) == {r \in rows : since \div z <= r.ts \div z /\ r.ts \div z <= until \div z}
          average   == AveragePower(rows, rollup, since, until)
      IN  /\ average = MeanOf(Within(Hour))
          /\ ReadingsSeries(rollup, since, until, Hour, SixHours) = PointsOf(Within(Hour), SixHours)
          /\ ReadingsSeries(rollup, since, until, Day, Day) = PointsOf(Within(Day), Day)
          /\ since % Hour = 0 /\ (until + 1) % Hour = 0 =>
               average.n - BackfilledSeconds(rows, since, until + 1)
                 = Cardinality({r \in LiveRows(rows) : since <= r.ts /\ r.ts <= until})

\* A reconstructed row never stands where the live stream was recording: the
\* two live rows around it are more than MinGap apart, even when the rows were
\* listed before another run filled the same gap (run, MeterSamples).
ReconstructedOnlyInGaps ==
  \A r \in rows \ LiveRows(rows) :
    \E lo, hi \in {q.ts : q \in LiveRows(rows)} :
      /\ lo <= r.ts /\ r.ts < hi
      /\ hi - lo > MinGap
      /\ \A q \in LiveRows(rows) : q.ts <= lo \/ q.ts >= hi

\* One run at a time, and meters whose payloads are complete.
Orderly == alone /\ \A m \in meters : m.paired

\* Then a sample is used once, however often a run is cut short and repeated,
\* with whatever window: what has been filled is not a gap any more (run).
SamplesUsedOnce ==
  Orderly =>
    \A r, q \in rows : r.source # "live" /\ q.source # "live" /\ r.ts = q.ts => r = q

\* And a run that comes to its end leaves nothing in its window to recover of
\* what it could see when it listed the gaps (run).
RunRepairsAll ==
  Orderly =>
    \A t \in Tools : pc[t] = "done" =>
      \A g \in Gaps(rows) :
        window[t].from <= g.lo /\ g.hi <= upto[t] => ~Recoverable(meters, g)

\* A gap with meter samples inside can be reconstructed (ReadingGap): when it
\* is about to be filled there is something to fill it with.
RecoverableIsReconstructed ==
  \A t \in Tools : pc[t] = "fill" => samples[t] # {}

\* A counter that has only ever run backward, or stood still, has not measured
\* energy, over whatever range (energy_delta.sql).
OnlyDeclines ==
  \A r, q \in rows : /\ r.ts < q.ts => q.kwh <= r.kwh
                     /\ r.ts = q.ts => r.kwh = q.kwh

NoEnergyFromDecline ==
  OnlyDeclines =>
    \A since, until \in Times :
      since <= until => EnergyDelta(rows, rollup, since, until) = {0}
=============================================================================
