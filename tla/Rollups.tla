------------------------------ MODULE Rollups ------------------------------
(***************************************************************************)
(* The readings table of the store, its hourly and daily rollups, and the  *)
(* queries that relate them (store/sqlite/sqlite.go and the SQL it runs).  *)
(*                                                                         *)
(* Simplifications: time is counted in seconds from 0 and a bucket is      *)
(* named by its index, received_at / size, instead of by its first second; *)
(* one power stands for the three of a row and one counter for the kWh     *)
(* ones; a bucket's average is kept as the product avg_kw * sample_count,  *)
(* which both the running mean of the upsert and the SUM(kw * w) of the    *)
(* rebuild determine, without the rounding of a REAL.                      *)
(***************************************************************************)
EXTENDS Integers, FiniteSets, FiniteSetsExt

CONSTANTS
  MaxTime,      \* bound: the last second that is looked at
  Hour, Day,    \* the sizes of the two kinds of buckets
  SixHours,     \* the step of a series over 14 to 90 days
  MeterWeight,  \* the seconds that a reconstructed row stands for (60)
  MinGap,       \* pvs-backfill -min-gap
  RollupAfter   \* a query over more than this reads the rollups (48 h)

ASSUME RollupsAssumption ==
  /\ MaxTime \in Nat
  /\ {Hour, Day, SixHours, MeterWeight} \subseteq Nat \ {0}
  /\ {MinGap, RollupAfter} \subseteq Nat

\* Six hours are whole hours.
ASSUME StepAssumption == SixHours % Hour = 0

Times == 0 .. MaxTime
Sizes == {Hour, Day}

\* A row of readings: the number of the write tells apart two rows of
\* a source and a second, and "live" stands for a NULL source.
Rows == [tx : Nat, ts : Times, kw : Int, kwh : Int, source : {"live", "meter-1min"}]

\* One poll of the two Power Meters: METER-C recorded something at ts, and
\* paired says that both meters did, with numbers in every field.
Meters == [ts : Times, kw : Int, kwh : Int, paired : BOOLEAN]

-----------------------------------------------------------------------------
(* Rollups.                                                                *)

Bucket(ts, size) == ts \div size

\* A bucket of a rollup table; the table has no row for NoBucket.
Buckets  == [n : Nat, sum : Int, lo : Int, hi : Int]
NoBucket == [n |-> 0, sum |-> 0, lo |-> 0, hi |-> 0]

\* Mutant: every row weighs the same.
SecondPerRow(rows) == Cardinality(rows)

LiveRows(rows) == {r \in rows : r.source = "live"}

\* The seconds some rows stand for: one each if live, MeterWeight if not.
SampleCount(rows) ==
  Cardinality(LiveRows(rows)) + MeterWeight * Cardinality(rows \ LiveRows(rows))

\* The sum of the powers of some rows, weighted by these seconds.
PowerSum(rows) ==
  MapThenSumSet(LAMBDA r : IF r.source = "live" THEN r.kw ELSE r.kw * MeterWeight, rows)

\* The rows of a bucket.
InBucket(rows, size, b) == {r \in rows : Bucket(r.ts, size) = b}

\* A bucket computed from scratch.
Recompute(rows, size, b) ==
  LET S == InBucket(rows, size, b)
  IN  IF S = {} THEN NoBucket
      ELSE [n   |-> SampleCount(S),
            sum |-> PowerSum(S),
            lo  |-> Min({r.kwh : r \in S}),
            hi  |-> Max({r.kwh : r \in S})]

\* The bucket after a live row is added to it.
Upsert(old, r) ==
  IF old = NoBucket THEN [n |-> 1, sum |-> r.kw, lo |-> r.kwh, hi |-> r.kwh]
  ELSE [n   |-> old.n + 1,
        sum |-> old.sum + r.kw,
        lo  |-> Min({old.lo, r.kwh}),
        hi  |-> Max({old.hi, r.kwh})]

\* Mutant: the bucket that holds until is left out.
RebuildUpTo(rollup, rows, since, until) ==
  [z \in Sizes |-> [b \in Times |->
     IF Bucket(since, z) <= b /\ b < Bucket(until, z)
     THEN Recompute(rows, z, b) ELSE rollup[z][b]]]

\* Every bucket that overlaps since .. until is deleted and computed anew.
RebuildRange(rollup, rows, since, until) ==
  [z \in Sizes |-> [b \in Times |->
     IF b \in Bucket(since, z) .. Bucket(until, z)
     THEN Recompute(rows, z, b) ELSE rollup[z][b]]]

-----------------------------------------------------------------------------
(* Repairing a gap.                                                        *)

\* Mutant: the rows at its ends need not be consecutive.
AnyGaps(rows) ==
  LET T == {r.ts : r \in rows}
  IN  {g \in [lo : T, hi : T] : g.hi - g.lo > MinGap}

\* Two consecutive rows that are more than MinGap apart.
Gaps(rows) ==
  LET T == {r.ts : r \in rows}
  IN  {g \in [lo : T, hi : T] : /\ g.hi - g.lo > MinGap
                                /\ \A t \in T : t <= g.lo \/ t >= g.hi}

\* Mutant: a sample at an end of the gap counts.
TouchedByMeter(meters, g) == \E m \in meters : g.lo <= m.ts /\ m.ts <= g.hi

\* METER-C recorded something strictly inside the gap.
Recoverable(meters, g) == \E m \in meters : g.lo < m.ts /\ m.ts < g.hi

\* Mutant: the last second of the gap is left out.
SamplesBefore(meters, since, until) ==
  {m \in meters : m.paired /\ since <= m.ts /\ m.ts < until - 1}

\* The samples from which rows can be made.
MeterSamples(meters, since, until) ==
  {m \in meters : m.paired /\ since <= m.ts /\ m.ts < until}

-----------------------------------------------------------------------------
(* Averages over a range.  A mean is the pair of its numerator and its     *)
(* denominator.                                                            *)

\* Mutant: the beginning of the range is not rounded down.
BegunWithin(since, until, size) == {b \in Times : since <= b * size /\ b * size <= until}

\* The buckets from that of since to that of until.
Touched(since, until, size) == Bucket(since, size) .. Bucket(until, size)

\* The mean over some buckets of a table, weighted by their sample_count.
WeightedMean(table, B) ==
  [n   |-> MapThenSumSet(LAMBDA b : table[b].n, B),
   sum |-> MapThenSumSet(LAMBDA b : table[b].sum, B)]

PlainMean(rows) ==
  [n |-> Cardinality(rows), sum |-> MapThenSumSet(LAMBDA r : r.kw, rows)]

\* The average power: of the hours touched, or of the rows of a short range.
AveragePower(rows, rollup, since, until) ==
  IF until - since > RollupAfter
  THEN WeightedMean(rollup[Hour], Touched(since, until, Hour))
  ELSE PlainMean({r \in rows : since <= r.ts /\ r.ts <= until})

\* The points of a chart: the buckets of a table of this size that exist,
\* grouped by step.
ReadingsSeries(rollup, since, until, size, step) ==
  LET B == {b \in Touched(since, until, size) : rollup[size][b] # NoBucket}
  IN  [p \in {Bucket(b * size, step) : b \in B} |->
         WeightedMean(rollup[size], {b \in B : Bucket(b * size, step) = p})]

\* The seconds of a range that reconstructed rows stand for.
BackfilledSeconds(rows, since, until) ==
  MeterWeight * Cardinality({r \in rows \ LiveRows(rows) : since <= r.ts /\ r.ts < until})

-----------------------------------------------------------------------------
(* Energy over a range.                                                    *)

\* Last minus first, never negative; SQLite picks any of the rows of a second.
EnergyDeltaRaw(rows, since, until) ==
  LET S     == {r \in rows : since <= r.ts /\ r.ts <= until}
      first == {r \in S : \A q \in S : r.ts <= q.ts}
      final == {r \in S : \A q \in S : q.ts <= r.ts}
  IN  IF S = {} THEN {0} ELSE {Max({0, l.kwh - f.kwh}) : l \in final, f \in first}

\* Maximum minus minimum of the hourly buckets from the one of since on.
EnergyDeltaRollup(rollup, since, until) ==
  LET B == {rollup[Hour][b] : b \in Touched(since, until, Hour)} \ {NoBucket}
  IN  IF B = {} THEN {0} ELSE {Max({b.hi : b \in B}) - Min({b.lo : b \in B})}

\* The totals that may be returned for a range.
EnergyDelta(rows, rollup, since, until) ==
  IF until - since > RollupAfter
  THEN EnergyDeltaRollup(rollup, since, until)
  ELSE EnergyDeltaRaw(rows, since, until)
=============================================================================
