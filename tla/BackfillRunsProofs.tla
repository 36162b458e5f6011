------------------------- MODULE BackfillRunsProofs -------------------------
(***************************************************************************)
(* Theorems about the runs of pvs-backfill, for any number of them beside  *)
(* pvs-monitor and each other: where the rows they make may stand, and,    *)
(* for runs that follow one another, that each sample is used once and     *)
(* that nothing which can be recovered is left.                            *)
(***************************************************************************)
EXTENDS BackfillProofs

-----------------------------------------------------------------------------
(* Where the reconstructed rows stand.                                     *)

LiveTimes(R) == {q.ts : q \in LiveRows(R)}

\* Two neighbours among the seconds of T, more than MinGap apart.
Neighbours(T, lo, hi) ==
  lo \in T /\ hi \in T /\ hi - lo > MinGap /\ \A x \in T : x <= lo \/ x >= hi

\* x lies between two such neighbours; all of a .. b does.
Between(T, x)   == \E lo, hi \in T : Neighbours(T, lo, hi) /\ lo <= x /\ x < hi
Silent(T, a, b) == \E lo, hi \in T : Neighbours(T, lo, hi) /\ lo <= a /\ b <= hi

LEMMA PropertyIsBetween ==
  ReconstructedOnlyInGaps <=> \A r \in rows \ LiveRows(rows) : Between(LiveTimes(rows), r.ts)
<1> DEFINE T == LiveTimes(rows)
<1>1. ASSUME NEW lo, NEW hi
      PROVE  (\A x \in T : x <= lo \/ x >= hi)
               <=> (\A q \in LiveRows(rows) : q.ts <= lo \/ q.ts >= hi)
  BY DEF LiveTimes
<1>2. T = {q.ts : q \in LiveRows(rows)}
  BY DEF LiveTimes
<1>3. ASSUME NEW x
      PROVE  Between(T, x)
               <=> \E lo, hi \in T : /\ lo <= x /\ x < hi /\ hi - lo > MinGap
                                    /\ \A q \in LiveRows(rows) : q.ts <= lo \/ q.ts >= hi
  BY <1>1, Zenon DEF Between, Neighbours
<1> HIDE DEF T
<1> QED
  BY <1>2, <1>3, Zenon DEF ReconstructedOnlyInGaps, T

\* Live rows that come later do not disturb what has been silent.
LEMMA StaysSilent ==
  ASSUME NEW T, NEW U, NEW t \in Times, T \subseteq Times, T \subseteq U, U \subseteq T \cup {t},
         \A x \in T : x <= t
  PROVE  /\ \A a, b \in Times : Silent(T, a, b) => Silent(U, a, b)
         /\ \A x \in Times : Between(T, x) => Between(U, x)
<1>1. ASSUME NEW lo \in T, NEW hi \in T, Neighbours(T, lo, hi)
      PROVE  Neighbours(U, lo, hi)
  BY <1>1 DEF Neighbours
<1> QED
  BY <1>1 DEF Silent, Between

\* What lies in a silent stretch lies between two neighbours.
LEMMA SilentBetween ==
  ASSUME NEW T \in SUBSET Times, NEW a \in Times, NEW b \in Times, NEW x \in Times,
         Silent(T, a, b), a <= x, x < b
  PROVE  Between(T, x)
<1>1. PICK lo \in T, hi \in T : Neighbours(T, lo, hi) /\ lo <= a /\ b <= hi
  BY DEF Silent
<1>2. lo <= x /\ x < hi
  BY <1>1 DEF Times
<1> QED
  BY <1>1, <1>2 DEF Between

\* A gap between two rows is silent, also when one or both are reconstructed:
\* such a row stands between two live neighbours, and they are no nearer than
\* the rows at the ends of the gap.
LEMMA GapsAreSilent ==
  ASSUME TablesInv, \A r \in rows \ LiveRows(rows) : Between(LiveTimes(rows), r.ts),
         NEW g \in Gaps(rows)
  PROVE  Silent(LiveTimes(rows), g.lo, g.hi)
<1> DEFINE T == LiveTimes(rows)
           A == {r.ts : r \in rows}
<1>1. /\ g.lo \in A /\ g.hi \in A /\ g.hi - g.lo > MinGap
      /\ \A x \in A : x <= g.lo \/ x >= g.hi
  BY DEF Gaps
<1>2. T \subseteq A /\ A \subseteq Times
  BY DEF TablesInv, Rows, LiveTimes, LiveRows
<1>3. \A x \in A \ T : Between(T, x)
  BY DEF LiveTimes
<1> HIDE DEF T, A
<1>4. g.lo < g.hi /\ g.lo \in Times /\ g.hi \in Times
  <2>1. g.lo \in Times /\ g.hi \in Times
    BY <1>1, <1>2
  <2>2. MinGap \in Nat
    BY RollupsAssumption
  <2> QED
    BY <1>1, <2>1, <2>2 DEF Times
<1>5. CASE g.lo \in T /\ g.hi \in T
  <2>1. Neighbours(T, g.lo, g.hi)
    BY <1>1, <1>2, <1>5 DEF Neighbours
  <2> QED
    BY <1>4, <1>5, <2>1 DEF Silent, Times, T
<1>6. CASE g.lo \notin T
  <2>1. PICK lo \in T, hi \in T : Neighbours(T, lo, hi) /\ lo <= g.lo /\ g.lo < hi
    BY <1>1, <1>3, <1>6 DEF Between
  <2>2. hi \in A /\ hi \in Times
    BY <1>2
  <2>3. g.hi <= hi
    BY <1>1, <1>4, <2>1, <2>2 DEF Times
  <2> QED
    BY <2>1, <2>3 DEF Silent, T
<1>7. CASE g.lo \in T /\ g.hi \notin T
  <2>1. PICK lo \in T, hi \in T : Neighbours(T, lo, hi) /\ lo <= g.hi /\ g.hi < hi
    BY <1>1, <1>3, <1>7 DEF Between
  <2>2. lo # g.hi /\ lo \in Times /\ hi \in Times
    BY <1>2, <1>7, <2>1
  <2>3. lo <= g.lo
    BY <1>1, <1>2, <1>4, <2>1, <2>2 DEF Times
  <2>4. g.hi <= hi
    BY <1>4, <2>1, <2>2 DEF Times
  <2> QED
    BY <2>1, <2>3, <2>4 DEF Silent, T
<1> QED
  BY <1>5, <1>6, <1>7

\* No row is of the future, every gap that a run has in hand is silent, and so
\* is the place of every reconstructed row.
GapInv ==
  /\ \A r \in rows : r.ts <= now
  /\ \A t \in Tools : \A g \in queue[t] : Silent(LiveTimes(rows), g.lo, g.hi)
  /\ \A t \in Tools : pc[t] = "fill" => Silent(LiveTimes(rows), gap[t].lo, gap[t].hi)
  /\ \A r \in rows \ LiveRows(rows) : Between(LiveTimes(rows), r.ts)

LEMMA GapInit == Init => GapInv
<1> SUFFICES ASSUME Init PROVE GapInv
  OBVIOUS
<1>1. rows = {} /\ LiveRows(rows) = {}
  BY DEF Init, LiveRows
<1>2. \A t \in Tools : queue[t] = {} /\ pc[t] # "fill"
  BY DEF Init
<1> QED
  BY <1>1, <1>2 DEF GapInv

\* What a step does to the readings is all that matters to what is silent.
LEMMA SilenceKept ==
  ASSUME Inv, GapInv, LiveRows(rows) \subseteq LiveRows(rows'),
         LiveTimes(rows') \subseteq LiveTimes(rows) \cup {now}
  PROVE  /\ \A a, b \in Times :
              Silent(LiveTimes(rows), a, b) => Silent(LiveTimes(rows'), a, b)
         /\ \A x \in Times : Between(LiveTimes(rows), x) => Between(LiveTimes(rows'), x)
<1> DEFINE T == LiveTimes(rows)
           U == LiveTimes(rows')
<1>1. T \subseteq U /\ U \subseteq T \cup {now}
  BY DEF LiveTimes
<1>2. T \subseteq Times /\ now \in Times
  BY DEF Inv, TablesInv, LiveTimes, LiveRows, Rows
<1>3. \A x \in T : x <= now
  BY DEF GapInv, LiveTimes, LiveRows
<1> HIDE DEF T, U
<1>4. /\ \A a, b \in Times : Silent(T, a, b) => Silent(U, a, b)
      /\ \A x \in Times : Between(T, x) => Between(U, x)
  BY <1>1, <1>2, <1>3, StaysSilent
<1> QED
  BY <1>4 DEF T, U

LEMMA SaveReadingGap ==
  ASSUME Inv, GapInv, NEW p \in Payloads, SaveReading(p)
  PROVE  GapInv'
<1>1. PICK r : r.ts = now /\ r.source = "live" /\ rows' = rows \cup {r}
  BY DEF SaveReading
<1>2. UNCHANGED <<now, pc, queue, gap>>
  BY DEF SaveReading, tool
<1>3. LiveRows(rows') = LiveRows(rows) \cup {r}
  BY <1>1 DEF LiveRows
<1>4. LiveTimes(rows') \subseteq LiveTimes(rows) \cup {now}
  BY <1>1, <1>3 DEF LiveTimes
<1>5. /\ \A a, b \in Times :
            Silent(LiveTimes(rows), a, b) => Silent(LiveTimes(rows'), a, b)
      /\ \A x \in Times : Between(LiveTimes(rows), x) => Between(LiveTimes(rows'), x)
  BY <1>3, <1>4, SilenceKept
<1>6. \A q \in rows' : q.ts <= now'
  BY <1>1, <1>2 DEF GapInv, Inv, TablesInv, Times
<1>7. \A t \in Tools : \A g \in queue'[t] : Silent(LiveTimes(rows'), g.lo, g.hi)
  BY <1>2, <1>5 DEF GapInv, Inv, ToolInv, GapRecords
<1>8. \A t \in Tools : pc'[t] = "fill" => Silent(LiveTimes(rows'), gap'[t].lo, gap'[t].hi)
  BY <1>2, <1>5 DEF GapInv, Inv, ToolInv, GapRecords
<1>9. \A q \in rows' \ LiveRows(rows') : Between(LiveTimes(rows'), q.ts)
  BY <1>1, <1>3, <1>5 DEF GapInv, Inv, TablesInv, Rows
<1> QED
  BY <1>6, <1>7, <1>8, <1>9 DEF GapInv

LEMMA FillGap ==
  ASSUME Inv, Inv', GapInv, NEW t \in Tools, Fill(t)
  PROVE  GapInv'
<1> DEFINE new == {Reconstructed(m) : m \in samples[t]}
<1>1. /\ rows' = rows \cup new
      /\ UNCHANGED <<now, queue>>
      /\ pc[t] = "fill" /\ pc' = [pc EXCEPT ![t] = "next"]
      /\ gap' = [gap EXCEPT ![t] = NoGap]
  BY DEF Fill
<1>2. ASSUME NEW r \in new
      PROVE  /\ r.source # "live" /\ r.ts \in Times
             /\ gap[t].lo <= r.ts /\ r.ts < gap[t].hi
  <2>1. PICK m \in samples[t] : r = Reconstructed(m)
    OBVIOUS
  <2>2. m \in Meters /\ gap[t].lo <= m.ts /\ m.ts < gap[t].hi
    BY DEF Inv, ToolInv
  <2> QED
    BY <2>1, <2>2 DEF Reconstructed, Meters
<1> HIDE DEF new
<1>3. LiveRows(rows') = LiveRows(rows)
  BY <1>1, <1>2 DEF LiveRows
<1>4. LiveTimes(rows') = LiveTimes(rows)
  BY <1>3 DEF LiveTimes
<1>5. gap[t].lo \in Times /\ gap[t].hi \in Times /\ LiveTimes(rows) \in SUBSET Times
  BY DEF Inv, ToolInv, TablesInv, GapRecords, LiveTimes, LiveRows, Rows
<1>6. Silent(LiveTimes(rows), gap[t].lo, gap[t].hi)
  BY <1>1 DEF GapInv
<1>7. ASSUME NEW r \in new
      PROVE  Between(LiveTimes(rows), r.ts) /\ r.ts <= now
  <2>1. Between(LiveTimes(rows), r.ts)
    BY <1>2, <1>5, <1>6, SilentBetween
  <2>2. PICK hi \in LiveTimes(rows) : r.ts < hi
    BY <2>1 DEF Between
  <2>3. hi <= now
    BY DEF GapInv, LiveTimes, LiveRows
  <2> QED
    BY <1>2, <1>5, <2>1, <2>2, <2>3 DEF Times, Inv, TablesInv
<1>8. \A q \in rows' : q.ts <= now'
  BY <1>1, <1>7 DEF GapInv
<1>9. \A u \in Tools : \A g \in queue'[u] : Silent(LiveTimes(rows'), g.lo, g.hi)
  BY <1>1, <1>4 DEF GapInv
<1>10. \A u \in Tools : pc'[u] = "fill" => Silent(LiveTimes(rows'), gap'[u].lo, gap'[u].hi)
  BY <1>1, <1>4 DEF GapInv, Inv, ToolInv
<1>11. \A q \in rows' \ LiveRows(rows') : Between(LiveTimes(rows'), q.ts)
  BY <1>1, <1>3, <1>4, <1>7 DEF GapInv
<1> QED
  BY <1>8, <1>9, <1>10, <1>11 DEF GapInv

LEMMA ListGapsGap ==
  ASSUME Inv, GapInv, NEW t \in Tools, ListGaps(t)
  PROVE  GapInv'
<1>1. /\ UNCHANGED <<now, rows, gap>> /\ pc' = [pc EXCEPT ![t] = "next"]
      /\ \E Q \in SUBSET Gaps(rows) : queue' = [queue EXCEPT ![t] = Q]
  BY DEF ListGaps, db
<1>2. PICK Q \in SUBSET Gaps(rows) : queue' = [queue EXCEPT ![t] = Q]
  BY <1>1
<1>3. \A g \in Q : Silent(LiveTimes(rows), g.lo, g.hi)
  BY GapsAreSilent DEF Inv, GapInv
<1>4. \A u \in Tools : \A g \in queue'[u] : Silent(LiveTimes(rows), g.lo, g.hi)
  BY <1>2, <1>3 DEF GapInv, Inv, ToolInv
<1>5. \A u \in Tools : pc'[u] = "fill" => pc[u] = "fill"
  BY <1>1 DEF Inv, ToolInv
<1> QED
  BY <1>1, <1>4, <1>5 DEF GapInv

LEMMA ReadSamplesGap ==
  ASSUME Inv, GapInv, NEW t \in Tools, ReadSamples(t)
  PROVE  GapInv'
<1>1. PICK g \in queue[t] :
        /\ queue' = [queue EXCEPT ![t] = @ \ {g}]
        /\ gap' = [gap EXCEPT ![t] = g]
  BY DEF ReadSamples
<1>2. UNCHANGED <<now, rows>> /\ pc' = [pc EXCEPT ![t] = "fill"]
  BY DEF ReadSamples, db
<1>3. \A u \in Tools : queue'[u] \subseteq queue[u]
  BY <1>1 DEF Inv, ToolInv
<1>4. ASSUME NEW u \in Tools, pc'[u] = "fill"
      PROVE  Silent(LiveTimes(rows), gap'[u].lo, gap'[u].hi)
  <2>1. CASE u = t
    BY <1>1, <2>1 DEF GapInv, Inv, ToolInv
  <2>2. CASE u # t
    BY <1>1, <1>2, <1>4, <2>2 DEF GapInv, Inv, ToolInv
  <2> QED
    BY <2>1, <2>2
<1> QED
  BY <1>2, <1>3, <1>4 DEF GapInv

LEMMA GapStep ==
  ASSUME Inv, Inv', GapInv, [Next]_vars
  PROVE  GapInv'
<1>1. CASE Clock
  <2>1. UNCHANGED <<rows, pc, queue, gap>> /\ now' = now + 1
    BY <1>1 DEF Clock, db, tool
  <2>2. \A r \in rows : r.ts <= now'
    BY <2>1 DEF GapInv, Inv, TablesInv, Rows, Times
  <2> QED
    BY <2>1, <2>2 DEF GapInv
<1>2. CASE \/ \E d \in MeterData : SaveMeters(d)
           \/ \E w \in Windows : RebuildRollups(w.from, w.to)
           \/ UNCHANGED vars
  <2>1. UNCHANGED <<now, rows, pc, queue, gap>>
    BY <1>2 DEF SaveMeters, RebuildRollups, vars, tool
  <2> QED
    BY <2>1 DEF GapInv
<1>3. ASSUME NEW t \in Tools, Finish(t) \/ Exit(t)
      PROVE  GapInv'
  <2>1. UNCHANGED <<now, rows>>
    BY <1>3 DEF Finish, Exit, db
  <2>2. \A u \in Tools : queue'[u] \subseteq queue[u]
    BY <1>3 DEF Finish, Exit, Inv, ToolInv
  <2>3. \A u \in Tools : pc'[u] = "fill" => pc[u] = "fill" /\ gap'[u] = gap[u]
    BY <1>3 DEF Finish, Exit, Inv, ToolInv
  <2> QED
    BY <2>1, <2>2, <2>3 DEF GapInv
<1> QED
  BY <1>1, <1>2, <1>3, SaveReadingGap, FillGap, ListGapsGap, ReadSamplesGap DEF Next

\* A reconstructed row never stands where the live stream was recording, for any
\* number of runs beside it and beside each other (run, MeterSamples).
THEOREM RepairsStandInGaps == Spec => []ReconstructedOnlyInGaps
<1>1. Init => Inv /\ GapInv
  BY InitInv, GapInit
<1>2. Inv /\ GapInv /\ [Next]_vars => (Inv /\ GapInv)'
  BY NextInv, GapStep
<1>3. GapInv => ReconstructedOnlyInGaps
  BY PropertyIsBetween DEF GapInv
<1> QED
  BY <1>1, <1>2, <1>3, PTL DEF Spec

-----------------------------------------------------------------------------
(* Runs one at a time, beside meters whose payloads are complete.          *)

\* No reconstructed row stands in g, nor at its beginning.
Fresh(R, g) == \A r \in R \ LiveRows(R) : r.ts < g.lo \/ g.hi <= r.ts

\* The gaps that a run has still to fill.
InHand(t) == queue[t] \cup {g \in {gap[t]} : pc[t] = "fill"}

\* The gaps a run has to look at: in its window, up to the last row it could see.
InWindow(t, g) == window[t].from <= g.lo /\ g.hi <= upto[t]

\* A second has one reconstructed row at most, and one meter payload.
OneRowEach   == \A r, q \in rows \ LiveRows(rows) : r.ts = q.ts => r = q
OneMeterEach == \A m, n \in meters : m.ts = n.ts => m = n

\* What run t holds follows the tables, although it was read in earlier
\* transactions: its gaps are gaps still, they have not been touched, none that
\* can be recovered is missing, and the samples are those of the gap.
RunFollows(t) ==
  /\ \A g \in InHand(t) : g \in Gaps(rows) /\ Fresh(rows, g)
  /\ pc[t] \in {"idle", "done"} => queue[t] = {}
  /\ pc[t] = "fill" => /\ gap[t] \notin queue[t]
                       /\ samples[t] = MeterSamples(meters, gap[t].lo, gap[t].hi)
  /\ pc[t] # "idle" =>
       /\ \E r \in rows : upto[t] <= r.ts
       /\ \A g \in Gaps(rows) : InWindow(t, g) /\ Recoverable(meters, g) => g \in InHand(t)

\* Together: what can be recovered has not been touched, and runs do not overlap.
OrderlyInv ==
  /\ OneRowEach
  /\ \A g \in Gaps(rows) : Recoverable(meters, g) => Fresh(rows, g)
  /\ \A t, u \in Tools : pc[t] # "idle" /\ pc[u] # "idle" => t = u
  /\ \A t \in Tools : RunFollows(t)

RunInv ==
  /\ OneMeterEach
  /\ \A m \in meters : m.ts <= now
  /\ Orderly => OrderlyInv

\* The ends of a gap.
LEMMA GapEnds ==
  ASSUME NEW R \in SUBSET Rows, NEW g \in Gaps(R)
  PROVE  /\ g = [lo |-> g.lo, hi |-> g.hi]
         /\ g \in GapRecords /\ g.lo < g.hi
         /\ \E r \in R : r.ts = g.lo
         /\ \E r \in R : r.ts = g.hi
         /\ \A r \in R : r.ts <= g.lo \/ r.ts >= g.hi
<1>1. /\ g \in [lo : {r.ts : r \in R}, hi : {r.ts : r \in R}]
      /\ g.hi - g.lo > MinGap
      /\ \A x \in {r.ts : r \in R} : x <= g.lo \/ x >= g.hi
  BY DEF Gaps
<1>2. {r.ts : r \in R} \subseteq Times
  BY DEF Rows
<1>3. g.lo \in Times /\ g.hi \in Times /\ g.lo < g.hi
  BY <1>1, <1>2, RollupsAssumption DEF Times
<1> QED
  BY <1>1, <1>3 DEF GapRecords

\* What makes a gap.
LEMMA IsGap ==
  ASSUME NEW R, NEW g, g = [lo |-> g.lo, hi |-> g.hi],
         \E r \in R : r.ts = g.lo, \E r \in R : r.ts = g.hi, g.hi - g.lo > MinGap,
         \A r \in R : r.ts <= g.lo \/ r.ts >= g.hi
  PROVE  g \in Gaps(R)
<1>1. g \in [lo : {r.ts : r \in R}, hi : {r.ts : r \in R}]
  OBVIOUS
<1> QED
  BY <1>1 DEF Gaps

LEMMA GapWidth ==
  ASSUME NEW R, NEW g \in Gaps(R) PROVE g.hi - g.lo > MinGap
BY DEF Gaps

\* Two gaps do not overlap.
LEMMA GapsApart ==
  ASSUME NEW R \in SUBSET Rows, NEW g \in Gaps(R), NEW h \in Gaps(R), g # h
  PROVE  g.hi <= h.lo \/ h.hi <= g.lo
<1>1. /\ g = [lo |-> g.lo, hi |-> g.hi] /\ g.lo \in Times /\ g.hi \in Times /\ g.lo < g.hi
      /\ \A r \in R : r.ts <= g.lo \/ r.ts >= g.hi
  BY GapEnds DEF GapRecords
<1>2. /\ h = [lo |-> h.lo, hi |-> h.hi] /\ h.lo \in Times /\ h.hi \in Times /\ h.lo < h.hi
      /\ \A r \in R : r.ts <= h.lo \/ r.ts >= h.hi
  BY GapEnds DEF GapRecords
<1>3. /\ h.lo <= g.lo \/ h.lo >= g.hi
      /\ h.hi <= g.lo \/ h.hi >= g.hi
      /\ g.lo <= h.lo \/ g.lo >= h.hi
      /\ g.hi <= h.lo \/ g.hi >= h.hi
  BY <1>1, <1>2, GapEnds
<1>4. g.lo # h.lo \/ g.hi # h.hi
  BY <1>1, <1>2
<1> QED
  BY <1>1, <1>2, <1>3, <1>4 DEF Times

-----------------------------------------------------------------------------
(* What a new row does to the gaps.                                        *)

\* A live row, no earlier than any other, ends at most one more gap.
LEMMA LiveRowGaps ==
  ASSUME NEW R \in SUBSET Rows, NEW r \in Rows, \A q \in R : q.ts <= r.ts
  PROVE  /\ Gaps(R) \subseteq Gaps(R \cup {r})
         /\ \A g \in Gaps(R \cup {r}) \ Gaps(R) :
              g.hi = r.ts /\ g.lo < r.ts /\ \A q \in R : q.ts <= g.lo
<1> DEFINE S == R \cup {r}
<1>1. S \in SUBSET Rows /\ R \subseteq S /\ r \in S /\ \A q \in S : q.ts <= r.ts
  BY DEF Rows, Times
<1>2. ASSUME NEW g \in Gaps(R) PROVE g \in Gaps(S)
  <2>1. /\ g = [lo |-> g.lo, hi |-> g.hi] /\ g.lo < g.hi
        /\ \E q \in R : q.ts = g.lo
        /\ \E q \in R : q.ts = g.hi
        /\ \A q \in R : q.ts <= g.lo \/ q.ts >= g.hi
    BY GapEnds
  <2>2. g.hi <= r.ts
    BY <2>1
  <2>3. \A q \in S : q.ts <= g.lo \/ q.ts >= g.hi
    BY <2>1, <2>2
  <2>4. g.hi - g.lo > MinGap
    BY GapWidth
  <2> HIDE DEF S
  <2> QED
    BY <1>1, <2>1, <2>3, <2>4, IsGap
<1>3. ASSUME NEW g \in Gaps(S), g \notin Gaps(R)
      PROVE  g.hi = r.ts /\ g.lo < r.ts /\ \A q \in R : q.ts <= g.lo
  <2>1. /\ g = [lo |-> g.lo, hi |-> g.hi] /\ g \in GapRecords /\ g.lo < g.hi
        /\ \E q \in S : q.ts = g.lo
        /\ \E q \in S : q.ts = g.hi
        /\ \A q \in S : q.ts <= g.lo \/ q.ts >= g.hi
    <3> HIDE DEF S
    <3> QED
      BY <1>1, GapEnds
  <2>2. g.hi - g.lo > MinGap
    BY GapWidth
  <2>3. g.lo \in Int /\ g.hi \in Int /\ r.ts \in Int /\ \A q \in R : q.ts \in Int
    BY <2>1 DEF GapRecords, Times, Rows
  <2>4. g.hi <= r.ts
    BY <1>1, <2>1
  <2>5. \E q \in R : q.ts = g.lo
    BY <2>1, <2>3, <2>4
  <2>6. ~ \E q \in R : q.ts = g.hi
    <3>1. \A q \in R : q.ts <= g.lo \/ q.ts >= g.hi
      BY <2>1
    <3> QED
      BY <1>3, <2>1, <2>2, <2>5, <3>1, IsGap
  <2>7. g.hi = r.ts
    BY <2>1, <2>6
  <2>8. \A q \in R : q.ts <= g.lo
    BY <2>1, <2>3, <2>6, <2>7
  <2> QED
    BY <2>1, <2>7, <2>8
<1> QED
  BY <1>2, <1>3

\* Rows in a gap leave the other gaps, and make smaller ones of it.
LEMMA FilledGaps ==
  ASSUME NEW R \in SUBSET Rows, NEW N \in SUBSET Rows, NEW g \in Gaps(R),
         \A q \in N : g.lo <= q.ts /\ q.ts < g.hi
  PROVE  /\ Gaps(R) \ {g} \subseteq Gaps(R \cup N)
         /\ \A h \in Gaps(R \cup N) :
              h \in Gaps(R) \ {g} \/ (g.lo <= h.lo /\ h.hi <= g.hi)
<1> DEFINE S == R \cup N
<1>1. S \in SUBSET Rows /\ R \subseteq S /\ \A q \in S : q \in R \/ q \in N
  OBVIOUS
<1>2. \A q \in S : q.ts \in Int
  BY DEF Rows, Times
<1>3. /\ g.lo \in Int /\ g.hi \in Int /\ g.lo < g.hi
      /\ \E q \in R : q.ts = g.lo
      /\ \E q \in R : q.ts = g.hi
  BY GapEnds DEF GapRecords, Times
<1> HIDE DEF S
<1>4. ASSUME NEW h \in Gaps(R), h # g PROVE h \in Gaps(S)
  <2>1. /\ h = [lo |-> h.lo, hi |-> h.hi] /\ h.lo \in Int /\ h.hi \in Int
        /\ \E q \in R : q.ts = h.lo
        /\ \E q \in R : q.ts = h.hi
        /\ \A q \in R : q.ts <= h.lo \/ q.ts >= h.hi
    BY GapEnds DEF GapRecords, Times
  <2>2. g.hi <= h.lo \/ h.hi <= g.lo
    BY <1>4, GapsApart
  <2>3. \A q \in N : q.ts <= h.lo \/ q.ts >= h.hi
    BY <1>3, <2>1, <2>2 DEF Rows, Times
  <2>4. h.hi - h.lo > MinGap
    BY GapWidth
  <2> QED
    BY <1>1, <2>1, <2>3, <2>4, IsGap
<1>5. ASSUME NEW h \in Gaps(S)
      PROVE  h \in Gaps(R) \ {g} \/ (g.lo <= h.lo /\ h.hi <= g.hi)
  <2>1. /\ h = [lo |-> h.lo, hi |-> h.hi] /\ h.lo \in Int /\ h.hi \in Int /\ h.lo < h.hi
        /\ \A q \in S : q.ts <= h.lo \/ q.ts >= h.hi
    BY <1>1, GapEnds DEF GapRecords, Times
  <2>2. PICK a \in S : a.ts = h.lo
    BY <1>1, GapEnds
  <2>3. PICK b \in S : b.ts = h.hi
    BY <1>1, GapEnds
  <2>4. /\ g.lo <= h.lo \/ g.lo >= h.hi
        /\ g.hi <= h.lo \/ g.hi >= h.hi
    BY <1>1, <1>3, <2>1
  <2>5. CASE g.lo <= h.lo /\ h.lo < g.hi
    BY <1>3, <2>1, <2>4, <2>5
  <2>6. CASE ~(g.lo <= h.lo /\ h.lo < g.hi)
    <3>1. a \in R
      BY <1>1, <2>2, <2>6
    <3>2. h.hi <= g.lo \/ g.hi <= h.lo
      BY <1>3, <2>1, <2>4, <2>6
    <3>3. \E q \in R : q.ts = h.hi
      <4>1. CASE b \in R
        BY <2>3, <4>1
      <4>2. CASE b \in N
        <5>1. h.hi = g.lo
          BY <1>3, <2>1, <2>3, <3>2, <4>2
        <5> QED
          BY <1>3, <5>1
      <4> QED
        BY <1>1, <4>1, <4>2
    <3>4. h.hi - h.lo > MinGap
      BY GapWidth
    <3>5. h \in Gaps(R)
      BY <1>1, <2>1, <2>2, <3>1, <3>3, <3>4, IsGap
    <3> QED
      BY <2>6, <3>5, <1>3
  <2> QED
    BY <2>5, <2>6
<1> QED
  BY <1>4, <1>5 DEF S

-----------------------------------------------------------------------------
(* The steps.                                                              *)

\* A reconstructed row is earlier than the latest live row.
LEMMA LiveRowsAreLast ==
  ASSUME Inv, GapInv, NEW r \in rows \ LiveRows(rows)
  PROVE  \E q \in rows : r.ts < q.ts
<1>1. PICK hi \in LiveTimes(rows) : r.ts < hi
  BY DEF GapInv, Between
<1> QED
  BY <1>1 DEF LiveTimes, LiveRows

\* No gap reaches into the future.
LEMMA GapsEnded ==
  ASSUME Inv, GapInv, NEW g \in Gaps(rows)
  PROVE  g.hi <= now
<1>1. \E r \in rows : r.ts = g.hi
  BY GapEnds DEF Inv, TablesInv
<1> QED
  BY <1>1 DEF GapInv

\* Where only the clock and the rollups move, everything stays.
LEMMA RunKept ==
  ASSUME RunInv, UNCHANGED <<rows, meters, pc, queue, gap, samples, window, upto, alone>>,
         \A m \in meters : m.ts <= now'
  PROVE  RunInv'
<1>1. \A t \in Tools : InHand(t)' = InHand(t)
  BY DEF InHand
<1>2. \A t \in Tools : RunFollows(t) => RunFollows(t)'
  BY <1>1 DEF RunFollows, InWindow
<1>3. OneRowEach' = OneRowEach /\ OneMeterEach' = OneMeterEach /\ Orderly' = Orderly
  BY DEF OneRowEach, OneMeterEach, Orderly
<1>4. OrderlyInv => OrderlyInv'
  BY <1>2, <1>3 DEF OrderlyInv
<1> QED
  BY <1>3, <1>4 DEF RunInv

LEMMA SaveMetersRun ==
  ASSUME Inv, GapInv, RunInv, NEW d \in MeterData, SaveMeters(d)
  PROVE  RunInv'
<1> DEFINE m == [ts |-> now, kw |-> d.kw, kwh |-> d.kwh, paired |-> d.paired]
<1>1. meters' = meters \cup {m} /\ m.ts = now
  BY DEF SaveMeters
<1> HIDE DEF m
<1>2. /\ UNCHANGED <<now, rows, pc, queue, gap, samples, window, upto, alone>>
      /\ \A n \in meters : n.ts # now
  BY DEF SaveMeters, tool
<1>3. OneMeterEach' /\ \A n \in meters' : n.ts <= now'
  BY <1>1, <1>2 DEF RunInv, OneMeterEach, Inv, TablesInv, Times
<1> SUFFICES ASSUME Orderly' PROVE OrderlyInv'
  BY <1>3 DEF RunInv
<1>4. OrderlyInv
  BY <1>1, <1>2 DEF Orderly, RunInv
<1>5. ASSUME NEW g \in Gaps(rows), Recoverable(meters', g)
      PROVE  Recoverable(meters, g)
  <2>1. g.hi <= now /\ g.hi \in Times
    BY GapsEnded, GapEnds DEF Inv, TablesInv, GapRecords
  <2> QED
    BY <1>1, <1>5, <2>1 DEF Recoverable, Inv, TablesInv, Times
<1>6. ASSUME NEW g \in Gaps(rows)
      PROVE  MeterSamples(meters', g.lo, g.hi) = MeterSamples(meters, g.lo, g.hi)
  <2>1. g.hi <= now /\ g.hi \in Times
    BY GapsEnded, GapEnds DEF Inv, TablesInv, GapRecords
  <2> QED
    BY <1>1, <2>1 DEF MeterSamples, Inv, TablesInv, Times
<1>7. OneRowEach' /\ \A g \in Gaps(rows') : Recoverable(meters', g) => Fresh(rows', g)
  BY <1>2, <1>4, <1>5 DEF OrderlyInv, OneRowEach
<1>8. \A t, u \in Tools : pc'[t] # "idle" /\ pc'[u] # "idle" => t = u
  BY <1>2, <1>4 DEF OrderlyInv
<1>9. ASSUME NEW t \in Tools
      PROVE  RunFollows(t)'
  <2>1. InHand(t)' = InHand(t) /\ RunFollows(t)
    BY <1>2, <1>4 DEF InHand, OrderlyInv
  <2>2. pc[t] = "fill" => gap[t] \in Gaps(rows)
    BY <2>1 DEF RunFollows, InHand
  <2> QED
    BY <1>2, <1>5, <1>6, <2>1, <2>2 DEF RunFollows, InWindow
<1> QED
  BY <1>7, <1>8, <1>9 DEF OrderlyInv

LEMMA SaveReadingRun ==
  ASSUME Inv, GapInv, RunInv, NEW p \in Payloads, SaveReading(p)
  PROVE  RunInv'
<1> DEFINE r == [tx |-> live, ts |-> now, kw |-> p.kw, kwh |-> p.kwh, source |-> "live"]
<1>1. /\ rows' = rows \cup {r}
      /\ UNCHANGED <<now, meters, pc, queue, gap, samples, window, upto, alone>>
  BY DEF SaveReading, tool
<1>2. r \in Rows /\ r.ts = now /\ r.source = "live"
  BY BackfillAssumption DEF Rows, Inv, TablesInv
<1> HIDE DEF r
<1>3. OneMeterEach' /\ \A n \in meters' : n.ts <= now'
  BY <1>1 DEF RunInv, OneMeterEach
<1> SUFFICES ASSUME Orderly' PROVE OrderlyInv'
  BY <1>3 DEF RunInv
<1>4. OrderlyInv
  BY <1>1 DEF Orderly, RunInv
<1>5. rows' \ LiveRows(rows') = rows \ LiveRows(rows)
  BY <1>1, <1>2 DEF LiveRows
<1>6. \A g : Fresh(rows', g) <=> Fresh(rows, g)
  BY <1>5 DEF Fresh
<1>7. /\ Gaps(rows) \subseteq Gaps(rows')
      /\ \A g \in Gaps(rows') \ Gaps(rows) :
           g.hi = now /\ g.lo < now /\ \A q \in rows : q.ts <= g.lo
  BY <1>1, <1>2, LiveRowGaps DEF GapInv, Inv, TablesInv
<1>8. ASSUME NEW g \in Gaps(rows') \ Gaps(rows)
      PROVE  Fresh(rows, g)
  <2>1. g.lo \in Times
    BY <1>1, <1>2, GapEnds DEF Inv, TablesInv, GapRecords
  <2>2. ASSUME NEW q \in rows \ LiveRows(rows) PROVE q.ts < g.lo
    <3>1. PICK l \in rows : q.ts < l.ts
      BY LiveRowsAreLast
    <3>2. l.ts <= g.lo
      BY <1>7
    <3> QED
      BY <2>1, <3>1, <3>2 DEF Inv, TablesInv, Rows, Times
  <2> QED
    BY <2>2 DEF Fresh
<1>9. /\ OneRowEach'
      /\ \A g \in Gaps(rows') : Recoverable(meters', g) => Fresh(rows', g)
      /\ \A t, u \in Tools : pc'[t] # "idle" /\ pc'[u] # "idle" => t = u
  BY <1>1, <1>4, <1>5, <1>6, <1>8 DEF OrderlyInv, OneRowEach
<1>10. ASSUME NEW t \in Tools
       PROVE  RunFollows(t)'
  <2>1. InHand(t)' = InHand(t) /\ RunFollows(t)
    BY <1>1, <1>4 DEF InHand, OrderlyInv
  <2>2. \A g \in InHand(t)' : g \in Gaps(rows') /\ Fresh(rows', g)
    BY <1>6, <1>7, <2>1 DEF RunFollows
  <2>3. ASSUME pc'[t] # "idle"
        PROVE  /\ \E q \in rows' : upto'[t] <= q.ts
               /\ \A g \in Gaps(rows') :
                    InWindow(t, g)' /\ Recoverable(meters', g) => g \in InHand(t)'
    <3>1. PICK q \in rows : upto[t] <= q.ts
      BY <1>1, <2>1, <2>3 DEF RunFollows
    <3>2. ASSUME NEW g \in Gaps(rows') \ Gaps(rows)
          PROVE  ~ InWindow(t, g)'
      <4>1. q.ts <= g.lo /\ g.lo < now /\ g.hi = now
        BY <1>7
      <4>2. g.lo \in Times
        BY <1>1, <1>2, GapEnds DEF Inv, TablesInv, GapRecords
      <4> QED
        BY <1>1, <3>1, <4>1, <4>2 DEF InWindow, Inv, ToolInv, TablesInv, Rows, Times
    <3>3. \A g : InWindow(t, g)' <=> InWindow(t, g)
      BY <1>1 DEF InWindow
    <3> QED
      BY <1>1, <2>1, <2>3, <3>1, <3>2, <3>3 DEF RunFollows
  <2> QED
    BY <1>1, <2>1, <2>2, <2>3 DEF RunFollows
<1> QED
  BY <1>9, <1>10 DEF OrderlyInv

\* A run begins when no other is under way: it takes all that can be recovered,
\* and nothing of that has been touched.
LEMMA ListGapsRun ==
  ASSUME Inv, RunInv, NEW t \in Tools, ListGaps(t)
  PROVE  RunInv'
<1>1. PICK w \in Windows :
        /\ queue' = [queue EXCEPT ![t] = {g \in Gaps(rows) : /\ w.from <= g.lo /\ g.hi <= w.to
                                                             /\ Recoverable(meters, g)}]
        /\ upto' = [upto EXCEPT ![t] = Min({w.to, Max({r.ts : r \in rows})})]
        /\ window' = [window EXCEPT ![t] = w]
  BY DEF ListGaps
<1>2. /\ pc' = [pc EXCEPT ![t] = "next"] /\ rows # {} /\ pc[t] = "idle"
      /\ alone' = (alone /\ \A u \in Tools : pc[u] = "idle")
      /\ UNCHANGED <<now, rows, meters, gap, samples>>
  BY DEF ListGaps, db
<1>3. OneMeterEach' /\ \A n \in meters' : n.ts <= now'
  BY <1>2 DEF RunInv, OneMeterEach
<1> SUFFICES ASSUME Orderly' PROVE OrderlyInv'
  BY <1>3 DEF RunInv
<1>4. OrderlyInv /\ \A u \in Tools : pc[u] = "idle"
  BY <1>2 DEF Orderly, RunInv, Inv, ToolInv
<1>5. /\ OneRowEach'
      /\ \A g \in Gaps(rows') : Recoverable(meters', g) => Fresh(rows', g)
  BY <1>2, <1>4 DEF OrderlyInv, OneRowEach
<1>6. \A u \in Tools : u # t => pc'[u] = "idle" /\ queue'[u] = {}
  BY <1>1, <1>2, <1>4 DEF OrderlyInv, RunFollows, Inv, ToolInv
<1>7. \A u \in Tools : u # t => RunFollows(u)'
  BY <1>6 DEF RunFollows, InHand
<1>8. RunFollows(t)'
  <2>1. pc'[t] = "next" /\ window'[t] = w
        /\ queue'[t] = {g \in Gaps(rows) : /\ w.from <= g.lo /\ g.hi <= w.to
                                           /\ Recoverable(meters, g)}
    BY <1>1, <1>2 DEF Inv, ToolInv
  <2>2. InHand(t)' = queue'[t]
    BY <2>1 DEF InHand
  <2>3. upto'[t] \in Times /\ upto'[t] <= w.to /\ \E r \in rows : upto'[t] <= r.ts
    <3>1. w.to \in Times
      BY BackfillAssumption
    <3>2. upto'[t] = Min({w.to, Max({r.ts : r \in rows})})
      BY <1>1 DEF Inv, ToolInv
    <3> QED
      BY <1>2, <3>1, <3>2, LastSeen DEF Inv
  <2>4. ASSUME NEW g \in Gaps(rows), InWindow(t, g)'
        PROVE  w.from <= g.lo /\ g.hi <= w.to
    <3>1. g.hi \in Times /\ w.to \in Times
      BY GapEnds, BackfillAssumption DEF Inv, TablesInv, GapRecords
    <3> QED
      BY <2>1, <2>3, <2>4, <3>1 DEF InWindow, Times
  <2>5. \A g \in InHand(t)' : g \in Gaps(rows') /\ Fresh(rows', g)
    BY <1>2, <1>4, <2>1, <2>2 DEF OrderlyInv
  <2>6. \A g \in Gaps(rows') :
          InWindow(t, g)' /\ Recoverable(meters', g) => g \in InHand(t)'
    BY <1>2, <2>1, <2>2, <2>4
  <2> QED
    BY <1>2, <2>1, <2>3, <2>5, <2>6 DEF RunFollows
<1>9. \A u, v \in Tools : pc'[u] # "idle" /\ pc'[v] # "idle" => u = v
  BY <1>6
<1> QED
  BY <1>5, <1>7, <1>8, <1>9 DEF OrderlyInv

LEMMA ReadSamplesRun ==
  ASSUME Inv, RunInv, NEW t \in Tools, ReadSamples(t)
  PROVE  RunInv'
<1>1. PICK g \in queue[t] :
        /\ queue' = [queue EXCEPT ![t] = @ \ {g}]
        /\ gap' = [gap EXCEPT ![t] = g]
        /\ samples' = [samples EXCEPT ![t] = MeterSamples(meters, g.lo, g.hi)]
  BY DEF ReadSamples
<1>2. /\ pc[t] = "next" /\ pc' = [pc EXCEPT ![t] = "fill"]
      /\ UNCHANGED <<now, rows, meters, window, upto, alone>>
  BY DEF ReadSamples, db
<1>3. OneMeterEach' /\ \A n \in meters' : n.ts <= now'
  BY <1>2 DEF RunInv, OneMeterEach
<1> SUFFICES ASSUME Orderly' PROVE OrderlyInv'
  BY <1>3 DEF RunInv
<1>4. OrderlyInv
  BY <1>2 DEF Orderly, RunInv
<1>5. /\ OneRowEach'
      /\ \A h \in Gaps(rows') : Recoverable(meters', h) => Fresh(rows', h)
  BY <1>2, <1>4 DEF OrderlyInv, OneRowEach
<1>6. /\ pc'[t] = "fill" /\ queue'[t] = queue[t] \ {g} /\ gap'[t] = g
      /\ samples'[t] = MeterSamples(meters, g.lo, g.hi)
      /\ \A u \in Tools : u # t => pc'[u] = pc[u] /\ queue'[u] = queue[u]
  BY <1>1, <1>2 DEF Inv, ToolInv
<1>7. \A u \in Tools : u # t => pc[u] = "idle" /\ queue[u] = {}
  BY <1>2, <1>4 DEF OrderlyInv, RunFollows
<1>8. \A u \in Tools : u # t => RunFollows(u)'
  BY <1>6, <1>7 DEF RunFollows, InHand
<1>9. RunFollows(t)'
  <2>1. InHand(t)' = queue[t] /\ InHand(t) = queue[t] /\ RunFollows(t)
    BY <1>2, <1>4, <1>6 DEF InHand, OrderlyInv
  <2> QED
    BY <1>2, <1>6, <2>1 DEF RunFollows, InWindow
<1> QED
  BY <1>5, <1>6, <1>7, <1>8, <1>9 DEF OrderlyInv

\* The gap is filled with every sample in it, so that nothing is left there; and
\* no reconstructed row stood there before.
LEMMA FillRun ==
  ASSUME Inv, Inv', GapInv, RunInv, NEW t \in Tools, Fill(t)
  PROVE  RunInv'
<1> DEFINE g == gap[t]
           new == {Reconstructed(m) : m \in samples[t]}
<1>1. /\ rows' = rows \cup new
      /\ pc[t] = "fill" /\ pc' = [pc EXCEPT ![t] = "next"]
      /\ UNCHANGED <<now, meters, queue, window, upto, alone>>
  BY DEF Fill
<1>2. OneMeterEach' /\ \A n \in meters' : n.ts <= now'
  BY <1>1 DEF RunInv, OneMeterEach
<1> SUFFICES ASSUME Orderly' PROVE OrderlyInv'
  BY <1>2 DEF RunInv
<1>3. OrderlyInv /\ \A m \in meters : m.paired
  BY <1>1 DEF Orderly, RunInv
<1>4. RunFollows(t)
  BY <1>3 DEF OrderlyInv
<1>5. g \in Gaps(rows) /\ Fresh(rows, g) /\ g \notin queue[t]
      /\ samples[t] = MeterSamples(meters, g.lo, g.hi)
      /\ InHand(t) = queue[t] \cup {g}
  BY <1>1, <1>4 DEF RunFollows, InHand
<1>6. g.lo \in Times /\ g.hi \in Times /\ g.lo < g.hi
  BY <1>5, GapEnds DEF Inv, TablesInv, GapRecords
<1>7. \A q \in new : q.source # "live" /\ g.lo <= q.ts /\ q.ts < g.hi
  BY DEF Reconstructed, Inv, ToolInv
<1>8. new \in SUBSET Rows
  BY <1>1 DEF Inv, TablesInv
<1>9. ASSUME NEW m \in meters, g.lo <= m.ts, m.ts < g.hi
      PROVE  \E q \in new : q.ts = m.ts
  <2>1. m \in samples[t]
    BY <1>3, <1>5, <1>9 DEF MeterSamples
  <2>2. Reconstructed(m) \in new
    BY <2>1
  <2>3. Reconstructed(m).ts = m.ts
    BY DEF Reconstructed
  <2> QED
    BY <2>2, <2>3
<1>10. \A q, s \in new : q.ts = s.ts => q = s
  <2>1. \A m, n \in samples[t] : m.ts = n.ts => m = n
    BY <1>5 DEF MeterSamples, RunInv, OneMeterEach
  <2> QED
    BY <2>1 DEF Reconstructed
<1>11. rows' \ LiveRows(rows') = (rows \ LiveRows(rows)) \cup new
  BY <1>1, <1>7 DEF LiveRows
<1> HIDE DEF g, new
<1>12. OneRowEach'
  <2>1. \A q \in rows \ LiveRows(rows), s \in new : q.ts # s.ts
    BY <1>5, <1>6, <1>7, <1>8 DEF Fresh, Inv, TablesInv, Rows, Times
  <2> QED
    BY <1>3, <1>10, <1>11, <2>1 DEF OrderlyInv, OneRowEach
<1>13. /\ Gaps(rows) \ {g} \subseteq Gaps(rows')
       /\ \A h \in Gaps(rows') :
            h \in Gaps(rows) \ {g} \/ (g.lo <= h.lo /\ h.hi <= g.hi)
  BY <1>1, <1>5, <1>7, <1>8, FilledGaps DEF Inv, TablesInv
<1>14. ASSUME NEW h \in Gaps(rows) \ {g}, Fresh(rows, h)
       PROVE  Fresh(rows', h)
  <2>1. g.hi <= h.lo \/ h.hi <= g.lo
    BY <1>5, GapsApart DEF Inv, TablesInv
  <2>2. h.lo \in Times /\ h.hi \in Times
    BY GapEnds DEF Inv, TablesInv, GapRecords
  <2>3. \A q \in new : q.ts < h.lo \/ h.hi <= q.ts
    BY <1>6, <1>7, <1>8, <2>1, <2>2 DEF Rows, Times
  <2> QED
    BY <1>11, <1>14, <2>3 DEF Fresh
<1>15. ASSUME NEW h \in Gaps(rows'), Recoverable(meters, h)
       PROVE  h \in Gaps(rows) \ {g}
  <2> SUFFICES ASSUME g.lo <= h.lo, h.hi <= g.hi PROVE FALSE
    BY <1>13
  <2>1. PICK m \in meters : h.lo < m.ts /\ m.ts < h.hi
    BY <1>15 DEF Recoverable
  <2>2. h.lo \in Times /\ h.hi \in Times /\ \A q \in rows' : q.ts <= h.lo \/ q.ts >= h.hi
    BY GapEnds DEF Inv, TablesInv, GapRecords
  <2>3. m.ts \in Times
    BY DEF Inv, TablesInv, Meters
  <2>4. PICK q \in new : q.ts = m.ts
    BY <1>6, <1>9, <2>1, <2>2, <2>3 DEF Times
  <2>5. q \in rows'
    BY <1>1
  <2> QED
    BY <2>1, <2>2, <2>3, <2>4, <2>5 DEF Times
<1>16. \A h \in Gaps(rows') : Recoverable(meters', h) => Fresh(rows', h)
  BY <1>1, <1>3, <1>14, <1>15 DEF OrderlyInv
<1>17. /\ pc'[t] = "next" /\ queue'[t] = queue[t]
       /\ \A u \in Tools : u # t => pc'[u] = "idle" /\ queue'[u] = {}
  BY <1>1, <1>3 DEF OrderlyInv, RunFollows, Inv, ToolInv
<1>18. \A u \in Tools : u # t => RunFollows(u)'
  BY <1>17 DEF RunFollows, InHand
<1>19. RunFollows(t)'
  <2>1. InHand(t)' = queue[t]
    BY <1>17 DEF InHand
  <2>2. \A h \in queue[t] : h \in Gaps(rows) \ {g} /\ Fresh(rows, h)
    BY <1>4, <1>5 DEF RunFollows
  <2>3. \A h \in InHand(t)' : h \in Gaps(rows') /\ Fresh(rows', h)
    BY <1>13, <1>14, <2>1, <2>2
  <2>4. \A h : InWindow(t, h)' <=> InWindow(t, h)
    BY <1>1 DEF InWindow
  <2>5. \A h \in Gaps(rows') :
          InWindow(t, h)' /\ Recoverable(meters', h) => h \in InHand(t)'
    BY <1>1, <1>4, <1>5, <1>15, <2>1, <2>4 DEF RunFollows
  <2>6. \E q \in rows' : upto'[t] <= q.ts
    BY <1>1, <1>4 DEF RunFollows
  <2> QED
    BY <1>17, <2>3, <2>5, <2>6 DEF RunFollows
<1>20. \A u, v \in Tools : pc'[u] # "idle" /\ pc'[v] # "idle" => u = v
  BY <1>17
<1> QED
  BY <1>12, <1>16, <1>18, <1>19, <1>20 DEF OrderlyInv

\* A run may also end with gaps in hand; another takes them up.
LEMMA RunEnds ==
  ASSUME Inv, RunInv, NEW t \in Tools, Finish(t) \/ Exit(t)
  PROVE  RunInv'
<1>1. UNCHANGED <<now, rows, meters, alone>>
  BY DEF Finish, Exit, db
<1>2. OneMeterEach' /\ \A n \in meters' : n.ts <= now'
  BY <1>1 DEF RunInv, OneMeterEach
<1> SUFFICES ASSUME Orderly' PROVE OrderlyInv'
  BY <1>2 DEF RunInv
<1>3. OrderlyInv
  BY <1>1 DEF Orderly, RunInv
<1>4. /\ OneRowEach'
      /\ \A h \in Gaps(rows') : Recoverable(meters', h) => Fresh(rows', h)
  BY <1>1, <1>3 DEF OrderlyInv, OneRowEach
<1>5. pc[t] # "idle"
  BY DEF Finish, Exit
<1>6. \A u \in Tools : u # t => pc'[u] = "idle" /\ queue'[u] = {}
  BY <1>3, <1>5 DEF OrderlyInv, RunFollows, Finish, Exit, Inv, ToolInv
<1>7. \A u \in Tools : u # t => RunFollows(u)'
  BY <1>6 DEF RunFollows, InHand
<1>8. RunFollows(t)'
  <2>1. CASE Finish(t)
    <3>1. pc[t] = "next" /\ queue[t] = {} /\ pc'[t] = "done" /\ UNCHANGED <<queue, window, upto>>
      BY <2>1 DEF Finish, Inv, ToolInv
    <3>2. InHand(t) = queue[t] /\ InHand(t)' = queue[t]
      BY <3>1 DEF InHand
    <3> QED
      BY <1>1, <1>3, <3>1, <3>2 DEF OrderlyInv, RunFollows, InWindow
  <2>2. CASE Exit(t)
    <3>1. pc'[t] = "idle" /\ queue'[t] = {}
      BY <2>2 DEF Exit, Inv, ToolInv
    <3> QED
      BY <3>1 DEF RunFollows, InHand
  <2> QED
    BY <2>1, <2>2
<1>9. \A u, v \in Tools : pc'[u] # "idle" /\ pc'[v] # "idle" => u = v
  BY <1>6
<1> QED
  BY <1>4, <1>7, <1>8, <1>9 DEF OrderlyInv

LEMMA RunStep ==
  ASSUME Inv, Inv', GapInv, RunInv, [Next]_vars
  PROVE  RunInv'
<1>1. CASE Clock
  <2>1. UNCHANGED <<rows, meters, pc, queue, gap, samples, window, upto, alone>>
        /\ now' = now + 1
    BY <1>1 DEF Clock, db, tool
  <2>2. \A m \in meters : m.ts <= now'
    BY <2>1 DEF RunInv, Inv, TablesInv, Meters, Times
  <2> QED
    BY <2>1, <2>2, RunKept
<1>2. CASE (\E w \in Windows : RebuildRollups(w.from, w.to)) \/ UNCHANGED vars
  <2>1. UNCHANGED <<now, rows, meters, pc, queue, gap, samples, window, upto, alone>>
    BY <1>2 DEF RebuildRollups, vars, tool
  <2>2. \A m \in meters : m.ts <= now'
    BY <2>1 DEF RunInv
  <2> QED
    BY <2>1, <2>2, RunKept
<1> QED
  BY <1>1, <1>2, SaveMetersRun, SaveReadingRun, ListGapsRun, ReadSamplesRun, FillRun,
     RunEnds DEF Next

LEMMA RunInit == Init => RunInv
<1> SUFFICES ASSUME Init PROVE RunInv
  OBVIOUS
<1>1. rows = {} /\ meters = {} /\ Gaps(rows) = {} /\ rows \ LiveRows(rows) = {}
  BY DEF Init, Gaps
<1>2. \A t \in Tools : pc[t] = "idle" /\ queue[t] = {}
  BY DEF Init
<1>3. \A t \in Tools : RunFollows(t)
  BY <1>2 DEF RunFollows, InHand
<1>4. OneRowEach /\ OneMeterEach
  BY <1>1 DEF OneRowEach, OneMeterEach
<1> QED
  BY <1>1, <1>2, <1>3, <1>4 DEF RunInv, OrderlyInv

LEMMA RunInvHolds == Spec => []RunInv
<1>1. Init => Inv /\ GapInv /\ RunInv
  BY InitInv, GapInit, RunInit
<1>2. Inv /\ GapInv /\ RunInv /\ [Next]_vars => (Inv /\ GapInv /\ RunInv)'
  BY NextInv, GapStep, RunStep
<1> QED
  BY <1>1, <1>2, PTL DEF Spec

\* However often runs are cut short and repeated, with whatever windows, no two
\* rows are made from one sample, when the runs do not overlap (run).
THEOREM SamplesAreUsedOnce == Spec => []SamplesUsedOnce
<1>1. RunInv => SamplesUsedOnce
  BY DEF RunInv, OrderlyInv, OneRowEach, SamplesUsedOnce, LiveRows
<1> QED
  BY <1>1, RunInvHolds, PTL

\* A run that has come to its end leaves nothing in its window to recover, of
\* what it could see when it listed the gaps, although the live stream and the
\* meters went on while it worked (run).
THEOREM RunsRepairAll == Spec => []RunRepairsAll
<1>1. ASSUME Inv, RunInv PROVE RunRepairsAll
  <2> SUFFICES ASSUME Orderly, NEW t \in Tools, pc[t] = "done",
                      NEW g \in Gaps(rows), InWindow(t, g), Recoverable(meters, g)
               PROVE  FALSE
    BY DEF RunRepairsAll, InWindow
  <2>1. g \in InHand(t)
    BY <1>1 DEF RunInv, OrderlyInv, RunFollows
  <2>2. queue[t] = {}
    BY <1>1 DEF RunInv, OrderlyInv, RunFollows
  <2> QED
    BY <2>1, <2>2 DEF InHand
<1> QED
  BY <1>1, InvHolds, RunInvHolds, PTL

-----------------------------------------------------------------------------
(* What is filled.                                                         *)

\* What was recoverable stays so, and has a sample if payloads are complete.
SampledInv ==
  \A t \in Tools :
    /\ \A g \in queue[t] : Recoverable(meters, g)
    /\ pc[t] = "fill" /\ (\A m \in meters : m.paired) => samples[t] # {}

LEMMA SampledStep ==
  ASSUME Inv, SampledInv, [Next]_vars
  PROVE  SampledInv'
<1>1. meters \subseteq meters'
  BY DEF Next, Clock, SaveReading, SaveMeters, RebuildRollups, ListGaps, ReadSamples, Fill,
         Finish, Exit, db, vars
<1>2. ASSUME NEW g, Recoverable(meters, g) PROVE Recoverable(meters', g)
  BY <1>1, <1>2 DEF Recoverable
<1> SUFFICES ASSUME NEW t \in Tools
             PROVE  /\ \A g \in queue'[t] : Recoverable(meters', g)
                    /\ pc'[t] = "fill" /\ (\A m \in meters' : m.paired) => samples'[t] # {}
  BY DEF SampledInv
<1>3. CASE queue'[t] \subseteq queue[t]
           /\ (pc'[t] = "fill" => pc[t] = "fill" /\ samples'[t] = samples[t])
  BY <1>1, <1>2, <1>3 DEF SampledInv
<1>4. CASE ListGaps(t)
  <2>1. pc'[t] = "next" /\ meters' = meters
    BY <1>4 DEF ListGaps, Inv, ToolInv, db
  <2>2. \A g \in queue'[t] : Recoverable(meters, g)
    BY <1>4 DEF ListGaps, Inv, ToolInv
  <2> QED
    BY <2>1, <2>2
<1>5. CASE ReadSamples(t)
  <2>1. PICK g \in queue[t] :
          /\ queue' = [queue EXCEPT ![t] = @ \ {g}]
          /\ samples' = [samples EXCEPT ![t] = MeterSamples(meters, g.lo, g.hi)]
    BY <1>5 DEF ReadSamples
  <2>2. /\ queue'[t] \subseteq queue[t] /\ meters' = meters
        /\ samples'[t] = MeterSamples(meters, g.lo, g.hi)
    BY <1>5, <2>1 DEF ReadSamples, Inv, ToolInv, db
  <2>3. PICK m \in meters : g.lo < m.ts /\ m.ts < g.hi
    BY DEF SampledInv, Recoverable
  <2>4. g.lo \in Times /\ m.ts \in Times
    BY DEF Inv, ToolInv, TablesInv, GapRecords, Meters
  <2>5. m.paired => m \in samples'[t]
    BY <2>2, <2>3, <2>4 DEF MeterSamples, Times
  <2> QED
    BY <2>2, <2>5 DEF SampledInv
<1>6. ASSUME NEW u \in Tools, ListGaps(u) \/ ReadSamples(u), u # t
      PROVE  queue'[t] = queue[t] /\ pc'[t] = pc[t] /\ samples'[t] = samples[t]
  BY <1>6 DEF ListGaps, ReadSamples, Inv, ToolInv
<1>7. ASSUME NEW u \in Tools, Fill(u) \/ Finish(u) \/ Exit(u)
      PROVE  queue'[t] \subseteq queue[t]
             /\ (pc'[t] = "fill" => pc[t] = "fill" /\ samples'[t] = samples[t])
  BY <1>7 DEF Fill, Finish, Exit, Inv, ToolInv
<1>8. CASE \/ Clock \/ UNCHANGED vars
           \/ \E p \in Payloads : SaveReading(p)
           \/ \E d \in MeterData : SaveMeters(d)
           \/ \E w \in Windows : RebuildRollups(w.from, w.to)
  <2>1. UNCHANGED <<queue, pc, samples>>
    BY <1>8 DEF Clock, SaveReading, SaveMeters, RebuildRollups, tool, vars
  <2> QED
    BY <1>3, <2>1
<1> QED
  BY <1>3, <1>4, <1>5, <1>6, <1>7, <1>8 DEF Next

\* A gap that is about to be filled has something to fill it with, as long as
\* the payloads of the meters are complete; one that is not makes a gap count as
\* recoverable and gives no row (ReadingGap, MeterSamples).
THEOREM RecoverableGapsHaveSamples ==
  Spec => []((\A m \in meters : m.paired) => RecoverableIsReconstructed)
<1>1. Init => Inv /\ SampledInv
  BY InitInv DEF Init, SampledInv
<1>2. Inv /\ SampledInv /\ [Next]_vars => (Inv /\ SampledInv)'
  BY NextInv, SampledStep
<1>3. SampledInv => ((\A m \in meters : m.paired) => RecoverableIsReconstructed)
  BY DEF SampledInv, RecoverableIsReconstructed
<1> QED
  BY <1>1, <1>2, <1>3, PTL DEF Spec
=============================================================================
