------------------------- MODULE PanelHealthProofs -------------------------
(***************************************************************************)
(* The verdict on the panels, for any array, any fractions and any faults. *)
(***************************************************************************)
EXTENDS PanelHealth, DevicePollerProofs, SetLemmas

-----------------------------------------------------------------------------
(* The percentile.                                                         *)

\* The index of the percentile is that of one of the panels.
LEMMA IndexInRange ==
  ASSUME NEW n \in Nat \ {0}
  PROVE  (RefPercent * n) \div 100 \in 0 .. n - 1
<1>1. RefPercent * n \in Nat /\ RefPercent * n <= 99 * n
  BY PanelAssumption
<1>2. 99 * n < 100 * n
  OBVIOUS
<1> QED
  BY <1>1, <1>2

\* v is the power at an index, counted from zero in ascending order.
AtIndex(S, pw, i, v) ==
  /\ v \in {pw[s] : s \in S}
  /\ Cardinality({s \in S : pw[s] < v}) <= i
  /\ Cardinality({s \in S : pw[s] <= v}) > i

\* There is one at every index.
LEMMA RankExists ==
  ASSUME NEW S, IsFiniteSet(S), NEW i \in Nat, i < Cardinality(S),
         NEW pw, \A s \in S : pw[s] \in 0 .. MaxPower
  PROVE  \E v : AtIndex(S, pw, i, v)
<1> DEFINE UpTo(v) == {s \in S : pw[s] <= v}
           V == {v \in 0 .. MaxPower : Cardinality(UpTo(v)) > i}
<1>1. \A T \in SUBSET S : Cardinality(T) \in Nat
  BY FS_Subset, FS_CardinalityType
<1>2. MaxPower \in V
  <2>1. UpTo(MaxPower) = S
    BY PanelAssumption
  <2> QED
    BY <2>1, PanelAssumption
<1>3. PICK v \in V : \A m \in V : v <= m
  <2>1. V \in SUBSET Nat /\ V # {}
    <3>1. 0 .. MaxPower \subseteq Nat
      OBVIOUS
    <3>2. V \subseteq 0 .. MaxPower
      OBVIOUS
    <3> QED
      BY <1>2, <3>1, <3>2, Zenon
  <2> HIDE DEF V
  <2> QED
    BY <2>1, Smallest
<1>4. v \in 0 .. MaxPower /\ v \in Nat /\ Cardinality(UpTo(v)) > i
  BY <1>3, PanelAssumption
<1>5. Cardinality({s \in S : pw[s] < v}) <= i
  <2>1. CASE v = 0
    <3>1. {s \in S : pw[s] < v} = {}
      BY <2>1
    <3> QED
      BY <3>1, FS_EmptySet
  <2>2. CASE v # 0
    <3>1. {s \in S : pw[s] < v} = UpTo(v - 1)
      BY <2>2, <1>4
    <3>2. v - 1 \in 0 .. MaxPower /\ v - 1 \notin V
      BY <2>2, <1>3, <1>4, PanelAssumption
    <3>3. ~ (Cardinality(UpTo(v - 1)) > i) /\ Cardinality(UpTo(v - 1)) \in Nat
      BY <3>2, <1>1
    <3> QED
      BY <3>1, <3>3
  <2> QED
    BY <2>1, <2>2
<1>6. v \in {pw[s] : s \in S}
  <2>1. UpTo(v) # {s \in S : pw[s] < v}
    <3>1. Cardinality(UpTo(v)) \in Nat /\ Cardinality({s \in S : pw[s] < v}) \in Nat
      BY <1>1
    <3> QED
      BY <3>1, <1>4, <1>5
  <2>2. PICK s \in S : pw[s] <= v /\ ~ (pw[s] < v)
    BY <2>1
  <2> QED
    BY <2>2, <1>4
<1> QED
  BY <1>4, <1>5, <1>6 DEF AtIndex

\* There is a percentile, and it is the power of a panel.
LEMMA PercentileExists ==
  ASSUME NEW S, IsFiniteSet(S), S # {},
         NEW pw, \A s \in S : pw[s] \in 0 .. MaxPower
  PROVE  /\ percentile(S, pw) \in {pw[s] : s \in S}
         /\ IsPercentile(S, pw, percentile(S, pw))
<1>1. Cardinality(S) \in Nat \ {0}
  BY FS_CardinalityType, FS_EmptySet
<1>2. PICK i \in Nat : i = (RefPercent * Cardinality(S)) \div 100 /\ i < Cardinality(S)
  BY <1>1, IndexInRange
<1>4. PICK v : AtIndex(S, pw, i, v)
  BY <1>2, RankExists
<1>5. v \in {pw[s] : s \in S} /\ IsPercentile(S, pw, v)
  BY <1>2, <1>4 DEF IsPercentile, AtIndex
<1> QED
  BY <1>5 DEF percentile

-----------------------------------------------------------------------------
(* Types.                                                                  *)

\* The lists looked at are device lists, with a power for every panel.
LEMMA ListsType ==
  ASSUME TypeOK, NEW l \in ListsSeen[known]
  PROVE  l.list \in DeviceLists /\ l.power \in [Inverters -> Powers]
<1>1. known \in SUBSET Inverters
  BY DEF TypeOK
<1>2. ListsSeen[known] \subseteq [list : DeviceLists, power : [Inverters -> Powers]]
  BY <1>1, ListsAssumption
<1> QED
  BY <1>2

\* The poller does not notice that it is watched.
LEMMA PollerStepOrStutter ==
  ASSUME TypeOK, [PanelNext]_panelVars
  PROVE  [Next]_vars
<1>1. CASE FetchPowers
  BY <1>1, ListsType DEF FetchPowers, FetchOK, Next, PollerStep, Fetch
<1>2. CASE ~ FetchPowers
  BY <1>2 DEF PanelNext, panelVars, vars, SaveRows, DropList, Age, OtherStep, Next,
              PollerStep, Fetch
<1> QED
  BY <1>1, <1>2

LEMMA PollerTypes == PanelSpec => []TypeOK
<1>1. PanelInit => Inv
  BY InitInv DEF PanelInit
<1>2. Inv /\ [PanelNext]_panelVars => Inv'
  BY PollerStepOrStutter, NextInv DEF Inv
<1>3. Inv => TypeOK
  BY DEF Inv
<1> QED
  BY <1>1, <1>2, <1>3, PTL DEF PanelSpec

-----------------------------------------------------------------------------
(* The powers of the list and of the rows.                                 *)

\* Between the loop and the save, every panel of the list was queued or is down;
\* and only panels that deliver data have a power.
ListInv ==
  pc = "apply" =>
    /\ power \in PowersOf(batch)
    /\ \A s \in Listed : s \in todo \/ s \in toSave \/ Down(s)

PanelInv == PanelTypeOK /\ ListInv

LEMMA PanelInitInv == PanelInit => PanelInv
<1> SUFFICES ASSUME PanelInit PROVE PanelInv
  OBVIOUS
<1>1. PICK p \in Powers : row = [s \in Inverters |-> IF latest[s] = "working" THEN p ELSE 0]
  BY DEF PanelInit
<1>2. PanelTypeOK
  BY <1>1, PanelAssumption DEF PanelInit, PanelTypeOK, Dark, notReporting
<1>3. ListInv
  BY DEF PanelInit, Init, ListInv
<1> QED
  BY <1>2, <1>3 DEF PanelInv

\* A step that leaves the powers, the rows and the list alone.
LEMMA OtherStepInv ==
  ASSUME TypeOK, TypeOK', PanelInv, OtherStep
  PROVE  PanelInv'
<1> USE DEF PanelInv, OtherStep
<1>1. CASE \E s \in Inverters : VisitInverter(s)
  <2>1. PICK x \in Inverters : VisitInverter(x)
    BY <1>1
  <2>2. /\ pc = "apply" /\ batch' = batch /\ latest' = latest
        /\ todo' = todo \ {x} /\ toSave \subseteq toSave'
        /\ x \in toSave' \/ Down(x)
    BY <2>1 DEF VisitInverter, Visit, VisitSustained, VisitGoesDown, VisitRecovers,
                VisitHealthy, Remember
  <2>3. ListInv'
    BY <2>2 DEF ListInv, Listed, Down
  <2>4. PanelTypeOK'
    BY <2>2 DEF PanelTypeOK
  <2> QED
    BY <2>3, <2>4
<1>2. CASE ~ \E s \in Inverters : VisitInverter(s)
  <2>1. (latest' = latest /\ pc' # "apply") \/ UNCHANGED <<pc, batch, todo, toSave, latest>>
    BY <1>2 DEF Start, seedFromStore, EnableTelemetryOK, EnableTelemetryFail,
                EnableTelemetryAuth, FetchFail, FetchAuth, Tick, Reboot, process, store
  <2>2. latest' = latest
    BY <2>1
  <2>3. PanelTypeOK'
    BY <2>2 DEF PanelTypeOK
  <2>4. ListInv'
    BY <2>1 DEF ListInv, Listed, Down
  <2> QED
    BY <2>3, <2>4
<1> QED
  BY <1>1, <1>2

LEMMA PanelStepInv ==
  TypeOK /\ TypeOK' /\ PanelInv /\ [PanelNext]_panelVars => PanelInv'
<1> SUFFICES ASSUME TypeOK, TypeOK', PanelInv, [PanelNext]_panelVars PROVE PanelInv'
  OBVIOUS
<1> USE DEF PanelInv
<1>1. CASE FetchPowers
  <2>1. latest' = latest /\ row' = row /\ old' = old /\ power' \in PowersOf(batch')
    BY <1>1 DEF FetchPowers, Fetched, store
  <2>2. todo' = {s \in Inverters : batch'[s] # Absent}
    BY <1>1 DEF FetchPowers, Fetched
  <2>3. PanelTypeOK'
    BY <2>1 DEF PanelTypeOK, PowersOf
  <2>4. ListInv'
    BY <2>1, <2>2 DEF ListInv, Listed
  <2> QED
    BY <2>3, <2>4
<1>2. CASE SaveRows
  <2>1. ListInv'
    BY <1>2 DEF SaveRows, SaveOK, ListInv
  <2>2. /\ power \in PowersOf(batch) /\ row' = [s \in Inverters |-> IF s \in toSave THEN power[s] ELSE row[s]]
        /\ latest' = [s \in Inverters |-> IF s \in toSave THEN EffectiveState(batch[s]) ELSE latest[s]]
    BY <1>2 DEF SaveRows, SaveOK, ListInv
  <2>3. \A s \in Inverters : notReporting(latest'[s]) => row'[s] = 0
    BY <2>2 DEF PowersOf, PanelTypeOK
  <2>4. row' \in [Inverters -> Powers] /\ power' \in [Inverters -> Powers]
    BY <1>2, <2>2, PanelAssumption DEF SaveRows, PanelTypeOK, Dark
  <2>5. old' \in BOOLEAN
    BY <1>2, Zenon DEF SaveRows, PanelTypeOK
  <2> QED
    BY <2>1, <2>3, <2>4, <2>5 DEF PanelTypeOK
<1>3. CASE DropList
  <2>1. pc' # "apply" /\ latest' = latest
    BY <1>3 DEF DropList, SaveFail, Stop, store
  <2> QED
    BY <1>3, <2>1, PanelAssumption DEF DropList, PanelTypeOK, ListInv, Dark
<1>4. CASE Age
  <2>1. UNCHANGED <<pc, batch, todo, toSave, latest, power, row>> /\ old' = TRUE
    BY <1>4 DEF Age, vars
  <2> QED
    BY <2>1 DEF PanelTypeOK, ListInv, Listed, Down
<1>5. CASE OtherStep
  BY <1>5, OtherStepInv
<1>6. CASE UNCHANGED panelVars
  BY <1>6 DEF panelVars, PanelTypeOK, ListInv, Listed, Down
<1> QED
  BY <1>1, <1>2, <1>3, <1>4, <1>5, <1>6 DEF PanelNext

LEMMA PanelInvHolds == PanelSpec => [](PanelInv /\ TypeOK)
<1>1. PanelInit /\ []TypeOK /\ [][PanelNext]_panelVars => []PanelInv
  BY PanelInitInv, PanelStepInv, PTL
<1> QED
  BY <1>1, PollerTypes, PTL DEF PanelSpec

\* A panel without data has a row without power, whatever is lost or saved
\* (SaveDevices).
THEOREM PanelTypeCorrect == PanelSpec => []PanelTypeOK
  BY PanelInvHolds, PTL DEF PanelInv

-----------------------------------------------------------------------------
(* The verdict.                                                            *)

LEMMA PowerBound ==
  ASSUME NEW p \in Powers
  PROVE  p \in 0 .. MaxPower /\ p \in Nat
  BY PanelAssumption

\* Of a set with the powers up to v and one without them, the larger is at least
\* what is left of S.
LEMMA PartsOf ==
  ASSUME NEW S, IsFiniteSet(S), NEW A \in SUBSET S, NEW B \in SUBSET S
  PROVE  /\ IsFiniteSet(A) /\ Cardinality(A) \in Nat /\ Cardinality(B) \in Nat
         /\ Cardinality(S) \in Nat
         /\ A \cap B = {} => Cardinality(A) + Cardinality(B) <= Cardinality(S)
         /\ A \cup B = S => Cardinality(A) + Cardinality(B) >= Cardinality(S)
<1>1. /\ IsFiniteSet(A) /\ IsFiniteSet(B)
      /\ Cardinality(A) \in Nat /\ Cardinality(B) \in Nat /\ Cardinality(S) \in Nat
  BY FS_Subset, FS_CardinalityType
<1>2. Cardinality(A \cup B) = Cardinality(A) + Cardinality(B) - Cardinality(A \cap B)
  BY <1>1, FS_Union, Zenon
<1>3. /\ A \cup B \in SUBSET S /\ A \cap B \in SUBSET S
      /\ Cardinality(A \cup B) <= Cardinality(S) /\ Cardinality(A \cap B) \in Nat
  <2>1. A \cup B \in SUBSET S /\ A \cap B \in SUBSET S
    OBVIOUS
  <2>2. Cardinality(A \cup B) <= Cardinality(S)
    BY <2>1, FS_Subset, Zenon
  <2>3. Cardinality(A \cap B) \in Nat
    <3>1. IsFiniteSet(A \cap B)
      BY <2>1, FS_Subset, Zenon
    <3> QED
      BY <3>1, FS_CardinalityType, Zenon
  <2> QED
    BY <2>1, <2>2, <2>3
<1>4. ASSUME A \cap B = {} PROVE Cardinality(A \cap B) = 0
  <2>1. Cardinality({}) = 0
    BY FS_EmptySet, Zenon
  <2> QED
    BY <1>4, <2>1, Zenon
<1>5. ASSUME A \cup B = S PROVE Cardinality(A \cup B) = Cardinality(S)
  BY <1>5, Zenon
<1> QED
  BY <1>1, <1>2, <1>3, <1>4, <1>5

\* A set of panels that every brighter one belongs to as well holds the panels
\* of the reference just if it is a tenth of the array, or whatever share
\* RefPercent leaves.
LEMMA ReferenceInTop ==
  ASSUME NEW S, IsFiniteSet(S), S # {}, NEW pw, \A s \in S : pw[s] \in 0 .. MaxPower,
         NEW H \in SUBSET S, \A x \in H, y \in S : pw[x] <= pw[y] => y \in H,
         NEW r \in S, pw[r] = percentile(S, pw)
  PROVE  r \in H <=> Cardinality(H) * 100 >= (100 - RefPercent) * Cardinality(S)
<1> DEFINE v == pw[r]
           n == Cardinality(S)
           below == {s \in S : pw[s] < v}
           upTo  == {s \in S : pw[s] <= v}
           i == (RefPercent * n) \div 100
<1>1. Cardinality(below) <= i /\ Cardinality(upTo) > i
  BY PercentileExists DEF IsPercentile
<1>2. v \in Nat /\ \A s \in S : pw[s] \in Nat
  BY PanelAssumption
<1>3. /\ n \in Nat /\ Cardinality(H) \in Nat
      /\ Cardinality(below) \in Nat /\ Cardinality(upTo) \in Nat
  BY PartsOf
<1>4. r \in H => Cardinality(H) + Cardinality(below) >= n
  <2>1. r \in H => H \cup below = S
    BY <1>2
  <2> QED
    BY <2>1, PartsOf
<1>5. r \notin H => Cardinality(H) + Cardinality(upTo) <= n
  <2>1. r \notin H => H \cap upTo = {}
    BY <1>2
  <2> QED
    BY <2>1, PartsOf
<1>6. /\ RefPercent * n \in Nat /\ i \in Nat
      /\ 100 * i <= RefPercent * n /\ RefPercent * n < 100 * i + 100
  BY <1>3, PanelAssumption
<1>7. (100 - RefPercent) * n = 100 * n - RefPercent * n
  BY <1>3, PanelAssumption
<1> HIDE DEF v, n, below, upTo, i
<1>8. Cardinality(H) * 100 >= 100 * n - RefPercent * n <=> r \in H
  BY <1>1, <1>3, <1>4, <1>5, <1>6
<1> QED
  BY <1>7, <1>8 DEF n

\* The share of a power that a panel is dead below grows with it, and no panel is
\* below its own.
LEMMA DeadBelow ==
  ASSUME NEW x \in Nat, NEW y \in Nat, x <= y
  PROVE  DeadPercent * x \in Nat /\ DeadPercent * x <= DeadPercent * y
<1>1. PICK d \in 1 .. 99 : d = DeadPercent
  BY PanelAssumption
<1>2. PICK k \in Nat : y = x + k
  <2>1. y - x \in Nat /\ y = x + (y - x)
    OBVIOUS
  <2> QED
    BY <2>1
<1>3. d * y = d * x + d * k /\ d * k \in Nat /\ d * x \in Nat
  BY <1>2
<1> QED
  BY <1>1, <1>3

\* There is a verdict just if a tenth of the array makes the minimum, and the
\* panels reported are those that a tenth of the array outshines, be the others
\* dead or bright (EvaluatePanelHealth).
THEOREM LargeOutageSeen == PanelSpec => []LargeOutageIsSeen
<1>1. PanelInv => LargeOutageIsSeen
  <2> SUFFICES ASSUME PanelInv, ~old, LatestInverters # {}
               PROVE  /\ handlePanelHealth.state # "no_verdict" <=> Enough(Bright)
                      /\ Enough(Bright) =>
                           handlePanelHealth.not_producing =
                             {s \in LatestInverters : Enough(Outshining(s))}
    BY DEF LargeOutageIsSeen
  <2> DEFINE S == LatestInverters
             v == percentile(S, row)
  <2>1. IsFiniteSet(S) /\ S # {} /\ \A s \in S : row[s] \in 0 .. MaxPower
    <3>1. S \in SUBSET Inverters
      BY DEF LatestInverters
    <3> QED
      BY <3>1, FS_Subset, PanelAssumption DEF PanelInv, PanelTypeOK
  <2>2. \A s \in S : row[s] \in Nat
    BY <2>1, PanelAssumption
  <2>3. PICK r \in S : row[r] = v
    BY <2>1, PercentileExists
  <2>4. Enough(Bright) <=> ~ (v < MinReference)
    <3>1. /\ Bright \in SUBSET S
          /\ \A x \in Bright, y \in S : row[x] <= row[y] => y \in Bright
      BY <2>2, PanelAssumption DEF Bright
    <3>2. r \in Bright <=> Enough(Bright)
      BY <2>1, <2>3, <3>1, ReferenceInTop DEF Enough
    <3>3. r \in Bright <=> ~ (v < MinReference)
      <4>1. r \in Bright <=> row[r] >= MinReference
        BY DEF Bright
      <4> QED
        BY <2>2, <2>3, <4>1, PanelAssumption
    <3> QED
      BY <3>2, <3>3
  <2>5. NotProducing(S, row, v) = {s \in S : Enough(Outshining(s))}
    <3>1. ASSUME NEW s \in S
          PROVE  row[s] * 100 < DeadPercent * v <=> Enough(Outshining(s))
      <4>1. Outshining(s) \in SUBSET S
        BY DEF Outshining
      <4>2. ASSUME NEW x \in Outshining(s), NEW y \in S, row[x] <= row[y]
            PROVE  y \in Outshining(s)
        <5>1. DeadPercent * row[x] <= DeadPercent * row[y]
          BY <2>2, <4>1, <4>2, DeadBelow
        <5>2. DeadPercent * row[x] \in Nat /\ DeadPercent * row[y] \in Nat
          BY <2>2, <4>1, PanelAssumption
        <5>3. row[s] * 100 < DeadPercent * row[x] /\ row[s] * 100 \in Nat
          BY <2>2 DEF Outshining
        <5>4. row[s] * 100 < DeadPercent * row[y]
          BY <5>1, <5>2, <5>3
        <5> QED
          BY <5>4 DEF Outshining
      <4>3. r \in Outshining(s) <=> Enough(Outshining(s))
        BY <2>1, <2>3, <4>1, <4>2, ReferenceInTop DEF Enough
      <4>4. r \in Outshining(s) <=> row[s] * 100 < DeadPercent * v
        BY <2>3 DEF Outshining
      <4> QED
        BY <4>3, <4>4
    <3> QED
      BY <3>1 DEF NotProducing
  <2>6. /\ handlePanelHealth.state # "no_verdict" <=> ~ (v < MinReference)
        /\ ~ (v < MinReference) => handlePanelHealth.not_producing = NotProducing(S, row, v)
    <3> HIDE DEF v
    <3> QED
      BY <2>1 DEF handlePanelHealth, EvaluatePanelHealth, NoVerdict, v
  <2> HIDE DEF v
  <2> QED
    BY <2>4, <2>5, <2>6
<1> QED
  BY <1>1, PanelInvHolds, PTL

\* The verdict on powers that are all 0 is none.
LEMMA DarkHasNoVerdict ==
  ASSUME NEW S, IsFiniteSet(S), NEW pw, \A s \in S : pw[s] = 0, NEW tooOld \in BOOLEAN
  PROVE  EvaluatePanelHealth(S, pw, tooOld) = NoVerdict
<1>1. CASE S = {}
  BY <1>1 DEF EvaluatePanelHealth
<1>2. CASE S # {}
  <2>1. \A s \in S : pw[s] \in 0 .. MaxPower
    BY PanelAssumption
  <2>2. percentile(S, pw) \in {pw[s] : s \in S}
    BY <1>2, <2>1, PercentileExists
  <2>3. percentile(S, pw) = 0
    BY <2>2
  <2>4. percentile(S, pw) < MinReference
    BY <2>3, PanelAssumption
  <2> QED
    BY <2>4 DEF EvaluatePanelHealth
<1> QED
  BY <1>1, <1>2

\* After a list that is recorded the newest rows have the powers of the list.
LEMMA SaveRecorded ==
  ASSUME TypeOK, TypeOK', PanelInv, PanelInv', SaveRows, Recorded
  PROVE  handlePanelHealth' = HealthOfList
<1>1. /\ \A s \in Inverters : batch[s] # Absent
      /\ \A s \in Inverters : Down(s) => notReporting(latest'[s])
  BY DEF Recorded, Listed
<1>2. /\ pc = "apply" /\ todo = {}
      /\ row' = [s \in Inverters |-> IF s \in toSave THEN power[s] ELSE row[s]]
      /\ old' = (old /\ toSave = {})
      /\ latest' = [s \in Inverters |->
                      IF s \in toSave THEN EffectiveState(batch[s]) ELSE latest[s]]
  BY DEF SaveRows, SaveOK
<1>3. Listed = Inverters
  BY <1>1 DEF Listed
<1>4. ASSUME NEW s \in Inverters, s \notin toSave
      PROVE  power[s] = 0 /\ row'[s] = 0 /\ notReporting(latest'[s])
  <2>1. power \in PowersOf(batch) /\ Down(s)
    BY <1>1, <1>2, <1>3, <1>4 DEF PanelInv, ListInv
  <2>2. power[s] = 0
    BY <2>1, <1>1 DEF PowersOf, Down
  <2>3. notReporting(latest'[s])
    BY <2>1, <1>1
  <2> QED
    BY <2>2, <2>3 DEF PanelInv, PanelTypeOK
<1>5. row' = power
  <2>1. \A s \in Inverters : row'[s] = power[s]
    BY <1>2, <1>4
  <2>2. power \in [Inverters -> Powers] /\ row' \in [Inverters -> Powers]
    BY DEF PanelInv, PanelTypeOK
  <2> QED
    BY <2>1, <2>2
<1>6. LatestInverters' = Inverters
  <2>1. ASSUME NEW s \in Inverters PROVE latest'[s] # "none"
    <3>1. CASE s \in toSave
      <4>1. batch[s] \in Records
        BY <1>1 DEF TypeOK, DeviceLists
      <4>2. EffectiveState(batch[s]) \in States
        BY <4>1, EffectiveStateType
      <4> QED
        BY <1>2, <3>1, <4>2 DEF States
    <3>2. CASE s \notin toSave
      BY <1>4, <3>2 DEF notReporting
    <3> QED
      BY <3>1, <3>2
  <2> QED
    BY <2>1 DEF LatestInverters
<1>7. handlePanelHealth' = EvaluatePanelHealth(Inverters, power, old')
  BY <1>5, <1>6 DEF handlePanelHealth
<1>8. CASE ~ old'
  <2>1. old' = FALSE
    <3>1. old' \in BOOLEAN
      BY DEF PanelInv, PanelTypeOK
    <3> QED
      BY <3>1, <1>8
  <2> QED
    BY <1>3, <1>7, <2>1 DEF HealthOfList
<1>9. CASE old'
  <2>1. \A s \in Inverters : power[s] = 0
    BY <1>2, <1>4, <1>9
  <2>2. EvaluatePanelHealth(Inverters, power, TRUE) = NoVerdict
    BY <2>1, DarkHasNoVerdict, PanelAssumption
  <2>3. EvaluatePanelHealth(Inverters, power, FALSE) = NoVerdict
    BY <2>1, DarkHasNoVerdict, PanelAssumption
  <2>4. old' = TRUE
    <3>1. old' \in BOOLEAN
      BY DEF PanelInv, PanelTypeOK
    <3> QED
      BY <3>1, <1>9
  <2>5. handlePanelHealth' = NoVerdict
    BY <1>7, <2>2, <2>4
  <2>6. HealthOfList = NoVerdict
    BY <1>3, <2>3 DEF HealthOfList
  <2> QED
    BY <2>5, <2>6
<1> QED
  BY <1>8, <1>9

\* Suppressing the rows of panels that are down does not show in the verdict
\* (poll, latest_inverters.sql, EvaluatePanelHealth).
THEOREM VerdictCurrent == PanelSpec => VerdictIsCurrent
<1>1. TypeOK /\ TypeOK' /\ PanelInv /\ PanelInv'
      => [SaveRows /\ Recorded => handlePanelHealth' = HealthOfList]_panelVars
  BY SaveRecorded
<1> QED
  BY <1>1, PanelInvHolds, PTL DEF VerdictIsCurrent
=============================================================================
