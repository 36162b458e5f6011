----------------------------- MODULE PanelHealth -----------------------------
(***************************************************************************)
(* The verdict of GET /api/panel-health (pvs/panelhealth.go), over the     *)
(* newest inverter_readings rows that the device poller leaves behind.     *)
(*                                                                         *)
(* The poller writes a panel that delivers no data once per outage, so the *)
(* rows a verdict compares are of different ages: DevicePoller is extended *)
(* with the power of every record and every newest row, and with whether   *)
(* the newest row of all is still young enough to be judged.               *)
(*                                                                         *)
(* Simplifications: powers are natural numbers of a unit of choice; a      *)
(* record without data has power 0 (see PowersOf); a row that is saved     *)
(* later is newer, as it is while the clock is not set back and lists are  *)
(* a second or more apart (received_at is in seconds, and a panel's newest *)
(* row is the one with the greatest); voltages, energies and today_kwh     *)
(* play no part.                                                           *)
(***************************************************************************)
EXTENDS DevicePoller, FiniteSets

CONSTANTS
  MaxPower,       \* what a panel produces at most
  Powers,         \* the powers in a record
  DeadPercent,    \* PanelDeadFraction, in percent
  RefPercent,     \* PanelReferencePercentile
  MinReference,   \* PanelMinReferenceKW
  ListsSeen       \* bound: the lists looked at with their powers, by the panels known

ASSUME PanelAssumption ==
  /\ MaxPower \in Nat /\ Powers \subseteq 0 .. MaxPower /\ 0 \in Powers
  /\ MinReference \in Nat \ {0}
  /\ DeadPercent \in 1 .. 99 /\ RefPercent \in 0 .. 99
  /\ IsFiniteSet(Inverters)

ASSUME ListsAssumption ==
  ListsSeen \in [SUBSET Inverters -> SUBSET [list : DeviceLists, power : [Inverters -> Powers]]]

VARIABLES
  power,   \* the powers in the list being processed
  row,     \* the power of the newest row of each inverter
  old      \* the newest row of all is more than PanelMaxAge old

panelVars == <<pc, starting, last, batch, todo, toSave, openRows, latest,
               telemetry, seen, downRows, known, faults, power, row, old>>

-----------------------------------------------------------------------------
(* The verdict on the panels S with powers pw.                             *)

NoVerdict == [state |-> "no_verdict", not_producing |-> {}]

\* Mutant: the reference is the median.
IsMedian(S, pw, v) ==
  LET i == (50 * Cardinality(S)) \div 100
  IN  /\ Cardinality({s \in S : pw[s] < v}) <= i
      /\ Cardinality({s \in S : pw[s] <= v}) > i

\* v is the value at fraction RefPercent of the sorted powers: the index is
\* rounded down and counts from zero.
IsPercentile(S, pw, v) ==
  LET i == (RefPercent * Cardinality(S)) \div 100
  IN  /\ Cardinality({s \in S : pw[s] < v}) <= i
      /\ Cardinality({s \in S : pw[s] <= v}) > i

percentile(S, pw) == CHOOSE v \in {pw[s] : s \in S} : IsPercentile(S, pw, v)

NotProducing(S, pw, reference) == {s \in S : pw[s] * 100 < DeadPercent * reference}

\* The verdict on the newest rows S, whose age is that of the newest of them.
EvaluatePanelHealth(S, pw, tooOld) ==
  LET reference == percentile(S, pw)
      dead      == NotProducing(S, pw, reference)
  IN  IF S = {} \/ tooOld \/ reference < MinReference THEN NoVerdict
      ELSE [state |-> IF dead = {} THEN "ok" ELSE "degraded", not_producing |-> dead]

\* The inverters that have a row, and the verdict on their newest ones.
LatestInverters == {s \in Inverters : latest[s] # "none"}

handlePanelHealth == EvaluatePanelHealth(LatestInverters, row, old)

\* The verdict that the list being processed would give by itself.
Listed       == {s \in Inverters : batch[s] # Absent}
HealthOfList == EvaluatePanelHealth(Listed, power, FALSE)

-----------------------------------------------------------------------------
PanelTypeOK ==
  /\ power \in [Inverters -> Powers]
  /\ row \in [Inverters -> Powers]
  /\ old \in BOOLEAN
  /\ \A s \in Inverters : notReporting(latest[s]) => row[s] = 0

Dark == [s \in Inverters |-> 0]

PanelInit ==
  /\ Init
  /\ power = Dark
  /\ row \in {[s \in Inverters |-> IF latest[s] = "working" THEN p ELSE 0] : p \in Powers}
  /\ old \in BOOLEAN

\* The powers that go with a list: a panel that delivers no data makes none.  Of
\* an all-zero record this is so by its definition; of one in error it is what
\* panelhealth.go:34 says of the inverters, while the code would store any power
\* that the record holds.
PowersOf(list) ==
  {p \in [Inverters -> Powers] :
     \A s \in Inverters : list[s] = Absent \/ notReporting(EffectiveState(list[s])) => p[s] = 0}

FetchPowers ==
  /\ \E l \in ListsSeen[known] :
       /\ Fetched(l.list)
       /\ l.power \in PowersOf(l.list)
       /\ power' = l.power
  /\ UNCHANGED <<row, old>>

\* Mutants: a power of 0 counts as not given; the rows are as old as the oldest.
SaveNonzero ==
  /\ SaveOK
  /\ row' = [s \in Inverters |-> IF s \in toSave /\ power[s] > 0 THEN power[s] ELSE row[s]]
  /\ old' = (old /\ toSave = {})
  /\ power' = Dark

OldestRow ==
  /\ SaveOK
  /\ row' = [s \in Inverters |-> IF s \in toSave THEN power[s] ELSE row[s]]
  /\ old' = (old /\ toSave # Inverters)
  /\ power' = Dark

\* SaveDevices writes the power beside the state.
SaveRows ==
  /\ SaveOK
  /\ row' = [s \in Inverters |-> IF s \in toSave THEN power[s] ELSE row[s]]
  /\ old' = (old /\ toSave = {})
  /\ power' = Dark

\* The list is not saved, or lost with the process.
DropList ==
  /\ SaveFail \/ Stop
  /\ power' = Dark
  /\ UNCHANGED <<row, old>>

\* Half an hour passes without a new row.
Age ==
  /\ pc \in {"idle", "stopped", "dead"}
  /\ old' = TRUE
  /\ UNCHANGED <<vars, power, row>>

OtherStep ==
  /\ \/ Start \/ seedFromStore
     \/ EnableTelemetryOK \/ EnableTelemetryFail \/ EnableTelemetryAuth
     \/ FetchFail \/ FetchAuth
     \/ \E s \in Inverters : VisitInverter(s)
     \/ Tick \/ Reboot
  /\ UNCHANGED <<power, row, old>>

PanelNext == FetchPowers \/ SaveRows \/ DropList \/ Age \/ OtherStep

PanelSpec == PanelInit /\ [][PanelNext]_panelVars

-----------------------------------------------------------------------------
(* Safety.                                                                 *)

\* A list that leaves no panel out, and after which every panel that delivers
\* no data has a newest row that says so.
Recorded ==
  \A s \in Inverters : s \in Listed /\ (Down(s) => notReporting(latest'[s]))

\* Suppressing the rows of panels that are down does not show in the verdict:
\* once such a list is saved, it is the one that the list gives by itself.  The
\* rows of panels that are down are of another day, and those of panels that
\* came back are never left behind; and if no row is young enough to be judged,
\* then there was nothing to judge (poll, latest_inverters.sql,
\* EvaluatePanelHealth).
VerdictIsCurrent == [][SaveRows /\ Recorded => handlePanelHealth' = HealthOfList]_panelVars

\* The panels that set the reference are a tenth of them, or whatever share the
\* percentile leaves; of ten or fewer a tenth is a single one.
Enough(S) ==
  Cardinality(S) * 100 >= (100 - RefPercent) * Cardinality(LatestInverters)

Bright        == {s \in LatestInverters : row[s] >= MinReference}
Outshining(s) == {r \in LatestInverters : row[s] * 100 < DeadPercent * row[r]}

\* An outage of most of the array is still one, and fewer odd readings than a
\* tenth make none: there is a verdict just if a tenth makes the minimum, and the
\* panels reported are just those that so many others outshine, wherever the
\* rest of the array stands (the comments on the reference at the head of
\* panelhealth.go and at PanelReferencePercentile).
LargeOutageIsSeen ==
  ~old /\ LatestInverters # {} =>
    /\ handlePanelHealth.state # "no_verdict" <=> Enough(Bright)
    /\ Enough(Bright) =>
         handlePanelHealth.not_producing = {s \in LatestInverters : Enough(Outshining(s))}

\* A panel that the list just saved shows as stopped while its peers continue
\* is reported, as the comment on handlePanelHealth says.
StoppedIsReported ==
  [][SaveRows /\ Listed = Inverters =>
       HealthOfList.not_producing \subseteq handlePanelHealth'.not_producing]_panelVars
=============================================================================
