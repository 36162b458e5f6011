------------------------- MODULE DevicePollerProofs -------------------------
(***************************************************************************)
(* Theorems about DevicePoller, for any set of panels and any faults.      *)
(***************************************************************************)
EXTENDS DevicePoller, TLAPS

\* The loop only ever looks at inverters the list mentions, and a queued
\* record is one that was visited and acted on.
BatchInv ==
  /\ pc # "apply" => todo = {} /\ toSave = {}
  /\ todo \cap toSave = {}
  /\ \A s \in todo \cup toSave : batch[s] # Absent
  /\ \A s \in toSave : last[s] = EffectiveState(batch[s])

Inv == TypeOK /\ BatchInv

\* What a record in a list means for the poller.
LEMMA EffectiveStateType ==
  ASSUME NEW r \in Records
  PROVE  EffectiveState(r) \in States
BY DEF Records, EffectiveState, States

\* No record of a list is the one for a missing inverter.
LEMMA RecordNotAbsent == Absent \notin Records
BY DEF Records, Absent

LEMMA BatchRecord ==
  ASSUME TypeOK, NEW s \in Inverters, batch[s] # Absent
  PROVE  EffectiveState(batch[s]) \in States
<1>1. batch[s] \in Records
  BY DEF TypeOK, DeviceLists
<1>2. QED
  BY <1>1, EffectiveStateType

LEMMA InitInv == Init => Inv
<1> SUFFICES ASSUME Init PROVE Inv
  OBVIOUS
<1>1. PICK down \in SUBSET known :
        /\ openRows = [s \in Inverters |-> IF s \in down THEN 1 ELSE 0]
        /\ seen = [s \in Inverters |-> IF s \in down THEN "error" ELSE "none"]
  BY DEF Init
<1>2. openRows \in [Inverters -> Nat] /\ seen \in [Inverters -> SavedStates]
  BY <1>1 DEF SavedStates, States
<1>3. latest \in [Inverters -> SavedStates] /\ last \in [Inverters -> SavedStates]
  BY DEF Init, SavedStates, States
<1>4. batch \in DeviceLists
  BY DEF Init, NoList, DeviceLists
<1>5. downRows \in [Inverters -> 0 .. 2]
  BY DEF Init
<1>6. TypeOK
  <2>1. known \subseteq Inverters /\ faults \subseteq FaultKinds
    BY CasesAssumption DEF Init
  <2>2. QED
    BY <1>2, <1>3, <1>4, <1>5, <2>1 DEF Init, TypeOK
<1>7. BatchInv
  BY DEF Init, BatchInv
<1>8. QED
  BY <1>6, <1>7 DEF Inv

\* The visits change the memory and the ledger within their types.
LEMMA VisitInv ==
  ASSUME Inv, NEW s \in Inverters, VisitInverter(s)
  PROVE  Inv'
<1>1. batch[s] # Absent /\ s \notin toSave /\ pc = "apply"
  BY DEF Inv, BatchInv, VisitInverter, VisitSustained, VisitGoesDown,
         VisitRecovers, VisitHealthy, Visit
<1>2. EffectiveState(batch[s]) \in SavedStates
  BY <1>1, BatchRecord DEF Inv, SavedStates
<1>3. /\ pc' = "apply" /\ starting' = starting /\ UNCHANGED rigid /\ batch' = batch
      /\ latest' = latest /\ telemetry' = telemetry
      /\ todo' = todo \ {s}
      /\ seen' = [seen EXCEPT ![s] = EffectiveState(batch[s])]
  BY <1>1 DEF VisitInverter, VisitSustained, VisitGoesDown, VisitRecovers,
              VisitHealthy, Visit, rigid
<1>4. \/ last' = last /\ toSave' = toSave
      \/ Remember(s)
  BY DEF VisitInverter, VisitSustained, VisitGoesDown, VisitRecovers, VisitHealthy
<1>5. \/ openRows' = openRows
      \/ openRows' = OpenInverterOutage(openRows, s)
      \/ openRows' = CloseInverterOutage(openRows, s)
  BY DEF VisitInverter, VisitSustained, VisitGoesDown, VisitRecovers, VisitHealthy
<1>6. openRows' \in [Inverters -> Nat]
  BY <1>5 DEF Inv, TypeOK, OpenInverterOutage, CloseInverterOutage
<1>7. downRows' \in [Inverters -> 0 .. 2]
  BY DEF VisitInverter, VisitSustained, VisitGoesDown, VisitRecovers,
         VisitHealthy, Inv, TypeOK
<1>8. TypeOK'
  BY <1>2, <1>3, <1>4, <1>6, <1>7 DEF Inv, TypeOK, Remember, DeviceLists, rigid
<1>9. BatchInv'
  BY <1>1, <1>3, <1>4 DEF Inv, TypeOK, BatchInv, Remember
<1>10. QED
  BY <1>8, <1>9 DEF Inv

LEMMA SaveInv ==
  ASSUME Inv, SaveOK
  PROVE  Inv'
<1>1. \A s \in toSave : EffectiveState(batch[s]) \in SavedStates
  BY BatchRecord DEF Inv, TypeOK, BatchInv, SavedStates
<1>2. latest' \in [Inverters -> SavedStates]
  BY <1>1 DEF Inv, TypeOK, SaveOK
<1>3. \A n \in 0 .. 2, st \in SavedStates : CountDown(n, st) \in 0 .. 2
  BY DEF CountDown
<1>4. downRows' \in [Inverters -> 0 .. 2]
  BY <1>1, <1>3 DEF Inv, TypeOK, SaveOK
<1>5. TypeOK'
  BY <1>2, <1>4 DEF Inv, TypeOK, SaveOK, NoList, DeviceLists, rigid
<1>6. QED
  BY <1>5 DEF Inv, BatchInv, SaveOK

LEMMA NextInv == Inv /\ [Next]_vars => Inv'
<1> SUFFICES ASSUME Inv, [Next]_vars PROVE Inv'
  OBVIOUS
<1>1. CASE Start
  BY <1>1 DEF Inv, TypeOK, BatchInv, Start, store, history, SavedStates
<1>2. CASE seedFromStore
  BY <1>2 DEF Inv, TypeOK, BatchInv, seedFromStore, SeedState, store, history,
              SavedStates, States
<1>3. CASE EnableTelemetryOK \/ EnableTelemetryFail \/ EnableTelemetryAuth
  BY <1>3 DEF Inv, TypeOK, BatchInv, EnableTelemetryOK, EnableTelemetryFail,
              EnableTelemetryAuth, store, history
<1>4. CASE Fetch
  <2>1. CASE FetchOK
    <3>1. PICK list \in DeviceLists :
            batch' = list /\ todo' = {s \in Inverters : list[s] # Absent}
      BY <2>1 DEF FetchOK, Fetched
    <3>2. UNCHANGED <<starting, last, openRows, latest, telemetry, seen, downRows,
                      known, faults>>
          /\ pc' = "apply" /\ toSave' = {}
      BY <2>1 DEF FetchOK, Fetched, store, history
    <3>3. TypeOK'
      BY <3>1, <3>2 DEF Inv, TypeOK
    <3>4. BatchInv'
      BY <3>1, <3>2 DEF BatchInv
    <3>5. QED
      BY <3>3, <3>4 DEF Inv
  <2>2. CASE FetchFail \/ FetchAuth
    BY <2>2 DEF Inv, TypeOK, BatchInv, FetchFail, FetchAuth, store, history
  <2>3. QED
    BY <1>4, <2>1, <2>2 DEF Fetch
<1>5. ASSUME NEW s \in Inverters, VisitInverter(s) PROVE Inv'
  BY <1>5, VisitInv
<1>6. CASE SaveOK
  BY <1>6, SaveInv
<1>7. CASE SaveFail \/ Tick
  BY <1>7 DEF Inv, TypeOK, BatchInv, SaveFail, Tick, store, history, NoList,
              DeviceLists
<1>8. CASE Stop
  BY <1>8 DEF Inv, TypeOK, BatchInv, Stop, store, history, NoList, DeviceLists,
              SavedStates
<1>9. CASE Reboot
  BY <1>9 DEF Inv, TypeOK, BatchInv, Reboot, process, store, history
<1>10. CASE UNCHANGED vars
  BY <1>10 DEF Inv, TypeOK, BatchInv, vars
<1>11. QED
  BY <1>1, <1>2, <1>3, <1>4, <1>5, <1>6, <1>7, <1>8, <1>9, <1>10
     DEF Next, PollerStep

LEMMA InvHolds == Spec => []Inv
BY InitInv, NextInv, PTL DEF Spec

\* Every variable keeps its type, with any faults (the whole module).
THEOREM TypeCorrect == Spec => []TypeOK
<1>1. Inv => TypeOK
  BY DEF Inv
<1>2. QED
  BY <1>1, InvHolds, PTL

-----------------------------------------------------------------------------
(* At most one open outage, whatever fails.                                *)

\* The only step that adds a row is the guarded insert.
LEMMA OneOpenStep ==
  ASSUME Inv, OneOpenOutage, [Next]_vars
  PROVE  OneOpenOutage'
<1>1. CASE openRows' = openRows
  BY <1>1 DEF OneOpenOutage
<1>2. ASSUME NEW s \in Inverters, VisitInverter(s)
      PROVE  OneOpenOutage'
  <2>1. \/ openRows' = openRows
        \/ openRows' = OpenInverterOutage(openRows, s)
        \/ openRows' = CloseInverterOutage(openRows, s)
    BY <1>2 DEF VisitInverter, VisitSustained, VisitGoesDown, VisitRecovers, VisitHealthy
  <2>2. QED
    BY <2>1 DEF OneOpenOutage, OpenInverterOutage, CloseInverterOutage, Inv, TypeOK
<1>3. CASE SaveOK \/ SaveFail \/ Tick \/ Start \/ seedFromStore
  BY <1>1, <1>3 DEF SaveOK, SaveFail, Tick, Start, seedFromStore, store
<1>4. CASE EnableTelemetryOK \/ EnableTelemetryFail \/ EnableTelemetryAuth \/ Fetch
  BY <1>1, <1>4 DEF EnableTelemetryOK, EnableTelemetryFail, EnableTelemetryAuth,
                    Fetch, FetchOK, Fetched, FetchFail, FetchAuth, store
<1>5. CASE Stop \/ Reboot \/ UNCHANGED vars
  BY <1>1, <1>5 DEF Stop, Reboot, store, vars
<1>6. QED
  BY <1>2, <1>3, <1>4, <1>5 DEF Next, PollerStep

\* No panel ever has two open outages, with any faults of the store, the
\* process, the PVS6 and the records (open_outage.sql).
THEOREM AtMostOneOpen == Spec => []OneOpenOutage
<1>1. ASSUME Init PROVE OneOpenOutage
  <2>1. PICK down \in SUBSET known :
          openRows = [s \in Inverters |-> IF s \in down THEN 1 ELSE 0]
    BY <1>1 DEF Init
  <2>2. \A s \in Inverters : openRows[s] = IF s \in down THEN 1 ELSE 0
    BY <2>1
  <2>3. ASSUME NEW s \in Inverters PROVE openRows[s] <= 1
    <3>1. openRows[s] = 1 \/ openRows[s] = 0
      BY <2>2
    <3>2. QED
      BY <3>1
  <2>4. QED
    BY <2>3 DEF OneOpenOutage
<1>2. QED
  BY <1>1, OneOpenStep, InvHolds, PTL DEF Spec

-----------------------------------------------------------------------------
(* The case never changes.                                                 *)

LEMMA RigidStep == [Next]_vars => UNCHANGED rigid
<1> SUFFICES ASSUME [Next]_vars PROVE UNCHANGED rigid
  OBVIOUS
<1>1. ASSUME NEW s \in Inverters, VisitInverter(s)
      PROVE  UNCHANGED rigid
  BY <1>1 DEF VisitInverter, VisitSustained, VisitGoesDown, VisitRecovers,
              VisitHealthy, Visit
<1>2. CASE SaveOK \/ SaveFail \/ Tick \/ Start \/ seedFromStore
  BY <1>2 DEF SaveOK, SaveFail, Tick, Start, seedFromStore, history, rigid
<1>3. CASE EnableTelemetryOK \/ EnableTelemetryFail \/ EnableTelemetryAuth \/ Fetch
  BY <1>3 DEF EnableTelemetryOK, EnableTelemetryFail, EnableTelemetryAuth,
              Fetch, FetchOK, Fetched, FetchFail, FetchAuth, history, rigid
<1>4. CASE Stop \/ Reboot \/ UNCHANGED vars
  BY <1>4 DEF Stop, Reboot, history, rigid, vars
<1>5. QED
  BY <1>1, <1>2, <1>3, <1>4 DEF Next, PollerStep

-----------------------------------------------------------------------------
(* The ledger and the poller's memory, while the store works.              *)

\* The poller never believes a panel is down without an outage standing for
\* it, and so neither does a list it has processed.
DownInv ==
  /\ OneOpenOutage
  /\ StoreWorks => \A s \in Inverters : WasDown(s) => openRows[s] = 1
  /\ DownIsInLedger

\* Without store faults a visit does to the ledger what its branch says.
LEMMA ReliableVisit ==
  ASSUME StoreWorks, NEW s \in Inverters, VisitInverter(s)
  PROVE  \/ /\ Down(s) /\ WasDown(s)
            /\ UNCHANGED <<last, toSave, openRows, downRows>>
         \/ /\ Down(s) /\ ~WasDown(s) /\ Remember(s)
            /\ openRows' = OpenInverterOutage(openRows, s)
            /\ downRows' = IF openRows' = openRows THEN downRows
                           ELSE [downRows EXCEPT ![s] = 0]
         \/ /\ ~Down(s) /\ WasDown(s) /\ Remember(s)
            /\ openRows' = CloseInverterOutage(openRows, s)
            /\ UNCHANGED downRows
         \/ /\ ~Down(s) /\ ~WasDown(s) /\ Remember(s)
            /\ UNCHANGED <<openRows, downRows>>
BY DEF VisitInverter, VisitSustained, VisitGoesDown, VisitRecovers, VisitHealthy,
       StoreOutcomes, StoreWorks

\* What every visit leaves alone, and what it records.
LEMMA VisitFrame ==
  ASSUME NEW s \in Inverters, VisitInverter(s)
  PROVE  /\ s \in todo /\ pc = "apply"
         /\ UNCHANGED <<pc, starting, batch, latest, telemetry, rigid>>
         /\ todo' = todo \ {s}
         /\ seen' = [seen EXCEPT ![s] = EffectiveState(batch[s])]
BY DEF VisitInverter, VisitSustained, VisitGoesDown, VisitRecovers, VisitHealthy, Visit

LEMMA DownStep ==
  ASSUME Inv, DownInv, [Next]_vars
  PROVE  DownInv'
<1> SUFFICES ASSUME StoreWorks PROVE DownInv'
  BY OneOpenStep, RigidStep DEF DownInv, DownIsInLedger, StoreWorks, rigid
<1> USE DEF WasDown, notReporting
<1>1. OneOpenOutage'
  BY OneOpenStep DEF DownInv
<1>2. ASSUME NEW s \in Inverters, VisitInverter(s)
      PROVE  DownInv'
  <2>1. \A t \in Inverters \ {s} : /\ openRows'[t] = openRows[t]
                                   /\ last'[t] = last[t]
                                   /\ seen'[t] = seen[t]
    BY <1>2, ReliableVisit, VisitFrame
       DEF Inv, TypeOK, Remember, OpenInverterOutage, CloseInverterOutage
  <2>2. seen'[s] = EffectiveState(batch[s])
    BY <1>2, VisitFrame DEF Inv, TypeOK
  <2>3. openRows[s] \in {0, 1}
    BY DEF DownInv, OneOpenOutage, Inv, TypeOK
  <2>4. (notReporting(last'[s]) => openRows'[s] = 1)
        /\ (notReporting(seen'[s]) => openRows'[s] = 1)
    BY <1>2, <2>2, <2>3, ReliableVisit
       DEF Inv, TypeOK, DownInv, DownIsInLedger, Down, Remember,
           OpenInverterOutage, CloseInverterOutage
  <2>5. QED
    BY <1>1, <2>1, <2>4 DEF DownInv, DownIsInLedger
<1>3. CASE seedFromStore
  BY <1>1, <1>3 DEF seedFromStore, SeedState, DownInv, DownIsInLedger,
                    OneOpenOutage, store, history, Inv, TypeOK
<1>4. CASE Start \/ Stop
  BY <1>1, <1>4 DEF Start, Stop, DownInv, DownIsInLedger, store, history
<1>5. CASE UNCHANGED <<last, openRows, seen>>
  BY <1>1, <1>5 DEF DownInv, DownIsInLedger
<1>6. CASE EnableTelemetryOK \/ EnableTelemetryFail \/ EnableTelemetryAuth \/ Fetch
  BY <1>5, <1>6 DEF EnableTelemetryOK, EnableTelemetryFail, EnableTelemetryAuth,
                    Fetch, FetchOK, Fetched, FetchFail, FetchAuth, store, history
<1>7. CASE SaveOK \/ SaveFail \/ Tick \/ Reboot \/ UNCHANGED vars
  BY <1>5, <1>7 DEF SaveOK, SaveFail, Tick, Reboot, process, store, history, vars
<1>8. QED
  BY <1>2, <1>3, <1>4, <1>6, <1>7 DEF Next, PollerStep

LEMMA DownInit == Init => DownInv
<1> SUFFICES ASSUME Init PROVE DownInv
  OBVIOUS
<1>1. PICK down \in SUBSET known :
        /\ openRows = [s \in Inverters |-> IF s \in down THEN 1 ELSE 0]
        /\ seen = [s \in Inverters |-> IF s \in down THEN "error" ELSE "none"]
  BY DEF Init
<1>2. last = [s \in Inverters |-> "none"]
  BY DEF Init
<1>3. QED
  BY <1>1, <1>2 DEF DownInv, OneOpenOutage, DownIsInLedger, WasDown, notReporting

LEMMA DownHolds == Spec => []DownInv
<1>1. Inv /\ DownInv /\ [Next]_vars => DownInv'
  BY DownStep
<1>2. QED
  BY <1>1, DownInit, InvHolds, PTL DEF Spec

\* While the store works, every panel last seen down has an open outage,
\* through failed saves and restarts (poll, seedFromStore).
THEOREM DownPanelsAreInLedger == Spec => []DownIsInLedger
<1>1. DownInv => DownIsInLedger
  BY DEF DownInv
<1>2. QED
  BY <1>1, DownHolds, PTL

-----------------------------------------------------------------------------
(* The ledger follows the reports, when every panel was known before.      *)

\* Every panel has a reading, so a restart seeds every open outage, and from
\* then on an open outage is one the poller knows of.
FollowInv ==
  /\ DownInv
  /\ Dependable =>
       /\ \A s \in Inverters : latest[s] # "none"
       /\ pc \notin {"stopped", "seed"} =>
            \A s \in Inverters : openRows[s] = 1 => WasDown(s)
  /\ LedgerFollowsReports

LEMMA FollowInit == Init => FollowInv
<1> SUFFICES ASSUME Init PROVE FollowInv
  OBVIOUS
<1>1. PICK down \in SUBSET known :
        /\ openRows = [s \in Inverters |-> IF s \in down THEN 1 ELSE 0]
        /\ seen = [s \in Inverters |-> IF s \in down THEN "error" ELSE "none"]
  BY DEF Init
<1>2. Dependable => \A s \in Inverters : latest[s] # "none"
  BY DEF Init, Dependable
<1>3. LedgerFollowsReports
  BY <1>1 DEF LedgerFollowsReports, notReporting
<1>4. pc = "stopped"
  BY DEF Init
<1>5. QED
  BY <1>2, <1>3, <1>4, DownInit DEF FollowInv

\* What a visit of s does to s: the ledger and the memory take the class of
\* the report; the other panels are untouched.
LEMMA FollowVisit ==
  ASSUME Dependable, Inv, FollowInv,
         NEW s \in Inverters, VisitInverter(s)
  PROVE  /\ seen'[s] = EffectiveState(batch[s])
         /\ openRows'[s] = IF Down(s) THEN 1 ELSE 0
         /\ openRows'[s] = 1 => WasDown(s)'
         /\ \A t \in Inverters \ {s} : /\ openRows'[t] = openRows[t]
                                       /\ last'[t] = last[t]
                                       /\ seen'[t] = seen[t]
<1> USE DEF WasDown, notReporting
<1>0. StoreWorks
  BY DEF Dependable
<1>1. \A t \in Inverters \ {s} : /\ openRows'[t] = openRows[t]
                                 /\ last'[t] = last[t]
                                 /\ seen'[t] = seen[t]
  BY <1>0, ReliableVisit, VisitFrame
     DEF Inv, TypeOK, Remember, OpenInverterOutage, CloseInverterOutage
<1>2. seen'[s] = EffectiveState(batch[s])
  BY VisitFrame DEF Inv, TypeOK
<1>3. openRows[s] \in {0, 1} /\ (openRows[s] = 1 <=> WasDown(s))
  <2>1. pc = "apply"
    BY VisitFrame
  <2>2. openRows[s] = 1 => WasDown(s)
    BY <2>1 DEF FollowInv
  <2>3. WasDown(s) => openRows[s] = 1
    BY <1>0, <2>1 DEF FollowInv, DownInv
  <2>4. openRows[s] \in {0, 1}
    BY DEF FollowInv, DownInv, OneOpenOutage, Inv, TypeOK
  <2>5. QED
    BY <2>2, <2>3, <2>4
<1>4. /\ openRows'[s] = IF Down(s) THEN 1 ELSE 0
      /\ openRows'[s] = 1 => notReporting(last'[s])
  BY <1>0, <1>3, ReliableVisit
     DEF Inv, TypeOK, Down, Remember, OpenInverterOutage, CloseInverterOutage
<1>5. QED
  BY <1>1, <1>2, <1>4

LEMMA FollowStep ==
  ASSUME Inv, FollowInv, [Next]_vars
  PROVE  FollowInv'
<1>1. DownInv'
  BY DownStep DEF FollowInv
<1> SUFFICES ASSUME Dependable PROVE FollowInv'
  BY <1>1, RigidStep DEF FollowInv, LedgerFollowsReports, Dependable, StoreWorks, rigid
<1> USE DEF Dependable
<1>2. ASSUME NEW s \in Inverters, VisitInverter(s)
      PROVE  FollowInv'
  <2>1. \A t \in Inverters : latest'[t] # "none"
    BY <1>2, VisitFrame DEF FollowInv
  <2>2. \A t \in Inverters : openRows'[t] = 1 => WasDown(t)'
    BY <1>2, FollowVisit, VisitFrame DEF FollowInv, WasDown
  <2>3. LedgerFollowsReports'
    BY <1>2, FollowVisit DEF FollowInv, LedgerFollowsReports, Down
  <2>4. QED
    BY <1>1, <2>1, <2>2, <2>3 DEF FollowInv
<1>3. CASE seedFromStore
  BY <1>1, <1>3 DEF seedFromStore, SeedState, StoreOutcomes, StoreWorks, FollowInv,
                    LedgerFollowsReports, WasDown, notReporting, store, history
<1>4. CASE Start \/ Stop
  BY <1>1, <1>4 DEF Start, Stop, FollowInv, LedgerFollowsReports, store, history
<1>5. CASE SaveOK
  <2>1. \A s \in toSave : EffectiveState(batch[s]) # "none"
    BY BatchRecord DEF Inv, TypeOK, BatchInv, States
  <2>2. \A s \in Inverters : latest'[s] # "none"
    BY <1>5, <2>1 DEF SaveOK, FollowInv
  <2>3. QED
    BY <1>1, <1>5, <2>2 DEF SaveOK, FollowInv, LedgerFollowsReports, WasDown
<1>6. CASE /\ UNCHANGED <<last, openRows, seen, latest>>
           /\ pc' \notin {"stopped", "seed"} => pc \notin {"stopped", "seed"}
  BY <1>1, <1>6 DEF FollowInv, LedgerFollowsReports, WasDown
<1>7. CASE EnableTelemetryOK \/ EnableTelemetryFail \/ EnableTelemetryAuth \/ Fetch
  BY <1>6, <1>7 DEF EnableTelemetryOK, EnableTelemetryFail, EnableTelemetryAuth,
                    Fetch, FetchOK, Fetched, FetchFail, FetchAuth, store, history
<1>8. CASE SaveFail \/ Tick \/ Reboot \/ UNCHANGED vars
  BY <1>6, <1>8 DEF SaveFail, Tick, Reboot, process, store, history, vars
<1>9. QED
  BY <1>2, <1>3, <1>4, <1>5, <1>7, <1>8 DEF Next, PollerStep

LEMMA FollowHolds == Spec => []FollowInv
<1>1. Inv /\ FollowInv /\ [Next]_vars => FollowInv'
  BY FollowStep
<1>2. QED
  BY <1>1, FollowInit, InvHolds, PTL DEF Spec

\* While the store works and every panel had a reading before, the open
\* outages are exactly the panels last seen down, through any number of
\* restarts at any point of the loop.
THEOREM LedgerIsExact == Spec => []LedgerFollowsReports
<1>1. FollowInv => LedgerFollowsReports
  BY DEF FollowInv
<1>2. QED
  BY <1>1, FollowHolds, PTL

-----------------------------------------------------------------------------
(* The refinement.                                                         *)

\* The refinement mapping.
Out  == {s \in Inverters : Dependable /\ openRows[s] > 0}
Mute == {s \in Inverters : Dependable /\ notReporting(seen[s])}

LEMMA LedgerInit == Init => Ledger!Init
<1> SUFFICES ASSUME Init PROVE Ledger!Init
  OBVIOUS
<1>1. PICK down \in SUBSET known :
        /\ openRows = [s \in Inverters |-> IF s \in down THEN 1 ELSE 0]
        /\ seen = [s \in Inverters |-> IF s \in down THEN "error" ELSE "none"]
  BY DEF Init
<1>2. CASE ~Dependable
  BY <1>2 DEF Ledger!Init
<1>3. CASE Dependable
  <2>1. \A s \in Inverters : openRows[s] = IF s \in down THEN 1 ELSE 0
    BY <1>1
  <2>2. ASSUME NEW s \in Inverters PROVE openRows[s] > 0 <=> s \in down
    <3>1. \/ s \in down /\ openRows[s] = 1
          \/ s \notin down /\ openRows[s] = 0
      BY <2>1
    <3>2. QED
      BY <3>1
  <2>3. Out = {s \in Inverters : s \in down}
    BY <1>3, <2>2 DEF Out
  <2>4. Mute = {s \in Inverters : s \in down}
    BY <1>1, <1>3 DEF Mute, notReporting
  <2>5. QED
    BY <2>3, <2>4 DEF Ledger!Init, Out, Mute
<1>4. QED
  BY <1>2, <1>3

\* A visit is a report of the panel; no other step touches the ledger or what
\* was last seen.
LEMMA LedgerStep ==
  ASSUME Inv, FollowInv, [Next]_vars
  PROVE  Ledger!Next \/ UNCHANGED <<Out, Mute>>
<1>a. Dependable' <=> Dependable
  BY RigidStep DEF Dependable, StoreWorks, rigid
<1>b. CASE ~Dependable
  BY <1>a, <1>b DEF Out, Mute
<1> SUFFICES ASSUME Dependable PROVE Ledger!Next \/ UNCHANGED <<Out, Mute>>
  BY <1>b
<1>1. CASE UNCHANGED <<openRows, seen>>
  BY <1>a, <1>1 DEF Out, Mute
<1>2. ASSUME NEW s \in Inverters, VisitInverter(s)
      PROVE  Ledger!Next
  <2>1. \A t \in Inverters \ {s} : openRows'[t] = openRows[t] /\ seen'[t] = seen[t]
    BY <1>2, FollowVisit
  <2>2. /\ openRows'[s] = IF Down(s) THEN 1 ELSE 0
        /\ notReporting(seen'[s]) <=> Down(s)
    BY <1>2, FollowVisit DEF Down
  <2>3. CASE Down(s)
    <3>1. Out' = Out \cup {s} /\ Mute' = Mute \cup {s}
      BY <1>a, <2>1, <2>2, <2>3 DEF Out, Mute
    <3>2. QED
      BY <3>1 DEF Ledger!Next, Ledger!ReportDown, Out, Mute
  <2>4. CASE ~Down(s)
    <3>1. Out' = Out \ {s} /\ Mute' = Mute \ {s}
      BY <1>a, <2>1, <2>2, <2>4 DEF Out, Mute
    <3>2. QED
      BY <3>1 DEF Ledger!Next, Ledger!ReportUp, Out, Mute
  <2>5. QED
    BY <2>3, <2>4
<1>3. CASE Start \/ seedFromStore \/ SaveOK \/ SaveFail \/ Tick
  BY <1>1, <1>3 DEF Start, seedFromStore, SaveOK, SaveFail, Tick, store, history
<1>4. CASE EnableTelemetryOK \/ EnableTelemetryFail \/ EnableTelemetryAuth \/ Fetch
  BY <1>1, <1>4 DEF EnableTelemetryOK, EnableTelemetryFail, EnableTelemetryAuth,
                    Fetch, FetchOK, Fetched, FetchFail, FetchAuth, store, history
<1>5. CASE Stop \/ Reboot \/ UNCHANGED vars
  BY <1>1, <1>5 DEF Stop, Reboot, store, history, vars
<1>6. QED
  BY <1>2, <1>3, <1>4, <1>5 DEF Next, PollerStep

\* The outage table is the ledger of InverterLedger: to its readers the
\* poller's process structure, restarts and failures do not exist.
THEOREM PollerImplementsLedger == Spec => ImplementsLedger
<1>1. Inv /\ FollowInv /\ [Next]_vars =>
        [Ledger!Next]_(<<{s \in Inverters : Dependable /\ openRows[s] > 0},
                         {s \in Inverters : Dependable /\ notReporting(seen[s])}>>)
  BY LedgerStep DEF Out, Mute
<1>2. QED
  BY <1>1, LedgerInit, InvHolds, FollowHolds, PTL DEF Spec, ImplementsLedger, Ledger!Spec

-----------------------------------------------------------------------------
(* At most one not-reporting row per outage, while the store works.        *)

RowInv ==
  StoreWorks => \A s \in Inverters :
    /\ downRows[s] <= 1
    /\ latest[s] = "none" => downRows[s] = 0
    /\ s \in toSave /\ Down(s) => downRows[s] = 0
    /\ pc \notin {"stopped", "seed"} /\ openRows[s] = 1 /\ ~WasDown(s) => downRows[s] = 0

LEMMA RowStep ==
  ASSUME Inv, DownInv, RowInv, [Next]_vars
  PROVE  RowInv'
<1> SUFFICES ASSUME StoreWorks PROVE RowInv'
  BY RigidStep DEF RowInv, StoreWorks, rigid
<1> USE DEF WasDown
<1>1. ASSUME NEW s \in Inverters, VisitInverter(s)
      PROVE  RowInv'
  <2>1. \A t \in Inverters \ {s} :
          /\ openRows'[t] = openRows[t] /\ last'[t] = last[t]
          /\ downRows'[t] = downRows[t] /\ (t \in toSave' <=> t \in toSave)
    BY <1>1, ReliableVisit, VisitFrame
       DEF Inv, TypeOK, Remember, OpenInverterOutage, CloseInverterOutage
  <2>2. UNCHANGED <<pc, batch, latest>> /\ pc = "apply" /\ s \notin toSave
    BY <1>1, VisitFrame DEF Inv, BatchInv
  <2>3. openRows[s] \in {0, 1} /\ (WasDown(s) => openRows[s] = 1)
    BY DEF DownInv, OneOpenOutage, Inv, TypeOK
  <2>4. downRows[s] \in 0 .. 1
    BY DEF RowInv, Inv, TypeOK
  <2>5. \/ downRows'[s] = downRows[s]
        \/ downRows'[s] = 0
    BY <1>1, ReliableVisit DEF Inv, TypeOK
  <2>6. s \in toSave' /\ Down(s) => downRows'[s] = 0
    BY <1>1, <2>2, <2>3, ReliableVisit
       DEF Inv, TypeOK, RowInv, OpenInverterOutage
  <2>7. openRows'[s] = 1 /\ ~notReporting(last'[s]) => downRows'[s] = 0
    BY <1>1, <2>2, <2>3, ReliableVisit
       DEF Inv, TypeOK, RowInv, Remember, Down, CloseInverterOutage
  <2>8. Down(s)' <=> Down(s)
    BY <2>2 DEF Down
  <2>9. \A t \in Inverters : Down(t)' <=> Down(t)
    BY <2>2 DEF Down
  <2>10. QED
    BY <2>1, <2>2, <2>4, <2>5, <2>6, <2>7, <2>9 DEF RowInv
<1>2. CASE SaveOK
  <2>1. ASSUME NEW s \in Inverters
        PROVE  /\ downRows'[s] <= 1
               /\ latest'[s] = "none" => downRows'[s] = 0
               /\ openRows'[s] = 1 /\ ~WasDown(s)' => downRows'[s] = 0
    <3>1. openRows'[s] = openRows[s] /\ (WasDown(s)' <=> WasDown(s)) /\ pc = "apply"
      BY <1>2 DEF SaveOK
    <3>2. CASE s \in toSave
      <4>1. last[s] = EffectiveState(batch[s]) /\ EffectiveState(batch[s]) # "none"
        BY <3>2, BatchRecord DEF Inv, BatchInv, States
      <4>2. latest'[s] # "none"
        BY <1>2, <3>2, <4>1 DEF SaveOK
      <4>3. downRows'[s] = CountDown(downRows[s], EffectiveState(batch[s]))
        BY <1>2, <3>2 DEF SaveOK
      <4>4. downRows[s] \in 0 .. 1
        BY DEF RowInv, Inv, TypeOK
      <4>5. CASE Down(s)
        BY <3>1, <3>2, <4>1, <4>2, <4>3, <4>5 DEF RowInv, CountDown, Down
      <4>6. CASE ~Down(s)
        BY <3>1, <3>2, <4>1, <4>2, <4>3, <4>4, <4>6 DEF RowInv, CountDown, Down
      <4>7. QED
        BY <4>5, <4>6
    <3>3. CASE s \notin toSave
      BY <1>2, <3>1, <3>3 DEF SaveOK, RowInv
    <3>4. QED
      BY <3>2, <3>3
  <2>2. toSave' = {}
    BY <1>2 DEF SaveOK
  <2>3. QED
    BY <2>1, <2>2 DEF RowInv
<1>3. CASE seedFromStore
  <2>1. toSave = {} /\ toSave' = {} /\ last' = SeedState(openRows, latest)
        /\ UNCHANGED <<openRows, latest, downRows>>
    BY <1>3 DEF seedFromStore, StoreOutcomes, StoreWorks, Inv, BatchInv, store, history
  <2>2. \A s \in Inverters : openRows[s] = 1 /\ ~notReporting(last'[s]) => latest[s] = "none"
    BY <2>1 DEF SeedState, notReporting
  <2>3. QED
    BY <2>1, <2>2 DEF RowInv
<1>4. CASE Start \/ Stop
  <2>1. toSave' = {} /\ pc' \in {"stopped", "seed"} /\ UNCHANGED <<latest, downRows>>
    BY <1>4 DEF Start, Stop, Inv, BatchInv, store, history
  <2>2. QED
    BY <2>1 DEF RowInv
<1>5. CASE /\ UNCHANGED <<last, openRows, latest, downRows>>
           /\ toSave' = {} \/ UNCHANGED <<batch, toSave>>
           /\ pc' \notin {"stopped", "seed"} => pc \notin {"stopped", "seed"}
  BY <1>5 DEF RowInv, Down
<1>6. CASE EnableTelemetryOK \/ EnableTelemetryFail \/ EnableTelemetryAuth \/ Fetch
  BY <1>5, <1>6 DEF EnableTelemetryOK, EnableTelemetryFail, EnableTelemetryAuth,
                    Fetch, FetchOK, Fetched, FetchFail, FetchAuth, store, history
<1>7. CASE SaveFail \/ Tick \/ Reboot \/ UNCHANGED vars
  BY <1>5, <1>7 DEF SaveFail, Tick, Reboot, process, store, history, vars
<1>8. QED
  BY <1>1, <1>2, <1>3, <1>4, <1>6, <1>7 DEF Next, PollerStep

\* While the store works, no restart or lost batch makes the poller write a
\* second not-reporting reading into the same outage (poll).
THEOREM OneDownRow == Spec => []OneDownRowPerOutage
<1>1. ASSUME Init
      PROVE  RowInv
  <2>1. pc = "stopped" /\ toSave = {} /\ downRows = [s \in Inverters |-> 0]
    BY <1>1 DEF Init
  <2>2. \A s \in Inverters : downRows[s] = 0
    BY <2>1
  <2>3. ASSUME NEW s \in Inverters
        PROVE  downRows[s] <= 1
    <3>1. downRows[s] = 0
      BY <2>2
    <3>2. QED
      BY <3>1
  <2>4. QED
    BY <2>2, <2>3 DEF RowInv
<1>2. Inv /\ DownInv /\ RowInv /\ [Next]_vars => RowInv'
  BY RowStep
<1>3. RowInv => OneDownRowPerOutage
  BY DEF RowInv, OneDownRowPerOutage
<1>4. QED
  BY <1>1, <1>2, <1>3, InvHolds, DownHolds, PTL DEF Spec

-----------------------------------------------------------------------------
(* Suppressed panels stay visible.                                         *)

\* A list holds unparseable records only where they may occur.
ParseInv == "garbled" \notin faults => AllParse(batch, Inverters)

LEMMA ParseHolds == Spec => []ParseInv
<1>1. AllParse(NoList, Inverters)
  BY DEF AllParse, NoList, Absent
<1>2. Init => ParseInv
  BY <1>1 DEF Init, ParseInv
<1>3. ASSUME ParseInv, [Next]_vars
      PROVE  ParseInv'
  <2>1. faults' = faults
    BY <1>3, RigidStep DEF rigid
  <2>2. CASE batch' = batch \/ batch' = NoList
    BY <1>1, <1>3, <2>1, <2>2 DEF ParseInv, AllParse
  <2>3. CASE FetchOK
    BY <2>1, <2>3 DEF FetchOK, Fetched, ParseInv, AllParse
  <2>4. ASSUME NEW s \in Inverters, VisitInverter(s) PROVE ParseInv'
    BY <2>2, <2>4, VisitFrame
  <2>5. CASE Start \/ seedFromStore \/ SaveOK \/ SaveFail \/ Tick \/ Stop
    BY <2>2, <2>5 DEF Start, seedFromStore, SaveOK, SaveFail, Tick, Stop
  <2>6. CASE EnableTelemetryOK \/ EnableTelemetryFail \/ EnableTelemetryAuth
    BY <2>2, <2>6 DEF EnableTelemetryOK, EnableTelemetryFail, EnableTelemetryAuth
  <2>7. CASE FetchFail \/ FetchAuth \/ Reboot \/ UNCHANGED vars
    BY <2>2, <2>7 DEF FetchFail, FetchAuth, Reboot, process, vars
  <2>8. QED
    BY <1>3, <2>3, <2>4, <2>5, <2>6, <2>7 DEF Next, PollerStep, Fetch
<1>4. QED
  BY <1>2, <1>3, PTL DEF Spec

\* Without store faults and unparseable records, a panel whose readings are
\* suppressed has one, or is about to (poll, seedFromStore).
THEOREM SuppressedPanelsAreVisible == Spec => []SuppressedIsVisible
<1> USE DEF WasDown, notReporting
<1>1. Init => SuppressedIsVisible
  BY DEF Init, SuppressedIsVisible
<1>2. ASSUME Inv, ParseInv, SuppressedIsVisible, [Next]_vars
      PROVE  SuppressedIsVisible'
  <2> SUFFICES ASSUME StoreWorks, "garbled" \notin faults PROVE SuppressedIsVisible'
    BY <1>2, RigidStep DEF SuppressedIsVisible, StoreWorks, rigid
  <2>1. AllParse(batch, toSave)
    BY <1>2 DEF AllParse, ParseInv, Inv, TypeOK
  <2>2. ASSUME NEW s \in Inverters, VisitInverter(s)
        PROVE  SuppressedIsVisible'
    BY <1>2, <2>2, ReliableVisit, VisitFrame
       DEF SuppressedIsVisible, Inv, TypeOK, Remember
  <2>3. CASE SaveOK
    <3>1. \A s \in toSave : EffectiveState(batch[s]) # "none"
      BY <1>2, BatchRecord DEF Inv, TypeOK, BatchInv, States
    <3>2. QED
      BY <1>2, <2>3, <3>1 DEF SaveOK, SuppressedIsVisible
  <2>4. CASE seedFromStore
    BY <1>2, <2>4 DEF seedFromStore, SeedState, StoreOutcomes, StoreWorks,
                      SuppressedIsVisible, store, history
  <2>5. CASE Start \/ Stop
    BY <1>2, <2>5 DEF Start, Stop, SuppressedIsVisible
  <2>6. CASE UNCHANGED <<last, latest>> /\ toSave \subseteq toSave'
    BY <1>2, <2>6 DEF SuppressedIsVisible
  <2>7. CASE EnableTelemetryOK \/ EnableTelemetryFail \/ EnableTelemetryAuth \/ Fetch
    BY <1>2, <2>6, <2>7 DEF EnableTelemetryOK, EnableTelemetryFail,
         EnableTelemetryAuth, Fetch, FetchOK, Fetched, FetchFail, FetchAuth, store, history,
         Inv, BatchInv
  <2>8. CASE SaveFail \/ Tick \/ Reboot \/ UNCHANGED vars
    BY <2>1, <2>6, <2>8 DEF SaveFail, Tick, Reboot, process, store, history, vars,
                            StoreWorks
  <2>9. QED
    BY <1>2, <2>2, <2>3, <2>4, <2>5, <2>7, <2>8 DEF Next, PollerStep
<1>3. QED
  BY <1>1, <1>2, InvHolds, ParseHolds, PTL DEF Spec
=============================================================================
