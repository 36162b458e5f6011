---------------------------- MODULE DevicePoller ----------------------------
(***************************************************************************)
(* The device poller of pvs-monitor (pvs/device_poller.go) with the two    *)
(* store tables it keeps, inverter_outages and inverter_readings.          *)
(*                                                                         *)
(* Once per interval the poller re-enables the PVS6 telemetry stream,      *)
(* fetches the device list, walks over it opening and closing outages, and *)
(* saves the records that are not suppressed.  Each store call is a        *)
(* transaction of its own, so the process can stop between any two of them *)
(* and is then started again by systemd with an empty memory.              *)
(*                                                                         *)
(* Simplifications: the ticker, the HTTP exchanges and the 15 s client     *)
(* timeout appear as the outcomes "ok", "auth" and "fail"; devices that    *)
(* are not inverters are always saved and never looked at again, and are   *)
(* left out; a saved inverter row is remembered only by its state and, for *)
(* the not-reporting ones, by how many there are in the current outage.    *)
(***************************************************************************)
EXTENDS Naturals

CONSTANTS
  Inverters,  \* serials of the inverters of the array
  Cases       \* the settings to look at: [known, faults] records, see below

(***************************************************************************)
(* "stop"    the process crashes, is killed or is asked to exit            *)
(* "store"   a store call returns an error                                 *)
(* "net"     an HTTP exchange fails other than by a 401 or 403             *)
(* "auth"    the PVS6 answers 401 or 403                                   *)
(* "reboot"  the PVS6 restarts and forgets the telemetry setting           *)
(* "garbled" an inverter record holds a number that does not parse         *)
(***************************************************************************)
FaultKinds == {"stop", "store", "net", "auth", "reboot", "garbled"}

\* A case says which inverters have a reading before the first start, and what
\* may go wrong.
ASSUME CasesAssumption ==
  Cases \subseteq [known : SUBSET Inverters, faults : SUBSET FaultKinds]

VARIABLES
  \* volatile state of the process
  pc,         \* where Run is; "stopped" when there is no process
  starting,   \* Run has not reached its ticker loop yet
  last,       \* lastInverterState: the state last acted on, "none" if unset
  batch,      \* the device list being processed
  todo,       \* the inverters of batch the loop has still to visit
  toSave,     \* the inverters of batch to persist
  \* the store
  openRows,   \* inverter_outages rows with healthy_at NULL, by serial
  latest,     \* state of the newest inverter_readings row, "none" if there is none
  \* the PVS6
  telemetry,  \* /sys/telemetryws/enable
  \* not in the code: the case, which never changes, and two histories
  known,      \* the inverters with a reading before the first start
  faults,     \* what may go wrong in this behaviour
  seen,       \* the state of the inverter in the last list that was processed
  downRows    \* not-reporting rows saved since the newest outage was opened

process == <<pc, starting, last, batch, todo, toSave>>
store   == <<openRows, latest>>
rigid   == <<known, faults>>
history == <<seen, downRows, known, faults>>
vars    == <<pc, starting, last, batch, todo, toSave, openRows, latest,
             telemetry, seen, downRows, known, faults>>

-----------------------------------------------------------------------------
(* What the PVS6 reports.                                                  *)

\* An inverter's record: the state it claims, and whether its numbers are
\* genuine, the fabricated all-zero ones, or not numbers at all.
Records == [claim : {"working", "error"}, data : {"live", "zero", "garbled"}]

\* An inverter the list does not mention: the loop, which ranges over the list,
\* does not come to it.
Absent == [claim |-> "absent", data |-> "none"]

DeviceLists == [Inverters -> Records \cup {Absent}]
NoList      == [s \in Inverters |-> Absent]

States      == {"working", "error", "unreachable"}
SavedStates == States \cup {"none"}

\* The state the poller judges an inverter by: an all-zero record is
\* unreachable whatever it claims, one that does not parse keeps its claim.
EffectiveState(r) == IF r.data = "zero" THEN "unreachable" ELSE r.claim

\* The two states in which an inverter delivers no data.
notReporting(state) == state \in {"error", "unreachable"}

-----------------------------------------------------------------------------
(* The store.                                                              *)

\* Mutant: the insert does not look for an open row.
InsertOutage(rows, s) == [rows EXCEPT ![s] = @ + 1]

\* A row is inserted unless the serial has one that is still open.
OpenInverterOutage(rows, s) ==
  IF rows[s] = 0 THEN [rows EXCEPT ![s] = 1] ELSE rows

\* Mutants: the close affects no row; the close does not look for an open one.
KeepOpen(rows, s)    == rows
CloseAnyway(rows, s) == [rows EXCEPT ![s] = @ - 1]

\* The newest open row of the serial, if there is one, is closed.
CloseInverterOutage(rows, s) ==
  IF rows[s] > 0 THEN [rows EXCEPT ![s] = @ - 1] ELSE rows

\* A store call either happens or, in an instance with that fault, returns an
\* error and changes nothing.
StoreOutcomes == IF "store" \in faults THEN {TRUE, FALSE} ELSE {TRUE}

\* SaveDevices parses every inverter of the batch inside its transaction, and
\* one that does not parse rolls all of it back.
AllParse(list, S) == \A s \in S : list[s].data # "garbled"

-----------------------------------------------------------------------------
TypeOK ==
  /\ pc \in {"stopped", "seed", "enable", "fetch", "apply", "idle", "dead"}
  /\ starting \in BOOLEAN
  /\ last \in [Inverters -> SavedStates]
  /\ batch \in DeviceLists
  /\ todo \subseteq Inverters
  /\ toSave \subseteq Inverters
  /\ openRows \in [Inverters -> Nat]
  /\ latest \in [Inverters -> SavedStates]
  /\ telemetry \in BOOLEAN
  /\ seen \in [Inverters -> SavedStates]
  /\ downRows \in [Inverters -> 0 .. 2]
  /\ known \subseteq Inverters
  /\ faults \subseteq FaultKinds

\* The database the first process finds: empty, or one with readings of the
\* known panels in which migration 4 left an open outage for those that were
\* not reporting.
Init ==
  /\ pc = "stopped"
  /\ starting = TRUE
  /\ last = [s \in Inverters |-> "none"]
  /\ batch = NoList
  /\ todo = {}
  /\ toSave = {}
  /\ \E case \in Cases : known = case.known /\ faults = case.faults
  /\ \E down \in SUBSET known :
       /\ openRows = [s \in Inverters |-> IF s \in down THEN 1 ELSE 0]
       /\ seen = [s \in Inverters |-> IF s \in down THEN "error" ELSE "none"]
  /\ latest = [s \in Inverters |-> IF s \notin known THEN "none"
                                 ELSE IF openRows[s] = 1 THEN "error" ELSE "working"]
  /\ telemetry = FALSE
  /\ downRows = [s \in Inverters |-> 0]

-----------------------------------------------------------------------------
(* The process.                                                            *)

\* systemd starts pvs-monitor and main starts the poller.
Start ==
  /\ pc = "stopped"
  /\ pc' = "seed"
  /\ starting' = TRUE
  /\ last' = [s \in Inverters |-> "none"]
  /\ UNCHANGED <<batch, todo, toSave, store, telemetry, history>>

\* Mutants: nothing is seeded; every panel with an open outage is seeded, and
\* every panel with a reading.
SeedNone(rows, rdg) == [s \in Inverters |-> "none"]
SeedAllOpen(rows, rdg) == [s \in Inverters |-> IF rows[s] > 0 THEN "error" ELSE "none"]
SeedAllRead(rows, rdg) == [s \in Inverters |-> IF rdg[s] # "none" THEN "error" ELSE "none"]

\* The seed: the panels with an open outage that already have a reading.
SeedState(rows, rdg) ==
  [s \in Inverters |-> IF rows[s] > 0 /\ rdg[s] # "none" THEN "error" ELSE "none"]

\* Either of the two queries may fail, and then nothing is seeded.
seedFromStore ==
  /\ pc = "seed"
  /\ \E ok \in StoreOutcomes :
       last' = IF ok THEN SeedState(openRows, latest) ELSE last
  /\ pc' = "enable"
  /\ UNCHANGED <<starting, batch, todo, toSave, store, telemetry, history>>

\* The GET was answered with a 200.
EnableTelemetryOK ==
  /\ pc = "enable"
  /\ telemetry' = TRUE
  /\ pc' = "fetch"
  /\ UNCHANGED <<starting, last, batch, todo, toSave, store, history>>

\* The login or the GET failed; if it is the answer that was lost, the PVS6
\* has set the variable all the same.  Only a warning is logged.
EnableTelemetryFail ==
  /\ pc = "enable"
  /\ "net" \in faults
  /\ telemetry' \in {telemetry, TRUE}
  /\ pc' = "fetch"
  /\ UNCHANGED <<starting, last, batch, todo, toSave, store, history>>

\* The login was refused: fatal for the first call, a warning after that.
EnableTelemetryAuth ==
  /\ pc = "enable"
  /\ "auth" \in faults
  /\ pc' = IF starting THEN "dead" ELSE "fetch"
  /\ UNCHANGED <<starting, last, batch, todo, toSave, store, telemetry, history>>

\* This list was fetched and parsed: the loop is about to visit its inverters.
Fetched(list) ==
  /\ pc = "fetch"
  /\ "garbled" \in faults \/ AllParse(list, Inverters)
  /\ batch' = list
  /\ todo' = {s \in Inverters : list[s] # Absent}
  /\ toSave' = {}
  /\ pc' = "apply"
  /\ UNCHANGED <<starting, last, store, telemetry, history>>

FetchOK == \E list \in DeviceLists : Fetched(list)

\* The poll failed before it had a list: logged, and retried at the next tick.
FetchFail ==
  /\ pc = "fetch"
  /\ "net" \in faults
  /\ pc' = "idle"
  /\ UNCHANGED <<starting, last, batch, todo, toSave, store, telemetry, history>>

\* The login or the list was refused: Run returns, on any tick.
FetchAuth ==
  /\ pc = "fetch"
  /\ "auth" \in faults
  /\ pc' = "dead"
  /\ UNCHANGED <<starting, last, batch, todo, toSave, store, telemetry, history>>

Fetch == FetchOK \/ FetchFail \/ FetchAuth

-----------------------------------------------------------------------------
(* The loop of poll over the device list, one inverter at a time.          *)

\* What every branch does: s is visited, and its state is on record.
Visit(s) ==
  /\ pc = "apply"
  /\ s \in todo
  /\ todo' = todo \ {s}
  /\ seen' = [seen EXCEPT ![s] = EffectiveState(batch[s])]
  /\ UNCHANGED <<pc, starting, batch, latest, telemetry, rigid>>

Down(s)    == notReporting(EffectiveState(batch[s]))
WasDown(s) == notReporting(last[s])

\* The branches that act: remember the state, and queue the record.
Remember(s) ==
  /\ last' = [last EXCEPT ![s] = EffectiveState(batch[s])]
  /\ toSave' = toSave \cup {s}

\* Not reporting before and now: nothing is written, the outage goes on.
VisitSustained(s) ==
  /\ Visit(s)
  /\ Down(s) /\ WasDown(s)
  /\ UNCHANGED <<last, toSave, openRows, downRows>>

\* The transition in.  A failure to open the outage is only logged.
VisitGoesDown(s) ==
  /\ Visit(s)
  /\ Down(s) /\ ~WasDown(s)
  /\ Remember(s)
  /\ \E ok \in StoreOutcomes :
       openRows' = IF ok THEN OpenInverterOutage(openRows, s) ELSE openRows
  /\ downRows' = IF openRows' = openRows THEN downRows ELSE [downRows EXCEPT ![s] = 0]

\* The recovery.  A failure to close the outage is only logged.
VisitRecovers(s) ==
  /\ Visit(s)
  /\ ~Down(s) /\ WasDown(s)
  /\ Remember(s)
  /\ \E ok \in StoreOutcomes :
       openRows' = IF ok THEN CloseInverterOutage(openRows, s) ELSE openRows
  /\ UNCHANGED downRows

\* Reporting, as before or for the first time.
VisitHealthy(s) ==
  /\ Visit(s)
  /\ ~Down(s) /\ ~WasDown(s)
  /\ Remember(s)
  /\ UNCHANGED <<openRows, downRows>>

VisitInverter(s) ==
  VisitSustained(s) \/ VisitGoesDown(s) \/ VisitRecovers(s) \/ VisitHealthy(s)

\* The not-reporting rows among those that are saved are counted, up to two.
CountDown(n, state) == IF notReporting(state) /\ n < 2 THEN n + 1 ELSE n

\* The rows of toSave are inserted in one transaction, and the poll is over.
SaveOK ==
  /\ pc = "apply" /\ todo = {}
  /\ AllParse(batch, toSave)
  /\ latest' = [s \in Inverters |->
                  IF s \in toSave THEN EffectiveState(batch[s]) ELSE latest[s]]
  /\ downRows' = [s \in Inverters |->
                    IF s \in toSave THEN CountDown(downRows[s], EffectiveState(batch[s]))
                    ELSE downRows[s]]
  /\ pc' = "idle"
  /\ batch' = NoList /\ toSave' = {}
  /\ UNCHANGED <<starting, last, todo, openRows, telemetry, seen, rigid>>

\* SaveDevices failed: logged, and not tried again.
SaveFail ==
  /\ pc = "apply" /\ todo = {}
  /\ "store" \in faults \/ ~AllParse(batch, toSave)
  /\ pc' = "idle"
  /\ batch' = NoList /\ toSave' = {}
  /\ UNCHANGED <<starting, last, todo, store, telemetry, history>>

\* The ticker fires; every tick enables telemetry first.
Tick ==
  /\ pc = "idle"
  /\ pc' = "enable"
  /\ starting' = FALSE
  /\ UNCHANGED <<last, batch, todo, toSave, store, telemetry, history>>

\* The steps the process takes on its own once systemd has started it.
PollerStep ==
  \/ Start \/ seedFromStore
  \/ EnableTelemetryOK \/ EnableTelemetryFail \/ EnableTelemetryAuth
  \/ Fetch
  \/ \E s \in Inverters : VisitInverter(s)
  \/ SaveOK \/ SaveFail
  \/ Tick

-----------------------------------------------------------------------------
(* The environment.                                                        *)

\* The process ends, wherever it is: what it held in memory is gone.
Stop ==
  /\ "stop" \in faults
  /\ pc # "stopped"
  /\ pc' = "stopped"
  /\ starting' = TRUE
  /\ last' = [s \in Inverters |-> "none"]
  /\ batch' = NoList /\ todo' = {} /\ toSave' = {}
  /\ UNCHANGED <<store, telemetry, history>>

\* The PVS6 restarts with telemetry off.
Reboot ==
  /\ "reboot" \in faults
  /\ telemetry' = FALSE
  /\ UNCHANGED <<process, store, history>>

Next == PollerStep \/ Stop \/ Reboot

Spec == Init /\ [][Next]_vars

-----------------------------------------------------------------------------
(* Safety.                                                                 *)

\* The ledger never holds two open outages of one panel, whatever fails and
\* whenever the process dies: a panel whose outage was left open, by a lost
\* close or a restart that did not seed it, goes down again into the same row
\* (open_outage.sql, and the comment at close_outage.sql's caller).
OneOpenOutage == \A s \in Inverters : openRows[s] <= 1

StoreWorks == "store" \notin faults

\* While the store works, a panel that was not reporting in the last list the
\* poller acted on has an open outage, across error/unreachable flips, lists
\* that fail to save and restarts: its readings are suppressed only because
\* the outage stands for them (poll).
DownIsInLedger ==
  StoreWorks => \A s \in Inverters : notReporting(seen[s]) => openRows[s] = 1

\* While the store works and every panel had a reading before, the open outages
\* are exactly the panels last seen down, through any number of restarts: the
\* outage of a panel that recovered while the daemon was down is closed by the
\* first list that shows it (seedFromStore).
Dependable == StoreWorks /\ known = Inverters

LedgerFollowsReports ==
  Dependable =>
    \A s \in Inverters : openRows[s] = IF notReporting(seen[s]) THEN 1 ELSE 0

\* While the store works, an outage has at most one not-reporting reading: the
\* poller writes the transition in, and no restart in the middle of the night
\* makes it write the same panel again (poll, seedFromStore).
OneDownRowPerOutage == StoreWorks => \A s \in Inverters : downRows[s] <= 1

\* While the store works and every record parses, a panel whose readings are
\* being suppressed has at least one, so the UI still lists it; that is also
\* why a panel with an open outage and no reading is not seeded.  Between the
\* loop and SaveDevices the first reading may still be queued (poll).
SuppressedIsVisible ==
  StoreWorks /\ "garbled" \notin faults =>
    \A s \in Inverters : WasDown(s) => latest[s] # "none" \/ s \in toSave

-----------------------------------------------------------------------------
(* Refinement.                                                             *)

\* The ledger is empty in the behaviours that promise nothing.
Ledger == INSTANCE InverterLedger
            WITH out  <- {s \in Inverters : Dependable /\ openRows[s] > 0},
                 mute <- {s \in Inverters : Dependable /\ notReporting(seen[s])}

\* While the store works and every panel had a reading before, the poller's
\* restarts, lost lists and failed saves are invisible in the outage table:
\* it changes as if every list had been read by one process that never died
\* (poll, seedFromStore, open_outage.sql, close_outage.sql).
ImplementsLedger == Ledger!Spec
=============================================================================
