--------------------------- MODULE InverterLedger ---------------------------
(***************************************************************************)
(* What the outage table promises its readers: one report of a panel after *)
(* another, and a panel is in an outage exactly while its last report says *)
(* it delivers no data.  There are no processes, restarts, device lists or *)
(* transactions here; DevicePoller is shown to implement this.             *)
(***************************************************************************)
CONSTANT Inverters

VARIABLES
  out,   \* the panels with an open outage
  mute   \* the panels whose last report delivered no data

Init == mute \subseteq Inverters /\ out = mute

\* The panel reports no data: its outage opens, or goes on.
ReportDown(s) ==
  /\ mute' = mute \cup {s}
  /\ out' = out \cup {s}

\* The panel delivers data: its outage, if it has one, is over.
ReportUp(s) ==
  /\ mute' = mute \ {s}
  /\ out' = out \ {s}

Next == \E s \in Inverters : ReportDown(s) \/ ReportUp(s)

Spec == Init /\ [][Next]_<<out, mute>>
=============================================================================
