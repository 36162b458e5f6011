----------------------------- MODULE MCSettings -----------------------------
(***************************************************************************)
(* Instances of Settings.  The config file gives "mine" to every key and   *)
(* clients set "theirs", so that a value tells who wrote it.               *)
(***************************************************************************)
EXTENDS Settings

CONSTANTS addr, interval, password, zone, mine, theirs, rejected, c1

AllMine == [k \in Keys |-> mine]

\* As the package installs it, as its user corrects it, and broken.
ConfigFiles == { [AllMine EXCEPT ![addr] = Example], AllMine, Broken }

\* One key; several at once, with the mask and with a bad duration; a good
\* duration; and one with a name that is no setting.
Patches ==
  { [k \in {addr} |-> theirs],
    [k \in {interval, password} |-> IF k = password THEN Mask ELSE theirs],
    [k \in {interval, zone} |-> IF k = interval THEN Malformed ELSE theirs],
    [k \in {zone, NoKey} |-> rejected] }

NoPatches == {}

\* A release later: the table is there, and a client sets the new key.
UpgradePatches == { [k \in {zone} |-> theirs] }
UpgradeSpec    == Init /\ table # NoConfig /\ [][Next]_vars
=============================================================================
