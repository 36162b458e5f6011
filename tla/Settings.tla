------------------------------ MODULE Settings ------------------------------
(***************************************************************************)
(* Where the settings come from: the config file, the settings table of    *)
(* the database, the start of pvs-monitor that seeds the one from the      *)
(* other and then runs on what the table says (config/settings.go,         *)
(* cmd/pvs-monitor/main.go), and PATCH /api/config of pvs-api, which       *)
(* changes the table under it (cmd/pvs-api/server.go).                     *)
(*                                                                         *)
(* Every SetSetting is a transaction of its own, so a start can die, a     *)
(* store call can fail and a client can write between any two of them.     *)
(* systemd starts the daemon again after any exit but the one with code 2. *)
(*                                                                         *)
(* Simplifications: the flags and PVS_ADDR, which the service does not     *)
(* use, are left out, and so is read_timeout, which has no key.  Of a      *)
(* value only its class matters: ordinary, the example address, a duration *)
(* that does not parse, the mask that stands for the password.             *)
(***************************************************************************)
CONSTANTS
  Keys,       \* configKeys: the settings of this release
  Addr,       \* the key of the PVS6 address
  Password,   \* the key of the device-list password
  Durations,  \* the keys whose value is a duration
  NewKeys,    \* the keys an earlier release did not have
  NoKey,      \* a name that is not a setting
  Values,     \* ordinary values
  Example,    \* the address of the example file, YOUR-PVS6-IP
  Malformed,  \* a duration that does not parse
  Mask,       \* passwordMask
  None,       \* no value, no request
  Broken,     \* a config file that cannot be read or parsed
  Files,      \* the contents the config file may have
  Clients,    \* the concurrent PATCH requests
  Requests    \* the bodies they may have: maps from some names to values

\* What Load makes of a config file over the defaults.
FileSettings ==
  {f \in [Keys -> Values \cup {Example}] : \A k \in Keys \ {Addr} : f[k] # Example}

\* What the table may hold under a key: durations are checked by no writer.
Stored(k) == IF k = Addr THEN Values \cup {Example}
             ELSE IF k \in Durations THEN Values \cup {Malformed}
             ELSE Values

AnyValue == Values \cup {Example, Malformed}

Bodies == UNION {[S -> AnyValue \cup {Mask}] : S \in SUBSET (Keys \cup {NoKey})}

ASSUME KeysAssumption ==
  /\ Addr \in Keys /\ Password \in Keys /\ NewKeys \subseteq Keys
  /\ Durations \subseteq Keys \ {Addr, Password} /\ Addr # Password
  /\ NoKey \notin Keys

ASSUME ValuesAssumption ==
  /\ {Example, Malformed, Mask, None} \cap Values = {}
  /\ Mask # Example /\ Mask # Malformed /\ Malformed # Example
  /\ None \notin {Example, Malformed, Mask}

\* A client sends values of the right class, but for durations, and may send
\* the mask that it was shown for the password.
ASSUME InputAssumption ==
  /\ Files \subseteq FileSettings \cup {Broken} /\ Broken \notin FileSettings
  /\ Requests \subseteq Bodies /\ None \notin Bodies
  /\ \A r \in Requests : \A k \in DOMAIN r \cap Keys :
       r[k] \in Stored(k) \/ (k = Password /\ r[k] = Mask)

VARIABLES
  \* pvs-monitor
  pc,     \* how far run is; "stopped" when systemd is about to start it
  cfg,    \* the Config it has so far
  todo,   \* the keys the seeding loop has still to write
  \* what outlives it
  table,  \* the settings table
  file,   \* the config file
  \* pvs-api
  req,    \* the body of the request being handled, None if there is none
  left,   \* its keys still to be written
  \* not in the code: two histories
  asked,  \* the value a client wrote last, None if none
  raced,  \* the keys it wrote when a seeding had decided to write them, and that
          \* seeding was not stopped before
  fresh   \* the keys written by clients while the daemon runs

monitor == <<pc, cfg, todo>>
api     == <<req, left>>
vars    == <<pc, cfg, todo, table, file, req, left, asked, raced, fresh>>

-----------------------------------------------------------------------------
TypeOK ==
  /\ pc \in {"stopped", "read", "missing", "seed", "running", "unconfigured"}
  /\ cfg \in [Keys -> AnyValue \cup {None}]
  /\ todo \subseteq Keys
  /\ table \in [Keys -> AnyValue \cup {None}]
  /\ \A k \in Keys : {cfg[k], table[k]} \subseteq Stored(k) \cup {None}
  /\ file \in Files
  /\ req \in [Clients -> Requests \cup {None}]
  /\ left \in [Clients -> SUBSET Keys]
  /\ asked \in [Keys -> AnyValue \cup {None}]
  /\ raced \subseteq Keys
  /\ fresh \subseteq Keys

\* What a process knows that has not started.
NoConfig == [k \in Keys |-> None]

\* A new installation, or one that an earlier release has seeded.
Tables ==
  {NoConfig} \cup
  {[k \in Keys |-> IF k \in NewKeys THEN None ELSE f[k]] : f \in Files \ {Broken}}

Init ==
  /\ pc = "stopped"
  /\ cfg = NoConfig
  /\ todo = {}
  /\ table \in Tables
  /\ file \in Files \ {Broken}
  /\ req = [c \in Clients |-> None]
  /\ left = [c \in Clients |-> {}]
  /\ asked = [k \in Keys |-> None]
  /\ raced = {}
  /\ fresh = {}

-----------------------------------------------------------------------------
(* The start of pvs-monitor.                                               *)

\* The config file is loaded; if there is none, what it gives are the defaults.
\* With one that does not parse the process exits with code 1 and is started
\* again: it stays "stopped".
Load ==
  /\ pc = "stopped"
  /\ file # Broken
  /\ cfg' = file
  /\ pc' = "read"
  /\ UNCHANGED <<todo, table, file, api, asked, raced, fresh>>

Empty(tbl) == \A k \in Keys : tbl[k] = None

\* Mutant: every key is written again at every start.
MissingAll(tbl) == Keys

Missing(tbl) == {k \in Keys : tbl[k] = None}

\* Mutant: a table with some of the keys is refused.
RefuseIncomplete ==
  /\ pc = "read"
  /\ IF Empty(table) THEN pc' = "seed" /\ todo' = Keys
     ELSE pc' = (IF Missing(table) = {} THEN "missing" ELSE "stopped") /\ todo' = {}
  /\ UNCHANGED <<cfg, table, file, api, asked, raced, fresh>>

\* Of an empty table all keys are about to be written.
SeedSettingsIfEmpty ==
  /\ pc = "read"
  /\ IF Empty(table) THEN pc' = "seed" /\ todo' = Keys
                     ELSE pc' = "missing" /\ todo' = {}
  /\ UNCHANGED <<cfg, table, file, api, asked, raced, fresh>>

\* Of one that is not empty, those it did not have when it was read.
SeedMissingSettings ==
  /\ pc = "missing"
  /\ pc' = "seed"
  /\ todo' = Missing(table)
  /\ UNCHANGED <<cfg, table, file, api, asked, raced, fresh>>

\* The loop of either, in the order of the map, which is any.
SeedSetting(k) ==
  /\ pc = "seed"
  /\ k \in todo
  /\ table' = [table EXCEPT ![k] = cfg[k]]
  /\ todo' = todo \ {k}
  /\ UNCHANGED <<pc, cfg, file, api, asked, raced, fresh>>

\* Mutant: the file wins over the table.
FileWins(f, tbl) == f

applySettings(f, tbl) == [k \in Keys |-> IF tbl[k] = None THEN f[k] ELSE tbl[k]]

\* The address is still the one of the example file.
IsUnconfigured(settings) == settings[Addr] = Example

Parses(settings) == \A k \in Durations : settings[k] # Malformed

\* LoadWithStore: the file is loaded again and the table laid over it; then the
\* daemon runs, or gives up for good because its address is the example's.  By
\* then it has started its goroutines, which change no setting and end with it.
LoadWithStore ==
  /\ pc = "seed" /\ todo = {}
  /\ file # Broken /\ Parses(table)
  /\ cfg' = applySettings(file, table)
  /\ pc' = IF IsUnconfigured(cfg') THEN "unconfigured" ELSE "running"
  /\ UNCHANGED <<todo, table, file, api, asked, raced, fresh>>

\* A store call fails, the file or a duration does not parse, the process is
\* killed or asked to stop: whatever the exit, systemd or its user starts it
\* again.
Exit ==
  /\ pc \in {"read", "missing", "seed", "running"}
  /\ pc' = "stopped"
  /\ cfg' = NoConfig
  /\ todo' = {}
  /\ raced' = raced \ todo
  /\ fresh' = {}
  /\ UNCHANGED <<table, file, api, asked>>

MonitorStep ==
  \/ Load \/ SeedSettingsIfEmpty \/ SeedMissingSettings
  \/ \E k \in Keys : SeedSetting(k)
  \/ LoadWithStore \/ Exit

-----------------------------------------------------------------------------
(* PATCH /api/config.                                                      *)

\* Mutants: a name that is no setting is only left out; the mask is a value.
SkipUnknown(r) == {k \in DOMAIN r \cap Keys : k # Password \/ r[k] # Mask}
WriteMask(r)   == IF DOMAIN r \subseteq Keys THEN DOMAIN r ELSE {}

\* The keys of a body that will be written: none if one of them is unknown,
\* else all but the password that is still masked.
Writes(r) ==
  {k \in DOMAIN r : DOMAIN r \subseteq Keys /\ (k # Password \/ r[k] # Mask)}

\* A request arrives and its names are checked before anything is written.
handleUpdateConfig(c) ==
  /\ req[c] = None
  /\ \E r \in Requests :
       /\ req' = [req EXCEPT ![c] = r]
       /\ left' = [left EXCEPT ![c] = Writes(r)]
  /\ UNCHANGED <<monitor, table, file, asked, raced, fresh>>

\* The values are upserted one by one, in the order of the map.
SetSetting(c, k) ==
  /\ k \in left[c]
  /\ table' = [table EXCEPT ![k] = req[c][k]]
  /\ left' = [left EXCEPT ![c] = @ \ {k}]
  /\ asked' = [asked EXCEPT ![k] = req[c][k]]
  /\ raced' = IF k \in todo THEN raced \cup {k} ELSE raced \ {k}
  /\ fresh' = IF pc = "running" THEN fresh \cup {k} ELSE fresh
  /\ UNCHANGED <<monitor, file, req>>

\* The request is over: answered in full or with a 400; or a write failed, the
\* client went away or pvs-api was stopped, and the rest is not written.
EndRequest(c) ==
  /\ req[c] # None
  /\ req' = [req EXCEPT ![c] = None]
  /\ left' = [left EXCEPT ![c] = {}]
  /\ UNCHANGED <<monitor, table, file, asked, raced, fresh>>

ApiStep ==
  \E c \in Clients :
    handleUpdateConfig(c) \/ (\E k \in Keys : SetSetting(c, k)) \/ EndRequest(c)

-----------------------------------------------------------------------------
(* The user.                                                               *)

EditFile ==
  /\ file' \in Files \ {file}
  /\ UNCHANGED <<monitor, table, api, asked, raced, fresh>>

\* systemctl restart, which the message of the exit asks for.
Restart ==
  /\ pc = "unconfigured"
  /\ pc' = "stopped"
  /\ cfg' = NoConfig
  /\ UNCHANGED <<todo, table, file, api, asked, raced, fresh>>

Next == MonitorStep \/ ApiStep \/ EditFile \/ Restart

Spec == Init /\ [][Next]_vars

\* systemd starts the daemon whenever it is down, and a store call that is tried
\* at one start after another succeeds at one of them.
Fairness ==
  /\ WF_vars(Load)
  /\ SF_vars(SeedSettingsIfEmpty) /\ SF_vars(SeedMissingSettings)
  /\ \A k \in Keys : SF_vars(SeedSetting(k))
  /\ SF_vars(LoadWithStore)

FairSpec == Spec /\ Fairness

-----------------------------------------------------------------------------
(* Safety.                                                                 *)

\* What a client has set is only ever undone in one way: it fell between a
\* seeding's look at the table and that seeding's own write of the key, and then
\* what the table holds is from a file.  In any other case it stays, whether the
\* next start finds the table half seeded, or is one of a new release, or the
\* config file has changed (SeedSettingsIfEmpty, SeedMissingSettings).
UserValueKept ==
  \A k \in Keys : asked[k] # None =>
    \/ table[k] = asked[k]
    \/ k \in raced /\ \E f \in Files \ {Broken} : table[k] = f[k]

\* The seeding leaves a key that is present untouched, as the comment on
\* SeedMissingSettings says.
PresentKeysUntouched ==
  [][\A k \in Keys : SeedSetting(k) /\ table[k] # None => table'[k] = table[k]]_vars

\* The running daemon was configured from a complete table and by nothing else,
\* however many starts and requests it took to fill: each of its settings is
\* the one that pvs-api shows, unless a client has changed it since
\* (LoadWithStore, applySettings).
RunsOnTable ==
  pc = "running" =>
    \A k \in Keys : table[k] # None /\ (k \in fresh \/ cfg[k] = table[k])

\* Every setting comes from a config file or from a request that was accepted:
\* no part of a rejected one is stored, and neither is the mask
\* (handleUpdateConfig).
SettingsHaveOrigin ==
  \A k \in Keys :
    \/ table[k] = None
    \/ \E f \in Files \ {Broken} : table[k] = f[k]
    \/ \E r \in Requests :
         DOMAIN r \subseteq Keys /\ k \in DOMAIN r /\ r[k] # Mask /\ table[k] = r[k]

\* The daemon gives up as unconfigured only if the config file it has just read
\* holds the example address: editing the file and starting the daemon again is
\* the remedy its message names.
UnconfiguredIsTheFile ==
  [][pc' = "unconfigured" /\ pc # "unconfigured" => file[Addr] = Example]_vars

-----------------------------------------------------------------------------
(* Liveness.                                                               *)

\* Nothing is in the way of a start: the file parses, so do the durations of
\* the table, and there is an address.
Startable ==
  /\ pc # "unconfigured"
  /\ file # Broken
  /\ Parses(table)
  /\ ~IsUnconfigured(applySettings(file, table))

\* Whatever fails during its starts and however often, the daemon comes up again
\* and again while nothing is in the way; a malformed duration that a client has
\* stored is in the way until a client stores a good one.
ComesUp == []<>(pc = "running" \/ ~Startable)
=============================================================================
