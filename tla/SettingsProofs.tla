--------------------------- MODULE SettingsProofs ---------------------------
(***************************************************************************)
(* The safety of the settings, for every set of keys, files, clients and   *)
(* requests: however many requests are handled at once and wherever a      *)
(* start or a request is cut short.                                        *)
(***************************************************************************)
EXTENDS Settings, TLAPS

-----------------------------------------------------------------------------
(* Facts about the constants.                                              *)

\* No setting is stored as no value or as the mask.
LEMMA StoredIsValue ==
  ASSUME NEW k \in Keys
  PROVE  Stored(k) \subseteq AnyValue /\ None \notin Stored(k) /\ Mask \notin Stored(k)
  BY ValuesAssumption, KeysAssumption DEF Stored, AnyValue

\* What a config file gives can be stored.
LEMMA FileIsStored ==
  ASSUME NEW f \in Files \ {Broken}
  PROVE  /\ f \in [Keys -> AnyValue]
         /\ \A k \in Keys : f[k] \in Stored(k) /\ f[k] # None
<1>1. f \in FileSettings
  BY InputAssumption
<1>2. f \in [Keys -> AnyValue]
  BY <1>1 DEF FileSettings, AnyValue
<1>3. \A k \in Keys : f[k] \in Stored(k)
  BY <1>1, KeysAssumption DEF FileSettings, Stored
<1> QED
  BY <1>2, <1>3, StoredIsValue

\* What a request writes are settings with values that can be stored.
LEMMA WritesAreStored ==
  ASSUME NEW r \in Requests
  PROVE  /\ r # None /\ Writes(r) \subseteq Keys
         /\ \A k \in Writes(r) : /\ r[k] \in Stored(k)
                                 /\ r[k] \notin {None, Mask}
                                 /\ DOMAIN r \subseteq Keys /\ k \in DOMAIN r
<1>1. r \in Bodies /\ r # None
  BY InputAssumption
<1>2. \A k \in Writes(r) : k \in Keys /\ k \in DOMAIN r /\ DOMAIN r \subseteq Keys
  BY DEF Writes
<1>3. \A k \in Writes(r) : r[k] \in Stored(k)
  BY <1>2, InputAssumption DEF Writes
<1> QED
  BY <1>1, <1>2, <1>3, StoredIsValue

-----------------------------------------------------------------------------
(* The inductive invariant.                                                *)

\* A process that has loaded the file knows a value for every key, and until it
\* has read the table they are those of a file.
Loaded ==
  /\ pc \in {"read", "missing", "seed"} => cfg \in Files \ {Broken}
  /\ pc # "seed" => todo = {}

\* The keys that the loop will not write are in the table, and what a client has
\* set of those it will write is there as yet, but was set after its look.
Seeding ==
  /\ pc = "seed" => \A k \in Keys : k \in todo \/ table[k] # None
  /\ \A k \in todo : asked[k] # None => k \in raced /\ table[k] = asked[k]

\* What is left of a request is part of what it may write.
Handling ==
  \A c \in Clients : left[c] # {} => req[c] \in Requests /\ left[c] \subseteq Writes(req[c])

IInv ==
  /\ TypeOK
  /\ Loaded /\ Seeding /\ Handling
  /\ UserValueKept /\ RunsOnTable /\ SettingsHaveOrigin

LEMMA InitInv == Init => IInv
<1> SUFFICES ASSUME Init PROVE IInv
  OBVIOUS
<1>1. PICK f \in Files \ {Broken} :
        table \in {NoConfig, [k \in Keys |-> IF k \in NewKeys THEN None ELSE f[k]]}
  BY DEF Init, Tables
<1>2. \A k \in Keys : table[k] \in {None, f[k]}
  BY <1>1 DEF NoConfig
<1>3. table \in [Keys -> AnyValue \cup {None}]
  BY <1>1, FileIsStored DEF NoConfig
<1>4. TypeOK
  BY <1>2, <1>3, FileIsStored DEF TypeOK, Init, NoConfig
<1>5. SettingsHaveOrigin
  BY <1>2 DEF SettingsHaveOrigin
<1> QED
  BY <1>4, <1>5 DEF IInv, Init, Loaded, Seeding, Handling, UserValueKept, RunsOnTable

-----------------------------------------------------------------------------
(* One lemma per step that writes the table or reads it into memory.       *)

\* The seeding writes one key.
LEMMA SeedSettingInv ==
  ASSUME IInv, NEW k \in Keys, SeedSetting(k)
  PROVE  IInv'
<1> USE DEF SeedSetting
<1>1. cfg \in Files \ {Broken} /\ cfg[k] \in Stored(k) /\ cfg[k] # None
  BY FileIsStored DEF IInv, Loaded
<1>2. TypeOK'
  BY <1>1, StoredIsValue DEF IInv, TypeOK, api
<1>3. \A x \in Keys : table'[x] = IF x = k THEN cfg[k] ELSE table[x]
  BY DEF IInv, TypeOK
<1>4. Loaded' /\ Handling'
  BY DEF IInv, Loaded, Handling, api
<1>5. Seeding'
  BY <1>1, <1>3 DEF IInv, Seeding
<1>6. UserValueKept'
  BY <1>1, <1>3 DEF IInv, UserValueKept, Seeding
<1>7. RunsOnTable'
  BY DEF RunsOnTable
<1>8. SettingsHaveOrigin'
  BY <1>1, <1>3 DEF IInv, SettingsHaveOrigin
<1> QED
  BY <1>2, <1>4, <1>5, <1>6, <1>7, <1>8 DEF IInv

\* A client writes one key.
LEMMA SetSettingInv ==
  ASSUME IInv, NEW c \in Clients, NEW k \in Keys, SetSetting(c, k)
  PROVE  IInv'
<1> USE DEF SetSetting
<1> DEFINE v == req[c][k]
<1>1. req[c] \in Requests /\ k \in Writes(req[c])
  BY DEF IInv, Handling
<1>2. v \in Stored(k) /\ v \notin {None, Mask} /\ DOMAIN req[c] \subseteq Keys /\ k \in DOMAIN req[c]
  BY <1>1, WritesAreStored
<1>3. \A x \in Keys : table'[x] = IF x = k THEN v ELSE table[x]
  BY DEF IInv, TypeOK
<1>4. \A x \in Keys : asked'[x] = IF x = k THEN v ELSE asked[x]
  BY DEF IInv, TypeOK
<1>5. \A d \in Clients : left'[d] \subseteq left[d] /\ req'[d] = req[d]
  BY DEF IInv, TypeOK
<1>6. TypeOK'
  BY <1>2, StoredIsValue DEF IInv, TypeOK, monitor
<1>7. Loaded' /\ Handling'
  BY <1>5 DEF IInv, Loaded, Handling, monitor
<1>8. Seeding'
  <2>1. todo' = todo /\ pc' = pc /\ todo \subseteq Keys
    BY DEF monitor, IInv, TypeOK
  <2> QED
    BY <2>1, <1>2, <1>3, <1>4 DEF IInv, Seeding
<1>9. UserValueKept'
  BY <1>3, <1>4 DEF IInv, UserValueKept
<1>10. RunsOnTable'
  BY <1>2, <1>3 DEF IInv, RunsOnTable, monitor
<1>11. SettingsHaveOrigin'
  BY <1>1, <1>2, <1>3 DEF IInv, SettingsHaveOrigin
<1> QED
  BY <1>6, <1>7, <1>8, <1>9, <1>10, <1>11 DEF IInv

\* The table is read for the last time before the daemon runs.
LEMMA LoadWithStoreInv ==
  ASSUME IInv, LoadWithStore
  PROVE  IInv'
<1> USE DEF LoadWithStore
<1>1. file \in Files \ {Broken} /\ \A k \in Keys : table[k] # None
  BY DEF IInv, TypeOK, Seeding
<1>2. cfg' = [k \in Keys |-> table[k]]
  BY <1>1 DEF applySettings
<1>3. TypeOK'
  BY <1>2 DEF IInv, TypeOK, api
<1>4. RunsOnTable'
  BY <1>1, <1>2 DEF RunsOnTable
<1> QED
  BY <1>3, <1>4 DEF IInv, Loaded, Seeding, Handling, UserValueKept, SettingsHaveOrigin, api

LEMMA StepInv == IInv /\ [Next]_vars => IInv'
<1> SUFFICES ASSUME IInv, [Next]_vars PROVE IInv'
  OBVIOUS
<1> USE DEF IInv
<1>1. CASE Load
  <2>1. file \in Files \ {Broken}
    BY <1>1 DEF Load, TypeOK
  <2>2. TypeOK'
    BY <1>1, <2>1, FileIsStored DEF Load, TypeOK, api
  <2> QED
    BY <1>1, <2>1, <2>2 DEF Load, Loaded, Seeding, Handling, UserValueKept, RunsOnTable,
                            SettingsHaveOrigin, api
<1>2. CASE SeedSettingsIfEmpty
  <2>1. TypeOK'
    BY <1>2 DEF SeedSettingsIfEmpty, TypeOK, api
  <2>2. Empty(table) => \A k \in Keys : asked[k] = None
    BY FileIsStored DEF Empty, UserValueKept, TypeOK
  <2> QED
    BY <1>2, <2>1, <2>2 DEF SeedSettingsIfEmpty, Loaded, Seeding, Handling, UserValueKept,
                            RunsOnTable, SettingsHaveOrigin, api
<1>3. CASE SeedMissingSettings
  <2>1. TypeOK'
    BY <1>3 DEF SeedMissingSettings, Missing, TypeOK, api
  <2>2. \A k \in Missing(table) : asked[k] = None
    BY FileIsStored DEF Missing, UserValueKept
  <2> QED
    BY <1>3, <2>1, <2>2 DEF SeedMissingSettings, Missing, Loaded, Seeding, Handling,
                            UserValueKept, RunsOnTable, SettingsHaveOrigin, api
<1>4. CASE \E k \in Keys : SeedSetting(k)
  BY <1>4, SeedSettingInv
<1>5. CASE LoadWithStore
  BY <1>5, LoadWithStoreInv
<1>6. CASE Exit
  <2>1. TypeOK'
    BY <1>6 DEF Exit, NoConfig, TypeOK, api
  <2> QED
    BY <1>6, <2>1 DEF Exit, Loaded, Seeding, Handling, UserValueKept, RunsOnTable,
                      SettingsHaveOrigin, api
<1>7. ASSUME NEW c \in Clients, handleUpdateConfig(c) PROVE IInv'
  <2>1. PICK r \in Requests : req' = [req EXCEPT ![c] = r] /\ left' = [left EXCEPT ![c] = Writes(r)]
    BY <1>7 DEF handleUpdateConfig
  <2>2. TypeOK'
    BY <1>7, <2>1, WritesAreStored DEF handleUpdateConfig, TypeOK, monitor
  <2>3. Handling'
    BY <2>1 DEF Handling, TypeOK
  <2> QED
    BY <1>7, <2>2, <2>3 DEF handleUpdateConfig, Loaded, Seeding, UserValueKept, RunsOnTable,
                            SettingsHaveOrigin, monitor
<1>8. CASE \E c \in Clients, k \in Keys : SetSetting(c, k)
  BY <1>8, SetSettingInv
<1>9. ASSUME NEW c \in Clients, EndRequest(c) PROVE IInv'
  <2>1. TypeOK'
    BY <1>9 DEF EndRequest, TypeOK, monitor
  <2>2. Handling'
    BY <1>9 DEF EndRequest, Handling, TypeOK
  <2> QED
    BY <1>9, <2>1, <2>2 DEF EndRequest, Loaded, Seeding, UserValueKept, RunsOnTable,
                            SettingsHaveOrigin, monitor
<1>10. CASE EditFile
  BY <1>10 DEF EditFile, TypeOK, Loaded, Seeding, Handling, UserValueKept, RunsOnTable,
               SettingsHaveOrigin, monitor, api
<1>11. CASE Restart
  <2>1. TypeOK'
    BY <1>11 DEF Restart, NoConfig, TypeOK, api
  <2> QED
    BY <1>11, <2>1 DEF Restart, Loaded, Seeding, Handling, UserValueKept, RunsOnTable,
                       SettingsHaveOrigin, api
<1>12. CASE UNCHANGED vars
  BY <1>12 DEF vars, TypeOK, Loaded, Seeding, Handling, UserValueKept, RunsOnTable,
               SettingsHaveOrigin
<1> QED
  BY <1>1, <1>2, <1>3, <1>4, <1>5, <1>6, <1>7, <1>8, <1>9, <1>10, <1>11, <1>12
  DEF Next, MonitorStep, ApiStep

THEOREM Invariant == Spec => []IInv
  BY InitInv, StepInv, PTL DEF Spec

-----------------------------------------------------------------------------
(* What a reader should know.                                              *)

\* The settings are always of the right class; the mask is never one of them
\* (handleUpdateConfig).
THEOREM TypeCorrect == Spec => []TypeOK
  BY Invariant, PTL DEF IInv

\* A start of pvs-monitor undoes what a client has set only if that was written
\* between the start's look at the table and its own write of the key
\* (SeedSettingsIfEmpty, SeedMissingSettings).
THEOREM UserValueIsKept == Spec => []UserValueKept
  BY Invariant, PTL DEF IInv

\* The daemon runs on a complete table and on nothing else (LoadWithStore).
THEOREM DaemonRunsOnTable == Spec => []RunsOnTable
  BY Invariant, PTL DEF IInv

\* No part of a rejected request is ever stored (handleUpdateConfig).
THEOREM RejectedIsNotStored == Spec => []SettingsHaveOrigin
  BY Invariant, PTL DEF IInv

\* The daemon gives up as unconfigured just by the address of the table, with
\* which the file has nothing to do any more by then: never over one that a
\* client has set, unless it is the example's or the seeding was just about to
\* write the address (LoadWithStore, IsUnconfigured).  What the finding on the
\* config file leaves of its remedy is a request.
GivesUp == pc' = "unconfigured" /\ pc # "unconfigured"

THEOREM GivesUpByTable ==
  Spec => [][GivesUp => /\ table[Addr] = Example
                        /\ asked[Addr] \in {None, Example} \/ Addr \in raced]_vars
<1>1. ASSUME IInv, Next, GivesUp
      PROVE  table[Addr] = Example /\ (asked[Addr] \in {None, Example} \/ Addr \in raced)
  <2>1. LoadWithStore
    BY <1>1 DEF GivesUp, Next, MonitorStep, ApiStep, Load, SeedSettingsIfEmpty,
                SeedMissingSettings, SeedSetting, Exit, handleUpdateConfig, SetSetting,
                EndRequest, EditFile, Restart, monitor
  <2>2. Addr \in Keys
    BY KeysAssumption
  <2>3. table[Addr] # None
    BY <1>1, <2>1, <2>2 DEF LoadWithStore, IInv, Seeding
  <2>4. cfg'[Addr] = table[Addr]
    BY <2>1, <2>2, <2>3 DEF LoadWithStore, applySettings
  <2>5. cfg'[Addr] = Example
    BY <1>1, <2>1 DEF GivesUp, LoadWithStore, IsUnconfigured
  <2> QED
    BY <1>1, <2>2, <2>4, <2>5 DEF IInv, UserValueKept
<1>2. IInv /\ [Next]_vars =>
        [GivesUp => /\ table[Addr] = Example
                    /\ asked[Addr] \in {None, Example} \/ Addr \in raced]_vars
  BY <1>1
<1> QED
  BY <1>2, Invariant, PTL DEF Spec
=============================================================================
