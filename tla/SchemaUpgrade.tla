---------------------------- MODULE SchemaUpgrade ----------------------------
(***************************************************************************)
(* What the database promises to those who use it while it is upgraded:    *)
(* it is at one version, with everything that this version has done to its *)
(* rows; the next migration happens at once or not at all; and a row is    *)
(* saved before a migration or after it.  Migrations is shown to implement *)
(* this.                                                                   *)
(***************************************************************************)
EXTENDS Schema

VARIABLES
  version,  \* PRAGMA user_version
  db        \* everything else

Init == version = 0 /\ db = Empty

\* A row more, and not a table.
Save ==
  /\ UNCHANGED version
  /\ db' \in Contents
  /\ db'.tables = db.tables
  /\ db.raw \subseteq db'.raw /\ db.inv \subseteq db'.inv
  /\ db.typed \subseteq db'.typed /\ db.aux \subseteq db'.aux
  /\ db.readings \subseteq db'.readings /\ db.rolled \subseteq db'.rolled
  /\ UNCHANGED db.outages

Migrate ==
  /\ version < Latest
  /\ version' = version + 1
  /\ db' = Migrated(version + 1, db)

Next == Save \/ Migrate

Spec == Init /\ [][Next]_<<version, db>>
=============================================================================
