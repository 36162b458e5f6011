----------------------------- MODULE MCBackfill -----------------------------
(***************************************************************************)
(* Instances of Backfill: five seconds, an "hour" of two, a "day" of four. *)
(***************************************************************************)
EXTENDS Backfill, TLC

CONSTANTS t1, t2

\* A live row and the two kinds of meter payloads differ in power and counter.
LivePayloads == {[kw |-> 1, kwh |-> 1]}

\* A counter that has run backward and one that has not.
DecliningCounter == {[kw |-> 1, kwh |-> 0], [kw |-> 1, kwh |-> 1]}

CompleteMeters == {[kw |-> 2, kwh |-> 2, paired |-> TRUE]}
AllMeters      == CompleteMeters \cup {[kw |-> 0, kwh |-> 0, paired |-> FALSE]}

EveryRow   == {[from |-> 0, to |-> MaxTime]}
TwoWindows == EveryRow \cup {[from |-> 0, to |-> 3]}

BothRuns == Permutations({t1, t2})
=============================================================================
