---------------------------- MODULE MCPanelHealth ----------------------------
(***************************************************************************)
(* Instances of PanelHealth, in units of 5 W: two panels, one the peer of  *)
(* the other, in lists of every kind, and an array of five, of which any   *)
(* number fails.  With a reference at three quarters the second brightest  *)
(* of the five sets it: neither the brightest, nor the one in the middle.  *)
(***************************************************************************)
EXTENDS PanelHealth, TLC

CONSTANTS p1, p2, p3, p4, p5

Pair  == {p1, p2}
Array == {p1, p2, p3, p4, p5}

Case(k, f) == [known |-> k, faults |-> f]

\* A daemon that may stop anywhere over two panels it knows; one that finds a new
\* panel in a list that may not be saved; one whose exchanges fail; and the array.
PanelCases ==
  { Case(Pair, {"stop"}), Case({p1}, {"garbled"}), Case({p2}, {"garbled"}),
    Case({}, {"net", "auth", "reboot"}), Case(Array, {}) }

LostRowCases == { Case(Pair, {"stop"}) }

Live == [claim |-> "working", data |-> "live"]
Zero == [claim |-> "working", data |-> "zero"]

\* A panel that works, one the PVS6 cannot reach, one it reports in error, one
\* it leaves out and one whose record does not parse.
FewRecords ==
  {Live, Zero, [claim |-> "error", data |-> "live"], [claim |-> "working", data |-> "garbled"],
   Absent}

\* Over the whole of a function on the panels S, d elsewhere.
Padded(S, R, d) == {[s \in Inverters |-> IF s \in S THEN f[s] ELSE d] : f \in [S -> R]}

\* Of two panels any record and any power: nothing, 5 W (dusk, or dead beside
\* one in the sun) or 200 W.
PairLists == [list : Padded(Pair, FewRecords, Absent), power : Padded(Pair, Powers, 0)]

\* The powers of an array of which the panels "up" can be reached: all of these
\* make 200 W; or, if they are all there are, one reads 200 W over 5 W of the rest.
ArrayPowers(up) ==
  {[s \in Inverters |-> IF s \in odd THEN MaxPower ELSE IF s \in up THEN 1 ELSE 0] :
     odd \in {up} \cup (IF up = Array THEN {{s} : s \in Array} ELSE {})}

ArrayLists ==
  UNION {[list  : {[s \in Inverters |-> IF s \in up THEN Live ELSE Zero]},
          power : ArrayPowers(up)] : up \in SUBSET Array}

FewLists == [K \in SUBSET Inverters |-> IF K = Array THEN ArrayLists ELSE PairLists]

\* The panels of the pair may change places, and so may the others.
Symmetry == {g @@ h : g \in Permutations(Pair), h \in Permutations(Array \ Pair)}
=============================================================================
