--------------------------- MODULE MCCircuitTable ---------------------------
(***************************************************************************)
(* Instances of CircuitTable for TLC: a relay between two neighbours, and  *)
(* a node with circuits of its own and a single neighbour.                 *)
(***************************************************************************)
EXTENDS CircuitTable, TLC

CONSTANTS c1, c2, c3, k1, k2

Two == {c1, c2}
Three == {c1, c2, c3}
Both == {k1, k2}
First == {k1}
None == {}
Alike == Permutations(Two) \cup Permutations(Both)
=============================================================================
