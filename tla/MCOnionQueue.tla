---------------------------- MODULE MCOnionQueue ----------------------------
(***************************************************************************)
(* Instances of OnionQueue for TLC: three CREATE cells for two workers.    *)
(***************************************************************************)
EXTENDS OnionQueue

CONSTANTS c1, c2, c3, i1, i2, i3, w1, w2

ThreeCells == {c1, c2, c3}
TwoTags == {i1, i2}
ThreeTags == {i1, i2, i3}
OneWorker == {w1}
TwoWorkers == {w1, w2}
=============================================================================
