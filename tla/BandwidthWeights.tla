-------------------------- MODULE BandwidthWeights --------------------------
(***************************************************************************)
(* The weights that a consensus gives to the bandwidth of relays in each   *)
(* position of a circuit (dirvote.c, consensus method 10 and later), and   *)
(* what every reader of a consensus verifies of them (routerparse.c).      *)
(*                                                                         *)
(* G, M, E, D: the bandwidth of the guards, of the relays that are neither *)
(* guard nor exit, of the exits, and of those that are both; T: their sum. *)
(* A weight Wxy is the field xy of a record: the share, out of Scale, of   *)
(* the bandwidth of kind y that is used in position x.                     *)
(***************************************************************************)
EXTENDS Integers, FiniteSetsExt

Scale == 10000    \* BW_WEIGHT_SCALE

Abs(x) == IF x < 0 THEN -x ELSE x
Least(a, b) == IF a < b THEN a ELSE b
Most(a, b) == IF a < b THEN b ELSE a

\* C's division: towards zero.
Over(a, b) == IF a < 0 THEN -((-a) \div b) ELSE a \div b

W(gg, gd, mg, me, md, ee, ed) ==
  [gg |-> gg, gd |-> gd, mg |-> mg, me |-> me, md |-> md, ee |-> ee, ed |-> ed]
-----------------------------------------------------------------------------
(* networkstatus_check_weights, with a margin of 10 and with do_balance. *)
Near(a, b, margin) == Abs(a - b) <= margin

InRange(w) == \A f \in DOMAIN w : w[f] \in 0 .. Scale

Sums(w) ==
  /\ Near(w.ed + w.md + w.gd, Scale, 10)
  /\ Near(w.mg + w.gg, Scale, 10)
  /\ Near(w.me + w.ee, Scale, 10)

Balanced(w, G, M, E, D) ==
  LET margin == (10 * (G + M + E + D)) \div 3
  IN  /\ Near(w.gg * G + w.gd * D, w.ee * E + w.ed * D, margin)
      /\ Near(w.gg * G + w.gd * D, M * Scale + w.md * D + w.me * E + w.mg * G, margin)

\* BW_WEIGHTS_BALANCE_MID_ERROR: only the last of the equations fails.
OnlyMiddleOff(w, G, M, E, D) ==
  /\ Sums(w) /\ InRange(w)
  /\ Near(w.gg * G + w.gd * D, w.ee * E + w.ed * D, (10 * (G + M + E + D)) \div 3)

Good(w, G, M, E, D) == Sums(w) /\ InRange(w) /\ Balanced(w, G, M, E, D)
-----------------------------------------------------------------------------
(* networkstatus_compute_bw_weights_v10. *)
Plenty(X, T) == 3 * X >= T

\* Case 1: neither guards nor exits are scarce.
NeitherScarce(G, M, E, D) ==
  LET third == Scale \div 3
      ee == Over(Scale * (E + G + M), 3 * E)
      mg == Over(Scale * (2 * G - E - M), 3 * G)
  IN  W(Scale - mg, third, mg, Scale - ee, third, ee, third)

\* Case 2a: the relays that are both go to the scarcer of the two.
ScarcerTakesAll(G, E) ==
  IF E < G THEN W(Scale, 0, 0, 0, 0, Scale, Scale) ELSE W(Scale, Scale, 0, 0, 0, Scale, 0)

\* Case 2b1.
MiddleFromExits(G, M, E, D) ==
  LET ed == Over(Scale * (D - 2 * E + 4 * G - 2 * M), 3 * D)
  IN  W(Scale, Over(Scale - ed, 2), 0, Over(Scale * (G - M), E), Over(Scale - ed, 2),
        Over(Scale * (E - G + M), E), ed)

\* Cases 2b2 and 2b3.
MiddleFromBoth(G, M, E, D) ==
  LET ed == Over(Scale * (D - 2 * E + G + M), 3 * D)
      md == Most(Over(Scale * (D - 2 * M + G + E), 3 * D), 0)
  IN  W(Scale, Scale - ed - md, 0, 0, md, Scale, ed)

\* Mutant: case 2b takes its first solution unchecked.
BothScarce_Unchecked(G, M, E, D) ==
  IF Least(E, G) + D < Most(E, G) THEN {ScarcerTakesAll(G, E)} ELSE {MiddleFromExits(G, M, E, D)}

\* Case 2: no weights at all if the solution is off by more than the middle.
BothScarce(G, M, E, D) ==
  LET first == MiddleFromExits(G, M, E, D)
      second == MiddleFromBoth(G, M, E, D)
  IN  IF Least(E, G) + D < Most(E, G) THEN {ScarcerTakesAll(G, E)}
      ELSE IF Good(first, G, M, E, D) THEN {first}
      ELSE {w \in {second} : OnlyMiddleOff(w, G, M, E, D)}

\* Case 3a: one of them is scarce, with the relays that are both.
OneVeryScarce(G, M, E) ==
  LET spare(X) == IF X < M THEN 0 ELSE Over(Scale * (X - M), 2 * X)
  IN  IF G < E THEN W(Scale, Scale, 0, spare(E), 0, Scale - spare(E), 0)
      ELSE W(Scale - spare(G), 0, spare(G), 0, 0, Scale, Scale)

\* Case 3b.
OneScarce(G, M, E, D) ==
  LET gd == Over(Scale * (D - 2 * G + E + M), 3 * D)
      ed == Over(Scale * (D - 2 * E + G + M), 3 * D)
      ee == Over(Scale * (E + M), 2 * E)
      gg == Over(Scale * (G + M), 2 * G)
  IN  IF G < E THEN W(Scale, gd, 0, Scale - ee, Over(Scale - gd, 2), ee, Over(Scale - gd, 2))
      ELSE W(gg, Over(Scale - ed, 2), Scale - gg, 0, Over(Scale - ed, 2), Scale, ed)

\* The weights, or none.
Weights(G, M, E, D) ==
  LET T == G + M + E + D
      checked(w) == {x \in {w} : Good(x, G, M, E, D)}
  IN  IF \E X \in {G, M, E, D} : X <= 0 THEN {}
      ELSE IF Plenty(E, T) /\ Plenty(G, T) THEN checked(NeitherScarce(G, M, E, D))
      ELSE IF ~Plenty(E, T) /\ ~Plenty(G, T) THEN BothScarce(G, M, E, D)
      ELSE IF 3 * (Least(E, G) + D) < T THEN {OneVeryScarce(G, M, E)}
      ELSE checked(OneScarce(G, M, E, D))
-----------------------------------------------------------------------------
(* networkstatus_verify_bw_weights, its fractions multiplied out. *)
Close(a, b) == 100 * Abs(a - b) <= Most(a, b)

GuardTotal(w, G, D) == w.gg * G + w.gd * D
ExitTotal(w, E, D) == w.ee * E + w.ed * D
MiddleTotal(w, G, M, E, D) == Scale * M + w.mg * G + w.me * E + w.md * D

Verified(w, G, M, E, D) ==
  LET T == G + M + E + D
      g == GuardTotal(w, G, D)
      e == ExitTotal(w, E, D)
      m == MiddleTotal(w, G, M, E, D)
      allClose == Close(e, m) /\ Close(e, g) /\ Close(g, m)
      below(x) == 3 * x <= Scale * T
  IN  /\ 1000 * Abs(w.gg + w.mg - Scale) <= Scale
      /\ 1000 * Abs(w.ee + w.me - Scale) <= Scale
      /\ 1000 * Abs(w.gd + w.md + w.ed - Scale) <= Scale
      /\ IF Plenty(E, T) /\ Plenty(G, T) THEN allClose
         ELSE IF ~Plenty(E, T) /\ ~Plenty(G, T) THEN
           IF Least(E, G) + D < Most(E, G)
             THEN /\ IF E < G THEN e <= g ELSE g <= e
                  /\ below(e) /\ below(g) /\ 3 * m >= Scale * T
           ELSE IF 3 * M < T THEN allClose ELSE Close(e, g)
         ELSE IF 3 * (Least(E, G) + D) < T THEN
           LET scarce == IF G < E THEN g ELSE e
               other == IF G < E THEN e ELSE g
           IN  /\ below(scarce)
               /\ IF Most(E, G) >= M THEN Close(other, m) ELSE 3 * other >= Scale * T
         ELSE allClose

\* Whatever relays a consensus lists, if an authority puts weights into it
\* they are what every client that reads it verifies.
WeightsVerify(G, M, E, D) == \A w \in Weights(G, M, E, D) : InRange(w) /\ Verified(w, G, M, E, D)
=============================================================================
