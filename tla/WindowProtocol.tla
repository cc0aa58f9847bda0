-------------------------- MODULE WindowProtocol --------------------------
(***************************************************************************)
(* One flow-control window of relay.c, seen from outside: a packager that  *)
(* spends its package_window on DATA cells, a deliverer that spends its    *)
(* deliver_window on the DATA cells it receives and tops it up in steps of *)
(* Increment, sending one SENDME per step.  A circuit has one such window  *)
(* per hop and direction (package_window and deliver_window of circuit_t   *)
(* and crypt_path_t), a stream one per direction (the fields of the same   *)
(* names of edge_connection_t).  FlowControl models the handlers           *)
(* themselves and is checked to implement this module, once for the        *)
(* circuit's window and once for every stream's.                           *)
(*                                                                         *)
(* Cells in flight are counted, not ordered: nothing stated here depends   *)
(* on the order in which they arrive.                                      *)
(***************************************************************************)
EXTENDS Integers

CONSTANTS
  Start,      \* the deliverer's initial window: CIRCWINDOW_START, STREAMWINDOW_START
  Limit,      \* the packager's bound: CIRCWINDOW_START_MAX
  Increment,  \* what one SENDME is worth: CIRCWINDOW_INCREMENT, STREAMWINDOW_INCREMENT
  Initial,    \* the packager's initial window: circuit_initial_package_window()
  Checked,    \* does the packager refuse a SENDME that would exceed it?
  Eager       \* is the top-up part of every receipt (circuit window), or may
              \* it wait until the edge's outbuf has drained (stream window)?

\* circuit_initial_package_window clips the consensus parameter circwindow to
\* CIRCWINDOW_START_MIN .. CIRCWINDOW_START_MAX, which are Increment and Start.
ASSUME WindowAssumption ==
  /\ Increment \in Nat \ {0}
  /\ Initial \in Nat /\ Start \in Nat /\ Limit \in Nat
  /\ Increment <= Initial /\ Initial <= Start /\ Initial <= Limit
  /\ Checked \in BOOLEAN /\ Eager \in BOOLEAN

VARIABLES
  package,   \* package_window, at the packager
  deliver,   \* deliver_window, at the deliverer
  data,      \* DATA cells sent and not yet received
  sendmes,   \* SENDME cells sent and not yet received
  life       \* "open", "ended" (closed in order), "killed" (protocol violation)

vars == <<package, deliver, data, sendmes, life>>

Init ==
  /\ package = Initial
  /\ deliver = Start
  /\ data = 0
  /\ sendmes = 0
  /\ life = "open"

\* A window that is gone is not read again.
Close(how) ==
  /\ life' = how
  /\ package' = 0 /\ deliver' = 0 /\ data' = 0 /\ sendmes' = 0

\* Mutant: the cells are sent and the window is not charged for the last one.
Package_LastCellFree(k) ==
  /\ life = "open"
  /\ k \in 1 .. package
  /\ package' = package - k + 1
  /\ data' = data + k
  /\ UNCHANGED <<deliver, sendmes, life>>

\* connection_edge_package_raw_inbuf: each DATA cell costs one unit, and an
\* empty window stops the loop.
Package(k) ==
  /\ life = "open"
  /\ k \in 1 .. package
  /\ package' = package - k
  /\ data' = data + k
  /\ UNCHANGED <<deliver, sendmes, life>>

\* "while (deliver_window <= START - INCREMENT)": m is the number of rounds.
Rounds(window, m) ==
  /\ m \in 0 .. Start
  /\ window + m * Increment > Start - Increment
  /\ m > 0 => window + (m - 1) * Increment <= Start - Increment

\* Mutant: one SENDME too many for a top-up of several rounds.
TopUpFrom_Extra(window) ==
  \E m \in 0 .. Start :
    /\ Rounds(window, m)
    /\ deliver' = window + m * Increment
    /\ sendmes' = IF m > 0 THEN sendmes + m + 1 ELSE sendmes

\* Mutant: the last round's SENDME is not sent.
TopUpFrom_OneShort(window) ==
  \E m \in 0 .. Start :
    /\ Rounds(window, m)
    /\ deliver' = window + m * Increment
    /\ sendmes' = IF m > 0 THEN sendmes + m - 1 ELSE sendmes

\* circuit_consider_sending_sendme, connection_edge_consider_sending_sendme:
\* top up from what the window was, one SENDME for every round.
TopUpFrom(window) ==
  \E m \in 0 .. Start :
    /\ Rounds(window, m)
    /\ deliver' = window + m * Increment
    /\ sendmes' = sendmes + m

\* connection_edge_process_relay_cell, RELAY_COMMAND_DATA.
Deliver ==
  /\ life = "open"
  /\ data > 0
  /\ IF deliver - 1 < 0
       THEN Close("killed")
       ELSE /\ data' = data - 1
            /\ \/ TopUpFrom(deliver - 1)
               \/ ~Eager /\ deliver' = deliver - 1 /\ sendmes' = sendmes
            /\ UNCHANGED <<package, life>>

\* The outbuf of the edge has drained: the top-up that a receipt put off.
TopUp ==
  /\ life = "open"
  /\ ~Eager
  /\ deliver <= Start - Increment
  /\ TopUpFrom(deliver)
  /\ UNCHANGED <<package, data, life>>

\* Mutant: the cells are let out and the window is not incremented for them.
ReceiveSendme_NotCredited(k) ==
  /\ life = "open"
  /\ sendmes > 0
  /\ k \in 0 .. package + Increment
  /\ package' = package - k
  /\ data' = data + k
  /\ sendmes' = sendmes - 1
  /\ UNCHANGED <<deliver, life>>

\* RELAY_COMMAND_SENDME, and the k cells that the new window lets out before
\* the handler returns.
ReceiveSendme(k) ==
  /\ life = "open"
  /\ sendmes > 0
  /\ IF Checked /\ package + Increment > Limit
       THEN k = 0 /\ Close("killed")
       ELSE /\ k \in 0 .. package + Increment
            /\ package' = package + Increment - k
            /\ data' = data + k
            /\ sendmes' = sendmes - 1
            /\ UNCHANGED <<deliver, life>>

\* The circuit is torn down, or one of the stream's ends closes it.
End ==
  /\ life = "open"
  /\ Close("ended")

Next ==
  \/ \E k \in 1 .. package : Package(k)
  \/ Deliver
  \/ TopUp
  \/ \E k \in 0 .. package + Increment : ReceiveSendme(k)
  \/ End

Spec == Init /\ [][Next]_vars
-----------------------------------------------------------------------------
\* Every variable stays in its type; deliver_window never goes below zero,
\* which assert_circuit_ok and assert_cpath_layer_ok insist on.
TypeOK ==
  /\ package \in Nat
  /\ deliver \in Nat
  /\ data \in Nat
  /\ sendmes \in Nat
  /\ life \in {"open", "ended", "killed"}

\* What the two ends know differs exactly by what is in flight: every unit of
\* the deliverer's window is held by the packager, carried by a DATA cell, or
\* on its way back in a SENDME, apart from what a small circwindow withheld.
Conservation ==
  life = "open" =>
    deliver - Increment * sendmes = package + data + (Start - Initial)

\* Honest ends never kill the circuit: neither the "deliver_window below 0"
\* nor the "unexpected sendme" branch of relay.c is reached.
NeverKilled == life # "killed"

\* No packager's window ever exceeds its initial value, SENDMEs in flight
\* included.  The stream case of RELAY_COMMAND_SENDME adds without a test and
\* relies on this.
NeverOverfilled == life = "open" => package + Increment * sendmes <= Initial

\* When nothing is in flight the packager can send: the window cannot be lost
\* to rounding, even for circwindow values that are not a multiple of
\* Increment, provided the deliverer has done the top-up that was due.
NeverWedged ==
  /\ life = "open"
  /\ data = 0 /\ sendmes = 0
  /\ Eager \/ deliver > Start - Increment
  => package > 0
===========================================================================
