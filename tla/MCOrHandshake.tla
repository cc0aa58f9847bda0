---------------------------- MODULE MCOrHandshake ----------------------------
(***************************************************************************)
(* What circuits need of the network, one part at a time: the handshake of *)
(* a link, with three keys, so that an end can have one on either side of  *)
(* the other's and look for a third; and a client's list of entry guards,  *)
(* one node alone in its family, two of one family of which one may be     *)
(* excluded, and one without the flags.                                    *)
(***************************************************************************)
EXTENDS OrHandshake

CONSTANTS Nodes, Flagged, Stable, Family, EntrySets, ExcludeSets, Lists, Nets, NumEntryGuards, MaxEvents
VARIABLES
  side,  \* which part is looked at
  guards, addNodes, opts, listed, running, net, pending, dirty, file, events
list == <<guards, addNodes, opts, listed, running, net, pending, dirty, file, events>>

ThreeKeys == 1 .. 3

Relays == 1 .. 3
Trusted == {1, 2}
Relatives == <<{1}, {2, 3}, {2, 3}>>
Entries == {{}, {2, 3}}
Excluded == {{}, {2}}
Consensuses == {Relays, {2}}
Reached == {Relays, {}, {2, 3}}
G == INSTANCE EntryGuards

\* The parts that are not looked at stay in an initial state.
SideInit ==
  /\ side \in {"link", "guards"}
  /\ Init /\ G!Init
  /\ side # "link" => tls = 3 /\ strange = {} /\ conn[I] = NewConn(I, 1, FALSE, 0, FALSE)
                      /\ conn[R] = NewConn(R, 2, FALSE, 0, FALSE)
  /\ side # "guards" => ~addNodes
Link == side = "link" /\ Next /\ UNCHANGED <<side, list>>
Guards == side = "guards" /\ G!Next /\ UNCHANGED <<side, vars>>
SideSpec ==
  /\ SideInit /\ [][Link \/ Guards]_<<side, vars, list>>
  /\ \A e \in Ends : WF_vars(side = "link" /\ (Tls(e) \/ Renegotiated(e) \/ Receive(e)))
  /\ side = "guards" => G!Fairness

\* Two suited ends come to an open connection.
LinkOpens == (side = "link" /\ Suited) ~> (cut \/ \A e \in Ends : conn[e].st = "open")

\* The guards on disk are those in use, each node is one guard at most, and a
\* circuit starts where the options in force allow it.
GuardsSound == side = "guards" => G!GuardsSound

\* After an outage of any kind the first guards of the list are in use again.
Comeback == G!Comeback
=============================================================================
