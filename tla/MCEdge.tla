------------------------------- MODULE MCEdge -------------------------------
(***************************************************************************)
(* The edge of a circuit, in two instances: the flow control of two        *)
(* streams, with windows of a few cells in the proportions of the real     *)
(* ones (Low below CircIncrement, as 64 is below 100, and the stream's     *)
(* window half the circuit's); and the lookups of an exit, three streams   *)
(* on two circuits that ask for a host and a reverse name.                 *)
(***************************************************************************)
EXTENDS FlowControl

CONSTANTS stream1, stream2, circuit1, circuit2, host, arpa,
  MaxConns, Circs, Names, Arpa, Overlap, MaxAsked, Nil
VARIABLES
  cache, conn, open, asked, sound
lookups == <<cache, conn, open, asked, sound>>

TwoStreams == <<stream1, stream2>>
Early == {stream1}
Supplies(m, n) == [s \in {stream1, stream2} |-> IF s = stream1 THEN m ELSE n]
\* An exit whose client may hang up on a stream, and a client one of whose
\* streams is the library's.
TwoEnds == {
  [atOrigin |-> FALSE, library |-> {}, hangUp |-> {stream2}, supply |-> Supplies(4, 1)],
  [atOrigin |-> TRUE, library |-> {stream2}, hangUp |-> {}, supply |-> Supplies(4, 2)]}
TwoCircuits == {circuit1, circuit2}
TwoNames == {host, arpa}
ReverseNames == {arpa}
R == INSTANCE ResolveCache

ASSUME CacheAssumption == R!ResolveAssumption

\* The machine that is not looked at stays in an initial state.
FlowInit == Init /\ R!Init
LookupInit == Init /\ side.atOrigin /\ R!Init
FlowSpec == FlowInit /\ [][Next /\ UNCHANGED lookups]_<<vars, lookups>> /\ Fairness
LookupSpec == LookupInit /\ [][R!Next /\ UNCHANGED vars]_<<vars, lookups>> /\ R!Fairness

\* The pending lists and the states of the connections agree, nobody is told
\* twice, and no assertion of dns.c fails.
CacheSound == R!CacheSound

\* Who waits for a name hears of it, unless its circuit or stream ends.
WaitersAnswered == R!WaitersAnswered
=============================================================================
