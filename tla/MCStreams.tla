----------------------------- MODULE MCStreams -----------------------------
(***************************************************************************)
(* A client, one part at a time: two streams to exits, on two circuits; or *)
(* one to a hidden service, with both ends of its rendezvous; or how it    *)
(* learns how long to wait for a circuit, with one circuit after another.  *)
(***************************************************************************)
EXTENDS Rendezvous, TLC
CONSTANTS s0, s1, s2, c1, c2, MaxPending, MaxTries,
  Builds, N, MaxTime, IntMax, BinWidth, MinCircs, MaxTimeouts, InitialTimeout, MinTimeout,
  RecentCounts, DefaultRecent, AllMayFail, MaxEvents
VARIABLES
  side,  \* which of them is looked at
  kind, conn, circuit, exit, back, good, apart,
  times, idx, total, timeout, close, nonlive, recent, at, build, off, freed, strikes, faults, events
exits == <<kind, conn, circuit, exit, back, good, apart>>
learning ==
  <<times, idx, total, timeout, close, nonlive, recent, at, build, off, freed, strikes, faults, events>>

OneStream == <<s0>>
ThreeCircuits == 1 .. 3
TwoAnswers == 1 .. 2
TwoStreams == <<s1, s2>>
TwoCircuits == {c1, c2}
Pair(k, l) == s1 :> k @@ s2 :> l
SomeKinds == {Pair({"isolated"}, {"library"}),
              Pair({"resolve", "isolated"}, {"isolated"}),
              Pair({"resolve"}, {"onehop"})}
C == INSTANCE ClientStreams WITH
       Streams <- TwoStreams, Circuits <- TwoCircuits, Kinds <- SomeKinds, Value <- Pair(1, 2),
       str <- conn, circ <- circuit, sound <- good
OneCircuit == {1}
Recents == {1, 2}
B == INSTANCE CircuitBuildTimes WITH Circuits <- Builds, circ <- build
Symmetry == Permutations(Points)

ASSUME ClientAssumption ==
  /\ SomeKinds \subseteq [{s1, s2} -> SUBSET C!Traits]
  /\ \A k \in SomeKinds, x \in {s1, s2} : ~({"library", "resolve"} \subseteq k[x])
  /\ MaxPending \in Nat \ {0} /\ MaxTries \in Nat \ {0}

ASSUME LearningAssumption == B!TimesAssumption

\* Those that are not looked at stay in an initial state.
SideInit ==
  /\ Init /\ C!Init /\ B!Init
  /\ side \in {"exit", "service", "times"}
  /\ side # "exit" => kind = Pair({"resolve"}, {"onehop"})
ToExits == side = "exit" /\ C!Next /\ UNCHANGED <<side, vars, learning>>
ToService == side = "service" /\ Next /\ UNCHANGED <<side, exits, learning>>
BuildTimes == side = "times" /\ B!Next /\ UNCHANGED <<side, vars, exits>>
SideSpec == SideInit /\ [][ToExits \/ ToService \/ BuildTimes]_<<side, vars, exits, learning>>

\* No LD_BUG branch is reached; cells reach the stream
\* they are for and an exit holds nothing for a stream that moved on; no
\* isolated stream joins a circuit that carried one it is isolated from, and
\* no stream waits beside an open circuit that it could use.
StreamsSound ==
  side = "exit" => C!NoBug /\ C!OwnCells /\ C!ExitReleased /\ C!JoinsAlike /\ C!NobodyWaitsBeside

\* The history of build times is whole after any restart, the circuit build
\* timeouts are in order, the marks of recent timeouts stay in their array
\* except after a disabled time, and the history is not forgotten early.
TimesSound == side = "times" => B!TimesSound
=============================================================================
