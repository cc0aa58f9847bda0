----------------------------- MODULE MCLibrary -----------------------------
(***************************************************************************)
(* The two queues between the application's threads and the main thread,   *)
(* one at a time: the data that comes out, and the commands that go in.    *)
(***************************************************************************)
EXTENDS ReceiveQueue

CONSTANTS s1, s2, MaxCommands, Reenters
VARIABLES
  side,  \* which of the two queues is looked at
  cqueue, timer, life, known, issued, running, stale
inward == <<cqueue, timer, life, known, issued, running, stale>>

TwoStreams == {s1, s2}
SomeUnits == [s \in TwoStreams |-> IF s = s1 THEN 3 ELSE 1]
L == INSTANCE LibraryCommands

ASSUME CommandsAssumption == L!LibraryAssumption

SideInit == side \in {"in", "out"} /\ L!Init /\ Init
In == side = "in" /\ L!Next /\ UNCHANGED <<side, vars>>
Out == side = "out" /\ Next /\ UNCHANGED <<side, inward>>

SideSpec ==
  /\ SideInit /\ [][In \/ Out]_<<side, inward, vars>>
  /\ WF_inward(side = "in" /\ L!TimerBegins) /\ WF_inward(side = "in" /\ (L!Run \/ L!TimerEnds))
  /\ WF_vars(side = "out" /\ Add) /\ WF_vars(side = "out" /\ Reading)
  /\ \A s \in Streams : SF_vars(side = "out" /\ Recv(s))

\* Commands run in the order in which they were queued, across timers and
\* threads (main.c), and every command is run.
ImplementsFifo == L!ImplementsFifo
EveryCommandRuns == L!EveryCommandRuns

\* With reads and adds kept apart, a call leaves what is queued for the other
\* streams as it was (onionroute.c puts back what it cut from the list), and
\* the closing of a stream is reported to the application that keeps reading;
\* and nothing stays on the list for ever, even in a race.
AllDelivered == KeepsOthers /\ CloseIsSeen /\ Drains
============================================================================
