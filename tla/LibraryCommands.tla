-------------------------- MODULE LibraryCommands --------------------------
(***************************************************************************)
(* The command queue through which the threads of an application use the   *)
(* library: onionroute_stream_open, _stream_write, _closestream and        *)
(* _switch_to_new_circuits put a command on cqueue; a libevent timer of    *)
(* the main thread reverses the list and pops and runs commands until it   *)
(* is empty, with the list locked.  The lock is reentrant: a callback that *)
(* a command triggers in the main thread (a log message, the bootstrap     *)
(* status) can queue commands of its own at that moment.                   *)
(*                                                                         *)
(* A stream is known to the application by the address of its connection,  *)
(* from the open callback on.  The main thread frees the connection some   *)
(* time after it was marked for close, and tells by the close callback.    *)
(***************************************************************************)
EXTENDS Integers, Sequences, SequencesExt

CONSTANTS
  Streams,      \* connections, named before they exist
  MaxCommands,  \* bound on the number of commands
  Reenters,     \* do callbacks of a running command queue commands?
  Nil

LibraryAssumption ==
  /\ MaxCommands \in Nat
  /\ Reenters \in BOOLEAN
  /\ Nil \notin Streams

Commands ==
  [op : {"open", "write", "close"}, stream : Streams, number : 1 .. MaxCommands]
    \cup [op : {"newnym"}, stream : {Nil}, number : 1 .. MaxCommands]

VARIABLES
  cqueue,
  timer,   \* onionroute_timer_callback, which has the lock while not "off":
           \* "on" before the first command, then "ran" one
  life,      \* of a connection: "none", "opening", "open", "marked", "freed"
  known,     \* streams whose open callback has run and whose close callback has not
  issued,    \* how many commands were queued so far
  running,   \* the command that ran last, <<>> before the first
  stale      \* commands that were run on a connection that was freed

vars == <<cqueue, timer, life, known, issued, running, stale>>

Init ==
  /\ cqueue = <<>>
  /\ timer = "off"
  /\ life = [s \in Streams |-> "none"]
  /\ known = {}
  /\ issued = 0
  /\ running = <<>>
  /\ stale = {}

-----------------------------------------------------------------------------
(* The application. *)

\* smartlist_add(cqueue, cmd): takes the lock, which the main thread holds
\* while it drains, so that only a callback gets through.
Enqueue(op, s) ==
  /\ issued < MaxCommands
  /\ timer # "off" => Reenters /\ timer = "ran"
  /\ cqueue' = Append(cqueue, [op |-> op, stream |-> s, number |-> issued + 1])
  /\ issued' = issued + 1
  /\ UNCHANGED <<timer, life, known, running, stale>>

\* Each stream is opened once; it is written to and closed only while known.
StreamOpen(s) ==
  /\ life[s] = "none"
  /\ \A i \in DOMAIN cqueue : cqueue[i].stream # s
  /\ Enqueue("open", s)
StreamWrite(s) == s \in known /\ Enqueue("write", s)
CloseStream(s) == s \in known /\ Enqueue("close", s)
\* So does onionroute_clear_dns_cache_signal_v1: a command without a stream.
SwitchToNewCircuits == Enqueue("newnym", Nil)
-----------------------------------------------------------------------------
(* The timer of the main thread. *)

\* Mutant: the list is drained as it is.
Prepared_AsIs(q) == q

\* smartlist_reverse: smartlist_pop_last is to find the oldest command first.
Prepared(q) == Reverse(q)

TimerBegins ==
  /\ timer = "off"
  /\ timer' = "on"
  /\ cqueue' = Prepared(cqueue)
  /\ UNCHANGED <<life, known, issued, running, stale>>

\* The processors: a new connection may fail to attach at once; a write to a
\* marked one does nothing, one to a live one may end the stream; a close marks.
After(op, l) ==
  CASE op = "open" -> {"opening", "marked"}
    [] op = "write" -> {l, "marked"}
    [] op = "close" -> {"marked"}

\* Mutant: smartlist_get of the last element, which stays in the list.
Popped_Peek(q) == q

\* What smartlist_pop_last leaves.
Popped(q) == Front(q)

Run ==
  /\ timer # "off" /\ cqueue # <<>>
  /\ LET c == Last(cqueue)
         s == c.stream
     IN  /\ cqueue' = Popped(cqueue)
         /\ running' = <<c>> /\ timer' = "ran"
         /\ IF s = Nil THEN UNCHANGED <<life, stale>>
            ELSE IF life[s] = "freed" THEN stale' = stale \cup {c} /\ UNCHANGED life
            ELSE /\ \E l \in After(c.op, life[s]) : life' = [life EXCEPT ![s] = l]
                 /\ UNCHANGED stale
  /\ UNCHANGED <<known, issued>>

TimerEnds ==
  /\ timer # "off" /\ cqueue = <<>>
  /\ timer' = "off"
  /\ UNCHANGED <<cqueue, life, known, issued, running, stale>>
-----------------------------------------------------------------------------
(* The rest of the main thread, between timers. *)

\* RELAY_COMMAND_CONNECTED: the open callback hands out the connection.
Connected(s) ==
  /\ timer = "off" /\ life[s] = "opening"
  /\ life' = [life EXCEPT ![s] = "open"]
  /\ known' = known \cup {s}
  /\ UNCHANGED <<cqueue, timer, issued, running, stale>>

\* An END cell, the end of the circuit or a timeout.
Ends(s) ==
  /\ timer = "off" /\ life[s] \in {"opening", "open"}
  /\ life' = [life EXCEPT ![s] = "marked"]
  /\ UNCHANGED <<cqueue, timer, known, issued, running, stale>>

\* close_closeable_connections, connection_unlink: the close callback, then
\* the connection is freed.
Unlink(s) ==
  /\ timer = "off" /\ life[s] = "marked"
  /\ life' = [life EXCEPT ![s] = "freed"]
  /\ known' = known \ {s}
  /\ UNCHANGED <<cqueue, timer, issued, running, stale>>
-----------------------------------------------------------------------------
Main ==
  \/ TimerBegins \/ Run \/ TimerEnds
  \/ \E s \in Streams : Connected(s) \/ Ends(s) \/ Unlink(s)

Next ==
  \/ Main
  \/ \E s \in Streams : StreamOpen(s) \/ StreamWrite(s) \/ CloseStream(s)
  \/ SwitchToNewCircuits

Spec == Init /\ [][Next]_vars

\* libevent runs the timer every 200 ms and the callback runs to its end.
FairSpec == Spec /\ WF_vars(TimerBegins) /\ WF_vars(Run \/ TimerEnds)
-----------------------------------------------------------------------------
TypeOK ==
  /\ cqueue \in Seq(Commands)
  /\ timer \in {"off", "on", "ran"}
  /\ life \in [Streams -> {"none", "opening", "open", "marked", "freed"}]
  /\ known \subseteq Streams
  /\ issued \in 0 .. MaxCommands
  /\ running \in Seq(Commands)
  /\ stale \subseteq Commands

\* The commands that wait, the oldest first.
Waiting == IF timer = "off" THEN cqueue ELSE Reverse(cqueue)

Queue == INSTANCE Fifo WITH waiting <- Waiting

\* "lock the smartlist before so we process it in order" (main.c): commands
\* run in the order in which they were queued, across timers and threads.
ImplementsFifo == Queue!Spec

\* Every command is run: the timer does not miss one that comes while it
\* drains, and does not drain for ever.
EveryCommandRuns ==
  \A n \in 1 .. MaxCommands :
    (\E i \in DOMAIN cqueue : cqueue[i].number = n)
      ~> (\A i \in DOMAIN cqueue : cqueue[i].number # n)

\* connection_mark_unattached_ap asserts that what it is given is a connection
\* (tor_assert(base_conn->type == CONN_TYPE_AP)): no command is run on the
\* address of one that was freed while the command waited.
HandlesAlive == stale = {}
============================================================================
