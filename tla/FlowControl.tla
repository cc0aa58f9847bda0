---------------------------- MODULE FlowControl ----------------------------
(***************************************************************************)
(* The flow control of one circuit in one direction (relay.c): the streams *)
(* of the packaging end, its circuit and stream package windows, the cell  *)
(* queue towards its OR connection with the block and unblock of streams   *)
(* at the high and low water marks, the cells on their way, and the        *)
(* deliver windows and edge outbufs of the other end.  Both directions run *)
(* the same code, an origin with the windows of a crypt_path_t (AtOrigin), *)
(* an exit with those of the circuit_t.                                    *)
(*                                                                         *)
(* Data is counted in cells.  Everything between the packager's queue and  *)
(* the other end is one FIFO, wire; the way back is one FIFO, back.  The   *)
(* main thread runs a handler to its end, so each handler is one action.   *)
(***************************************************************************)
EXTENDS Integers, Sequences, SequencesExt, FiniteSetsExt

CONSTANTS
  StreamList,     \* p_streams or n_streams, in list order
  Sides,          \* what the packaging end and its streams may be
  Optimistic,     \* streams whose exit is still connecting when data arrives
  CircStart, CircInitial, CircIncrement,      \* CIRCWINDOW_*, circwindow
  StreamStart, StreamIncrement,               \* STREAMWINDOW_*
  High, Low,      \* CELL_QUEUE_HIGHWATER_SIZE, CELL_QUEUE_LOWWATER_SIZE
  OutbufFull,     \* connection_outbuf_too_full: 10 cells
  Circuit         \* the stream id 0 of circuit-level cells

Streams == ToSet(StreamList)

ASSUME FlowAssumption ==
  /\ {CircStart, CircInitial, CircIncrement, StreamStart, StreamIncrement, High, Low, OutbufFull}
       \subseteq Nat
  /\ StreamList \in Seq(Streams) /\ IsInjective(StreamList)
  /\ Circuit \notin Streams
  /\ Optimistic \subseteq Streams
  /\ Sides \subseteq [atOrigin : BOOLEAN, library : SUBSET Streams, hangUp : SUBSET Streams,
                     supply : [Streams -> Nat]]
  /\ 0 < CircIncrement /\ CircIncrement <= CircInitial /\ CircInitial <= CircStart
  /\ 0 < StreamIncrement /\ StreamIncrement <= StreamStart
  /\ 0 < Low /\ Low < High

VARIABLES
  side,       \* of Sides, chosen once
  \* the packaging end
  pstream,    \* "new", "open" or "closed", per stream
  supply,     \* cells the application has still to write
  inbuf,      \* cells read from the application and not yet packaged
  reading,    \* connection_is_reading
  spw,        \* edge_connection_t.package_window
  pw,         \* the circuit's or hop's package_window
  blocked,    \* streams_blocked_on_n_conn or streams_blocked_on_p_conn
  queue,      \* the cells of n_conn_cells or p_conn_cells
  \* in flight
  wire, back,
  \* the delivering end
  dstream,    \* "connecting", "open", "ended" (by an END cell), "hungup"
  sdw,        \* edge_connection_t.deliver_window
  dw,         \* the circuit's or hop's deliver_window
  outbuf,     \* cells on the edge connection's outbuf
  got,        \* cells handed to the edge connection so far
  circ        \* "open" or "killed"

packager == <<pstream, supply, inbuf, reading, spw, pw, blocked, queue>>
deliverer == <<dstream, sdw, dw, outbuf, got>>
vars == <<side, packager, wire, back, deliverer, circ>>

AtOrigin == side.atOrigin  \* is the packaging end the circuit's origin?
Library == side.library    \* the streams with is_onionroute_request set
HangUp == side.hangUp      \* streams the delivering side's application may close
Supply == side.supply      \* cells the application of each stream writes

Cell(c, s) == [cmd |-> c, stream |-> s]
Cells == [cmd : {"DATA", "END", "SENDME"}, stream : Streams \cup {Circuit}]

Init ==
  /\ side \in Sides
  /\ pstream = [s \in Streams |-> "new"]
  /\ supply = Supply
  /\ inbuf = [s \in Streams |-> 0]
  /\ reading = [s \in Streams |-> FALSE]
  /\ spw = [s \in Streams |-> StreamStart]
  /\ pw = CircInitial
  /\ blocked = FALSE
  /\ queue = <<>> /\ wire = <<>> /\ back = <<>>
  /\ dstream = [s \in Streams |-> IF s \in Optimistic THEN "connecting" ELSE "open"]
  /\ sdw = [s \in Streams |-> StreamStart]
  /\ dw = CircStart
  /\ outbuf = [s \in Streams |-> 0]
  /\ got = [s \in Streams |-> 0]
  /\ circ = "open"

-----------------------------------------------------------------------------
(***************************************************************************)
(* The packaging functions, on the part of the state they change.  "idle"  *)
(* says that the OR connection's outbuf is empty; then the queue is empty  *)
(* too, since connection_or_flushed_some drains it into the outbuf.        *)
(***************************************************************************)
Now(idle) ==
  [inbuf |-> inbuf, reading |-> reading, spw |-> spw, pw |-> pw,
   blocked |-> blocked, queue |-> queue, wire |-> wire, idle |-> idle]

Becomes(e) ==
  /\ inbuf' = e.inbuf /\ reading' = e.reading /\ spw' = e.spw /\ pw' = e.pw
  /\ blocked' = e.blocked /\ queue' = e.queue /\ wire' = e.wire

Edges ==
  [inbuf : [Streams -> Nat], reading : [Streams -> BOOLEAN],
   spw : [Streams -> Nat], pw : Nat, blocked : BOOLEAN,
   queue : Seq(Cells), wire : Seq(Cells), idle : BOOLEAN]

CanBeIdle == IF queue = <<>> THEN BOOLEAN ELSE {FALSE}

Silent == [s \in Streams |-> FALSE]

\* append_cell_to_circuit_queue and set_streams_blocked_on_circ(1), for k cells
\* of one stream in a row: an idle connection is primed with the first one at
\* once; a queue that reaches the mark blocks every stream; a cell from a
\* stream that nobody blocked yet blocks that stream.
AppendCells(e, cell, k) ==
  LET primed == IF e.idle /\ k > 0 THEN 1 ELSE 0
      n == Len(e.queue) + k - primed
      copies(m) == [i \in 1 .. m |-> cell]
      reads == IF e.blocked THEN [e.reading EXCEPT ![cell.stream] = @ /\ k = 0]
               ELSE IF n >= High THEN Silent
               ELSE e.reading
  IN  [e EXCEPT
        !.idle = @ /\ k = 0,
        !.wire = @ \o copies(primed),
        !.queue = @ \o copies(k - primed),
        !.blocked = @ \/ n >= High,
        !.reading = reads]

\* Mutant: the circuit's window is tested before the loop and not in it.
Packable_CircuitOnce(e, s, max) ==
  IF e.pw = 0 THEN 0 ELSE Min({e.inbuf[s], e.spw[s], max})

\* How many cells the loop of connection_edge_package_raw_inbuf packages,
\* given max_cells.
Packable(e, s, max) == Min({e.inbuf[s], e.spw[s], e.pw, max})

\* connection_edge_package_raw_inbuf with package_partial set: an empty
\* circuit window stops every stream, an empty stream window this one.
PackageRaw(e, s, max) ==
  LET k == Packable(e, s, max)
      reads(f) == IF f.pw = k THEN Silent
                  ELSE IF f.spw[s] = k THEN [f.reading EXCEPT ![s] = FALSE]
                  ELSE f.reading
      f == AppendCells(e, Cell("DATA", s), k)
  IN  [f EXCEPT !.inbuf[s] = @ - k, !.spw[s] = @ - k, !.pw = @ - k,
                !.reading = reads(f)]

NoMax == CircStart + 1

\* What max_cells loses: the cell that uses up the stream's window is not
\* subtracted.
Counted(e, s, max) ==
  LET k == Packable(e, s, max)
  IN  IF k > 0 /\ k = e.spw[s] THEN k - 1 ELSE k

CeilDiv(a, b) == (a + b - 1) \div b

\* The streams circuit_resume_edge_reading_helper looks at.
Resumable(e) == {s \in Streams : pstream[s] = "open" /\ e.spw[s] > 0}

\* Where the helper's loops are: the stream it is at, the share of each stream
\* in this round, what the round has packaged and how many streams it left
\* with data, and the budget the round began with.
Turns == [edge : Edges, at : Nat, share : Nat, packaged : Nat, left : Nat, budget : Nat]

NewRound(e, budget, ready) ==
  [edge |-> e, at |-> 1, share |-> CeilDiv(budget, ready),
   packaged |-> 0, left |-> 0, budget |-> budget]

\* The packaging rounds: every stream in list order packages up to its share,
\* until the circuit's window is empty; then another round if this one made
\* progress, the budget is not used up and a stream has data left.
PackagingFrom[t \in Turns] ==
  IF t.at > Len(StreamList)
    THEN IF t.packaged \in 1 .. t.budget - 1 /\ t.left > 0
           THEN PackagingFrom[NewRound(t.edge, t.budget - t.packaged, t.left)]
           ELSE t.edge
    ELSE LET s == StreamList[t.at]
             f == PackageRaw(t.edge, s, t.share)
         IN  IF s \notin Resumable(t.edge)
               THEN PackagingFrom[[t EXCEPT !.at = @ + 1]]
             ELSE IF f.pw = 0
               THEN f
             ELSE PackagingFrom[[t EXCEPT
                    !.at = @ + 1,
                    !.edge = f,
                    !.packaged = @ + Counted(t.edge, s, t.share),
                    !.left = @ + (IF f.inbuf[s] > 0 THEN 1 ELSE 0)]]

\* Mutant: asks about the queue in the other direction.
StreamsAreBlocked_WrongQueue(e) == FALSE

\* circuit_queue_streams_are_blocked.
StreamsAreBlocked(e) == e.blocked

\* circuit_resume_edge_reading and its helper.  At an origin the budget comes
\* from the circuit_t's own package_window, which nothing there ever spends.
Resume(e) ==
  LET room == Min({IF AtOrigin THEN CircInitial ELSE e.pw, High - Len(e.queue)})
      woken == [e EXCEPT !.reading =
                  [s \in Streams |-> @[s] \/ s \in Resumable(e) \ Library]]
      ready == Cardinality({s \in Resumable(e) : e.inbuf[s] > 0})
  IN  IF StreamsAreBlocked(e) THEN e
      ELSE IF ready = 0 THEN woken
      ELSE PackagingFrom[NewRound(woken, room, ready)]
-----------------------------------------------------------------------------
(* The packaging end. *)

\* The stream is attached and open: the event loop starts reading from it.
Open(s) ==
  /\ circ = "open" /\ pstream[s] = "new"
  /\ pstream' = [pstream EXCEPT ![s] = "open"]
  /\ reading' = [reading EXCEPT ![s] = s \notin Library]
  /\ UNCHANGED <<supply, inbuf, spw, pw, blocked, queue, wire, back, deliverer, circ>>

\* Mutant: end of file closes the stream with data on its inbuf.
ReachedEof_DropsInbuf(eof, left) == eof

\* connection_edge_reached_eof: "it still has stuff to process".
ReachedEof(eof, left) == eof /\ left = 0

\* connection_handle_read_impl on an edge connection: k cells come in, what the
\* windows allow is packaged, and at eof connection_edge_reached_eof sends an
\* END, unless the inbuf still holds something.
Read(s, k, eof, idle) ==
  /\ circ = "open" /\ pstream[s] = "open" /\ reading[s]
  /\ k \in 0 .. supply[s]
  /\ eof => k = supply[s]
  /\ k > 0 \/ eof
  /\ supply' = [supply EXCEPT ![s] = @ - k]
  /\ UNCHANGED <<back, deliverer, circ>>
  /\ \E e \in {PackageRaw([Now(idle) EXCEPT !.inbuf[s] = @ + k], s, NoMax)} :
       LET done == ReachedEof(eof, e.inbuf[s])
       IN  /\ pstream' = [pstream EXCEPT ![s] = IF done THEN "closed" ELSE @]
           /\ \E f \in {IF done THEN [AppendCells(e, Cell("END", s), 1) EXCEPT
                                       !.reading[s] = FALSE]
                       ELSE e} : Becomes(f)

\* write_command_processor and onionroute_stream_write_i: a library stream has
\* no read event, so neither blocking nor an empty window holds a write back.
Write(s, k, idle) ==
  /\ circ = "open" /\ pstream[s] = "open" /\ s \in Library
  /\ k \in 1 .. supply[s]
  /\ supply' = [supply EXCEPT ![s] = @ - k]
  /\ \E e \in {PackageRaw([Now(idle) EXCEPT !.inbuf[s] = @ + k], s, NoMax)} :
       Becomes(e)
  /\ UNCHANGED <<pstream, back, deliverer, circ>>

\* Mutant: "<" for "<=" at the low water mark.
IsLow_Strict(n) == n < Low

IsLow(n) == n <= Low

\* Mutant: the streams are marked unblocked and their reading is not restarted.
Restarted_Forgotten(s) == reading[s]

\* set_streams_blocked_on_circ(0), for a stream with a read event.
Restarted(s) == reading[s] \/ (pstream[s] = "open" /\ s \notin Library)

\* connection_or_flush_from_first_active_circuit with max 1, the way
\* connection_or_flushed_some calls it: at the low water mark every stream on
\* the circuit reads again, whatever its window and whatever its inbuf holds.
Flush ==
  /\ circ = "open" /\ queue # <<>>
  /\ wire' = Append(wire, Head(queue))
  /\ queue' = Tail(queue)
  /\ IF blocked /\ IsLow(Len(queue'))
       THEN /\ blocked' = FALSE
            /\ reading' = [s \in Streams |-> Restarted(s)]
       ELSE UNCHANGED <<blocked, reading>>
  /\ UNCHANGED <<pstream, supply, inbuf, spw, pw, back, deliverer, circ>>

Kill == circ' = "killed" /\ UNCHANGED <<packager, wire, back, deliverer>>

NextBack(c) == circ = "open" /\ back # <<>> /\ Head(back).cmd = c
TakeBack == back' = Tail(back)

\* RELAY_COMMAND_SENDME with stream id 0.
CircuitSendme(idle) ==
  /\ NextBack("SENDME") /\ Head(back).stream = Circuit
  /\ IF pw + CircIncrement > CircStart
       THEN Kill
       ELSE /\ TakeBack
            /\ \E e \in {Resume([Now(idle) EXCEPT !.pw = @ + CircIncrement])} :
                 Becomes(e)
            /\ UNCHANGED <<pstream, supply, deliverer, circ>>

\* RELAY_COMMAND_SENDME for a stream: ignored if it is gone or the library's;
\* while the queue is blocked only the window grows.
StreamSendme(s, idle) ==
  LET e == [Now(idle) EXCEPT !.spw[s] = @ + StreamIncrement]
  IN  /\ NextBack("SENDME") /\ Head(back).stream = s
      /\ TakeBack
      /\ \E f \in {IF pstream[s] # "open" \/ s \in Library THEN Now(idle)
                  ELSE IF StreamsAreBlocked(e) THEN e
                  ELSE PackageRaw([e EXCEPT !.reading[s] = TRUE], s, NoMax)} :
           Becomes(f)
      /\ UNCHANGED <<pstream, supply, deliverer, circ>>

\* RELAY_COMMAND_END: the stream goes, with what its inbuf held.
StreamEnd(s) ==
  /\ NextBack("END") /\ Head(back).stream = s
  /\ TakeBack
  /\ pstream' = [pstream EXCEPT ![s] = "closed"]
  /\ supply' = [supply EXCEPT ![s] = 0]
  /\ inbuf' = [inbuf EXCEPT ![s] = 0]
  /\ reading' = [reading EXCEPT ![s] = FALSE]
  /\ UNCHANGED <<spw, pw, blocked, queue, wire, deliverer, circ>>
-----------------------------------------------------------------------------
(* The delivering end. *)

\* The SENDMEs of one top-up loop and the window it leaves.
Due(window, start, inc) ==
  IF window > start - inc THEN 0 ELSE (start - inc - window) \div inc + 1

\* Mutant: one SENDME for a top-up of several rounds.
Sendmes_AtMostOne(s, n) == [i \in 1 .. Min({n, 1}) |-> Cell("SENDME", s)]

Sendmes(s, n) == [i \in 1 .. n |-> Cell("SENDME", s)]

NextForward(c) == circ = "open" /\ wire # <<>> /\ Head(wire).cmd = c

\* connection_edge_consider_sending_sendme: how many for stream s, given what
\* its window and its outbuf have just become.
StreamDue(s, window, out) ==
  IF out > OutbufFull THEN 0 ELSE Due(window, StreamStart, StreamIncrement)

Here(s) == dstream[s] \in {"open", "connecting"}

\* Mutant: a cell for an unknown stream is dropped before it is counted.
CircuitWindowTaking_KnownOnly(s) == IF Here(s) THEN dw - 1 ELSE dw

\* What a DATA cell, of whatever stream, leaves of the circuit's window.
CircuitWindowTaking(s) == dw - 1

\* RELAY_COMMAND_DATA: the circuit's accounts come first and are kept even for
\* a stream that is gone; optimistic data is never acknowledged on arrival.
Data(s) ==
  LET left == CircuitWindowTaking(s)
      m == Due(left, CircStart, CircIncrement)
      out == outbuf[s] + 1
      n == IF dstream[s] = "open" THEN StreamDue(s, sdw[s] - 1, out) ELSE 0
  IN  /\ NextForward("DATA") /\ Head(wire).stream = s
      /\ IF left < 0 \/ (Here(s) /\ sdw[s] - 1 < 0)
           THEN Kill
           ELSE /\ wire' = Tail(wire)
                /\ dw' = left + m * CircIncrement
                /\ back' = back \o Sendmes(Circuit, m) \o Sendmes(s, n)
                /\ IF Here(s)
                     THEN /\ sdw' = [sdw EXCEPT ![s] = @ - 1 + n * StreamIncrement]
                          /\ outbuf' = [outbuf EXCEPT ![s] = out]
                          /\ got' = [got EXCEPT ![s] = @ + 1]
                     ELSE UNCHANGED <<sdw, outbuf, got>>
                /\ UNCHANGED <<packager, dstream, circ>>

\* RELAY_COMMAND_END: mark and flush; an unknown stream is ignored.
End(s) ==
  /\ NextForward("END") /\ Head(wire).stream = s
  /\ wire' = Tail(wire)
  /\ dstream' = [dstream EXCEPT ![s] = IF @ = "hungup" THEN @ ELSE "ended"]
  /\ UNCHANGED <<packager, back, sdw, dw, outbuf, got, circ>>

\* connection_edge_finished_connecting.
Connected(s) ==
  /\ circ = "open" /\ dstream[s] = "connecting"
  /\ dstream' = [dstream EXCEPT ![s] = "open"]
  /\ UNCHANGED <<packager, wire, back, sdw, dw, outbuf, got, circ>>

\* connection_edge_flushed_some and connection_edge_finished_flushing.
Drain(s) ==
  LET n == StreamDue(s, sdw[s], outbuf[s] - 1)
  IN  /\ circ = "open" /\ dstream[s] = "open" /\ outbuf[s] > 0
      /\ outbuf' = [outbuf EXCEPT ![s] = @ - 1]
      /\ sdw' = [sdw EXCEPT ![s] = @ + n * StreamIncrement]
      /\ back' = back \o Sendmes(s, n)
      /\ UNCHANGED <<packager, wire, dstream, dw, got, circ>>

\* The delivering side's application closes: connection_edge_reached_eof there.
Hangup(s) ==
  /\ circ = "open" /\ s \in HangUp /\ dstream[s] = "open"
  /\ dstream' = [dstream EXCEPT ![s] = "hungup"]
  /\ back' = Append(back, Cell("END", s))
  /\ UNCHANGED <<packager, wire, sdw, dw, outbuf, got, circ>>
-----------------------------------------------------------------------------
ReadSome(s) ==
  \E k \in 0 .. supply[s], eof \in BOOLEAN, idle \in CanBeIdle : Read(s, k, eof, idle)

TakeCircuitSendme == \E idle \in CanBeIdle : CircuitSendme(idle)
TakeStreamSendme(s) == \E idle \in CanBeIdle : StreamSendme(s, idle)

\* What libevent and the network do sooner or later.
Progress ==
  /\ UNCHANGED side
  /\ \/ Flush
     \/ \E s \in Streams : Open(s) \/ Data(s) \/ End(s) \/ Connected(s) \/ Drain(s)
     \/ \E s \in Streams : StreamEnd(s) \/ TakeStreamSendme(s) \/ ReadSome(s)
     \/ TakeCircuitSendme

Next ==
  \/ Progress
  \/ /\ UNCHANGED side
     /\ \E s \in Streams :
          Hangup(s) \/ \E k \in 1 .. supply[s], idle \in CanBeIdle : Write(s, k, idle)

Spec == Init /\ [][Next]_vars

\* The weakest fairness that uses the scheduling of the code: while libevent
\* has an event to report or a cell is in flight, something happens.  Nobody
\* is bound to hang up or to write.
Fairness == WF_vars(Progress)

FairSpec == Spec /\ Fairness
-----------------------------------------------------------------------------
TypeOK ==
  /\ side \in Sides
  /\ pstream \in [Streams -> {"new", "open", "closed"}]
  /\ supply \in [Streams -> Nat] /\ inbuf \in [Streams -> Nat]
  /\ reading \in [Streams -> BOOLEAN] /\ blocked \in BOOLEAN
  /\ spw \in [Streams -> Nat] /\ pw \in Nat
  /\ queue \in Seq(Cells) /\ wire \in Seq(Cells) /\ back \in Seq(Cells)
  /\ dstream \in [Streams -> {"connecting", "open", "ended", "hungup"}]
  /\ sdw \in [Streams -> Nat] /\ dw \in Nat
  /\ outbuf \in [Streams -> Nat] /\ got \in [Streams -> Nat]
  /\ circ \in {"open", "killed"}

Count(q, C) == Cardinality({i \in DOMAIN q : q[i] \in C})
InFlight(C) == Count(queue, C) + Count(wire, C)

Live == circ = "open"
IfLive(x) == IF Live THEN x ELSE 0

\* The circuit's window is a WindowProtocol: whatever the streams, the queue
\* and the water marks do, its accounts are those of that module.
CircuitWindow == INSTANCE WindowProtocol WITH
  Start <- CircStart, Limit <- CircStart, Increment <- CircIncrement,
  Initial <- CircInitial, Checked <- TRUE, Eager <- TRUE,
  package <- IfLive(pw), deliver <- IfLive(dw),
  data <- IfLive(InFlight({Cell("DATA", s) : s \in Streams})),
  sendmes <- IfLive(Count(back, {Cell("SENDME", Circuit)})),
  life <- IF Live THEN "open" ELSE "killed"

ImplementsCircuitWindow == CircuitWindow!Spec

Both(s) == pstream[s] # "closed" /\ dstream[s] \in {"connecting", "open"}
IfBoth(s, x) == IF Live /\ Both(s) THEN x ELSE 0

\* So is the window of every stream that is not the library's, until one of
\* its ends closes it: cells of a stream that is gone are on no account of it.
StreamWindow(s) == INSTANCE WindowProtocol WITH
  Start <- StreamStart, Limit <- StreamStart, Increment <- StreamIncrement,
  Initial <- StreamStart, Checked <- FALSE, Eager <- FALSE,
  package <- IfBoth(s, spw[s]), deliver <- IfBoth(s, sdw[s]),
  data <- IfBoth(s, InFlight({Cell("DATA", s)})),
  sendmes <- IfBoth(s, Count(back, {Cell("SENDME", s)})),
  life <- IF ~Live THEN "killed" ELSE IF Both(s) THEN "open" ELSE "ended"

ImplementsStreamWindows ==
  /\ \A s \in Streams : s \in Library \/ StreamWindow(s)!Init
  /\ [][\A s \in Streams : s \in Library \/
          [StreamWindow(s)!Next]_(StreamWindow(s)!vars)]_vars

\* Both kinds of window are windows of WindowProtocol.
ImplementsWindows == ImplementsCircuitWindow /\ ImplementsStreamWindows

\* Nobody is left blocked with nothing to wait for: while streams are blocked
\* the queue is above the low water mark, so a flush is to come that unblocks.
BlockedHasQueue == blocked => Len(queue) > Low

\* While the queue is too long no stream that has packaged anything is read:
\* not one that a SENDME woke, nor one that opened since the block and has
\* sent its first cell.
BlockedIsSilent ==
  \A s \in Streams : blocked /\ reading[s] => spw[s] = StreamStart

\* An END never overtakes or replaces data: a stream that ended in order has
\* handed the other side everything its application wrote.
EndAfterData == \A s \in Streams : dstream[s] = "ended" => got[s] = Supply[s]

\* Everything an application wrote before it closed reaches the other end and
\* the stream is closed there, through every block and every empty window.
Delivered ==
  \A s \in Streams : <>(s \in Library \/ dstream[s] \in {"ended", "hungup"})

\* What blocks, and what ends, does so in order: a block has a queue whose flush
\* ends it, nothing is read meanwhile but what a stream owes to a SENDME, and no
\* END overtakes the data of its stream.
BlocksEnd == BlockedHasQueue /\ BlockedIsSilent /\ EndAfterData
=============================================================================
