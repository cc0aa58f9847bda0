---------------------------- MODULE ConnectionIO ----------------------------
(***************************************************************************)
(* connection.c and main.c: the events a connection waits for, the token   *)
(* buckets that stop it from reading and writing, the linked connections   *)
(* that read from one another, and the closing of connections that are     *)
(* marked.  Bytes are counted, not named.  An operator that may end in     *)
(* several ways is the set of worlds it may leave.                         *)
(***************************************************************************)
EXTENDS Integers, FiniteSetsExt

CONSTANTS
  Scenes,      \* what connections there are: functions from connections to kinds
  Rate, Burst, \* of every bucket
  Base,        \* the size of a cell
  MinFlush,    \* MIN_TLS_FLUSHLEN
  MaxData,     \* bound: bytes to be written and to arrive
  MaxOthers,   \* bound: how often the other connections empty the buckets
  TimerErrors  \* TRUE: a socket may break while a timer writes to it
VARIABLES
  conn,
  glob,   \* global_read_bucket, global_write_bucket and the relayed ones
  list,   \* active_linked_connection_lst
  failed, \* an assertion has failed
  left, others
vars == <<conn, glob, list, failed, left, others>>

Cells == {"client", "relay"}
Relayed == {"relay", "dir"}
Limited == Cells \cup {"exit", "dir"}
Least(a, b) == IF a < b THEN a ELSE b
Conns == DOMAIN conn
World == [conn |-> conn, glob |-> glob, list |-> list, failed |-> failed]

Fresh(kind, peer) ==
  [kind |-> kind, peer |-> peer, alive |-> TRUE, open |-> kind # "linked", marked |-> FALSE,
   hold |-> FALSE, reading |-> TRUE, writing |-> FALSE, rblocked |-> FALSE, wblocked |-> FALSE,
   active |-> FALSE, unread |-> 0, hangup |-> FALSE, eof |-> FALSE, out |-> 0, raw |-> 0,
   rbucket |-> IF kind \in Cells THEN Burst ELSE 0, wbucket |-> IF kind \in Cells THEN Burst ELSE 0,
   wants |-> TRUE, sent |-> 0, got |-> 0, cut |-> FALSE]
Gone(c) == [Fresh(c.kind, c.peer) EXCEPT !.alive = FALSE, !.open = FALSE, !.reading = FALSE,
              !.rbucket = 0, !.wbucket = 0, !.sent = c.sent, !.got = c.got, !.cut = c.cut]

\* connection_bucket_init; the two ends of a link are each other's peer.
Init ==
  /\ \E scene \in Scenes :
       conn = [i \in DOMAIN scene |->
                 Fresh(scene[i], IF scene[i] = "linked" THEN CHOOSE j \in DOMAIN scene \ {i} : TRUE ELSE i)]
  /\ glob = [r |-> Burst, w |-> Burst, rr |-> Burst, rw |-> Burst]
  /\ list = {} /\ failed = FALSE /\ left = MaxData /\ others = 0
-----------------------------------------------------------------------------
(* What one connection does to the world *)

Peered(w, i) == w.conn[i].kind = "linked" /\ w.conn[w.conn[i].peer].alive

\* connection_start_reading_from_linked_conn and its opposite, with their asserts.
Activate(w, i) ==
  IF w.conn[i].active THEN [w EXCEPT !.failed = @ \/ i \notin w.list]
  ELSE [w EXCEPT !.conn[i].active = TRUE, !.list = @ \cup {i}]
Deactivate(w, i) ==
  IF w.conn[i].active THEN [w EXCEPT !.conn[i].active = FALSE, !.list = @ \ {i}]
  ELSE [w EXCEPT !.failed = @ \/ i \in w.list]

ShouldReadLinked(w, i) ==
  LET p == w.conn[w.conn[i].peer]
  IN  w.conn[i].kind = "linked" /\ w.conn[i].reading /\ (Peered(w, i) => p.writing /\ p.out > 0)

StartReading(w, i) ==
  LET v == [w EXCEPT !.conn[i].reading = TRUE]
  IN  IF w.conn[i].kind # "linked" THEN [v EXCEPT !.failed = @ \/ ~w.conn[i].open]
      ELSE IF ShouldReadLinked(v, i) THEN Activate(v, i) ELSE v
StopReading(w, i) ==
  LET v == [w EXCEPT !.conn[i].reading = FALSE]
  IN  IF w.conn[i].kind = "linked" THEN Deactivate(v, i) ELSE v
StartWriting(w, i) ==
  LET v == [w EXCEPT !.conn[i].writing = TRUE]
      p == w.conn[i].peer
  IN  IF w.conn[i].kind # "linked" THEN [v EXCEPT !.failed = @ \/ ~w.conn[i].open]
      ELSE IF Peered(w, i) /\ ShouldReadLinked(v, p) THEN Activate(v, p) ELSE v
StopWriting(w, i) ==
  LET v == [w EXCEPT !.conn[i].writing = FALSE]
  IN  IF w.conn[i].kind # "linked" THEN [v EXCEPT !.failed = @ \/ ~w.conn[i].open]
      ELSE IF Peered(w, i) THEN Deactivate(v, w.conn[i].peer) ELSE v

Mark(w, i) == IF w.conn[i].marked THEN w ELSE [w EXCEPT !.conn[i].marked = TRUE]
MarkAndFlush(w, i) == [Mark(w, i) EXCEPT !.conn[i].hold = TRUE]

\* connection_close_immediate, and the mark it is always followed by.
Break(w, i) ==
  Mark([w EXCEPT !.conn[i].open = FALSE, !.conn[i].reading = FALSE, !.conn[i].writing = FALSE,
                 !.conn[i].out = 0, !.conn[i].cut = TRUE], i)
-----------------------------------------------------------------------------
(* Token buckets *)

\* connection_bucket_round_robin: "an upper limit (if non-negative)" is limit.
RoundRobin(priority, global, limit) ==
  LET most == (IF priority THEN 32 ELSE 16) * Base
      least == (IF priority THEN 4 ELSE 2) * Base
      eighth == (global \div 8) - ((global \div 8) % Base)
      turn == Least(global, IF eighth > most THEN most ELSE IF eighth < least THEN least ELSE eighth)
      n == IF limit >= 0 THEN Least(turn, limit) ELSE turn
  IN  IF n < 0 THEN 0 ELSE n

ReadLimit(w, i) ==
  LET c == w.conn[i]
      own == IF c.kind \in Cells THEN c.rbucket ELSE -1
      global == IF c.kind \in Relayed THEN Least(w.glob.rr, w.glob.r) ELSE w.glob.r
  IN  IF c.kind \notin Limited THEN MaxData ELSE RoundRobin(c.kind # "dir", global, own)
WriteLimit(w, i) ==
  LET c == w.conn[i]
      own == IF c.kind \in Cells /\ c.wbucket < c.out THEN (IF c.wbucket >= 0 THEN c.wbucket ELSE 0) ELSE c.out
      global == IF c.kind \in Relayed THEN Least(w.glob.rw, w.glob.w) ELSE w.glob.w
  IN  IF c.kind \notin Limited THEN c.out ELSE RoundRobin(c.kind # "dir", global, own)

\* connection_buckets_decrement.
Spend(w, i, nr, nw) ==
  LET c == w.conn[i]
      relayed == IF c.kind \in Relayed THEN 1 ELSE 0
      own == IF c.kind \in Cells THEN 1 ELSE 0
  IN  IF c.kind \notin Limited THEN w
      ELSE [w EXCEPT !.glob = [r |-> @.r - nr, w |-> @.w - nw,
                               rr |-> @.rr - relayed * nr, rw |-> @.rw - relayed * nw],
                     !.conn[i].rbucket = @ - own * nr, !.conn[i].wbucket = @ - own * nw]

MayRead(w, i) ==
  LET c == w.conn[i]
  IN  w.glob.r > 0 /\ (c.kind \in Relayed => w.glob.rr > 0) /\ (c.kind \in Cells => c.rbucket > 0)
MayWrite(w, i) ==
  LET c == w.conn[i]
  IN  w.glob.w > 0 /\ (c.kind \in Relayed => w.glob.rw > 0) /\ (c.kind \in Cells => c.wbucket > 0)
BlockRead(w, i) == StopReading([w EXCEPT !.conn[i].rblocked = TRUE], i)
BlockWrite(w, i) == StopWriting([w EXCEPT !.conn[i].wblocked = TRUE], i)

\* connection_consider_empty_read_buckets and ..._write_buckets: they ask also
\* of a connection that is not rate limited.
ConsiderRead(w, i) == IF MayRead(w, i) THEN w ELSE BlockRead(w, i)
ConsiderWrite(w, i) == IF MayWrite(w, i) THEN w ELSE BlockWrite(w, i)

Refilled(b) == IF b < Burst THEN Least(Burst, b + Rate) ELSE b
Woken_ReadersOnly(w, i) ==
  IF w.conn[i].rblocked /\ MayRead(w, i)
  THEN StartReading([w EXCEPT !.conn[i].rblocked = FALSE], i) ELSE w
Woken(w, i) ==
  LET v == IF w.conn[i].rblocked /\ MayRead(w, i)
           THEN StartReading([w EXCEPT !.conn[i].rblocked = FALSE], i) ELSE w
  IN  IF v.conn[i].wblocked /\ MayWrite(v, i)
      THEN StartWriting([v EXCEPT !.conn[i].wblocked = FALSE], i) ELSE v
\* connection_bucket_refill.
RefillAll(w) ==
  LET full == [w EXCEPT !.glob = [f \in DOMAIN @ |-> Refilled(@[f])],
                        !.conn = [i \in DOMAIN @ |->
                                    IF @[i].alive /\ @[i].kind \in Cells
                                    THEN [@[i] EXCEPT !.rbucket = Refilled(@), !.wbucket = Refilled(@)]
                                    ELSE @[i]]]
  IN  FoldSet(LAMBDA i, v : Woken(v, i), full, {i \in DOMAIN w.conn : w.conn[i].alive})
-----------------------------------------------------------------------------
(* Closing *)

Unlink_Silent(w, i) ==
  [w EXCEPT !.conn[i] = Gone([@ EXCEPT !.cut = @ \/ w.conn[i].out > 0]), !.list = @ \ {i}]

\* connection_unlink.
Unlink(w, i) ==
  LET p == w.conn[i].peer
      v == [w EXCEPT !.conn[i] = Gone([@ EXCEPT !.cut = @ \/ w.conn[i].out > 0]), !.list = @ \ {i}]
  IN  IF Peered(w, i) /\ ~w.conn[p].marked /\ w.conn[p].reading THEN StartReading(v, p) ELSE v

\* What of n bytes a socket may take, or -1: a TLS connection that would have
\* to wait is an error where it is closed.
Takes(n) == {0, n, -1}

\* conn_close_if_marked.
CloseIfMarked(w, i) ==
  LET c == w.conn[i]
      sz == WriteLimit(w, i)
      flushed(n) == [w EXCEPT !.conn[i].out = @ - n]
      rest(n) == IF c.hold /\ n >= 0 /\ c.out > n
                 THEN IF n > 0 \/ sz > 0 THEN flushed(n)
                      ELSE LET v == IF c.writing THEN BlockWrite(w, i) ELSE w
                           IN  IF c.reading THEN BlockRead(v, i) ELSE v
                 ELSE Unlink(IF n > 0 THEN flushed(n) ELSE w, i)
  IN  IF ~c.alive \/ ~c.marked THEN {w}
      ELSE IF c.out > 0 /\ Peered(w, i)
      THEN {Unlink(Activate([w EXCEPT !.conn[i].out = 0, !.conn[c.peer].got = @ + c.out], c.peer), i)}
      ELSE IF c.out > 0 /\ c.open THEN {rest(n) : n \in Takes(Least(sz, c.out))}
      ELSE {Unlink(w, i)}
CloseMarked(w) ==
  FoldSet(LAMBDA i, ws : UNION {CloseIfMarked(v, i) : v \in ws}, {w}, DOMAIN w.conn)
-----------------------------------------------------------------------------
(* Writing and reading *)

\* The end of connection_handle_write_impl, when n bytes of the buffer went and
\* nr and nw bytes are charged.
Wrote(w, i, n, nr, nw) ==
  LET v == Spend([w EXCEPT !.conn[i].out = @ - n], i, nr, nw)
      done == StopWriting(v, i)
      more == ConsiderWrite(v, i)
  IN  IF v.conn[i].out = 0 THEN {done} \cup IF w.conn[i].kind = "dir" THEN {Mark(done, i)} ELSE {}
      ELSE {IF nr > 0 /\ more.conn[i].reading THEN ConsiderRead(more, i) ELSE more}

\* connection_handle_write_impl.  What TLS wrote before it had to wait is
\* charged later; errors says whether the socket may be found broken.
HandleWrite(w, i, errors) ==
  LET c == w.conn[i]
      n == WriteLimit(w, i)
      waits(m) == [w EXCEPT !.conn[i].out = @ - m, !.conn[i].raw = @ + m]
      tls == UNION {Wrote([w EXCEPT !.conn[i].raw = 0], i, n, nr, c.raw + n) : nr \in 0 .. Least(n, 1)}
             \cup {waits(m) : m \in {0} \cup {k \in {n - 1} : k > 0}}
             \cup {IF c.reading THEN w ELSE BlockWrite(w, i)}
      plain == Wrote(w, i, n, 0, n) \cup Wrote(w, i, 0, 0, 0)
  IN  IF c.marked \/ ~c.open THEN {w}
      ELSE (IF c.kind \in Cells THEN tls ELSE plain) \cup IF errors THEN {Break(w, i)} ELSE {}

\* _connection_write_to_buf_impl: a full TLS record is tried at once, and no
\* more than that.
WriteToBuf(w, i, n, errors) ==
  LET v == StartWriting([w EXCEPT !.conn[i].out = @ + n, !.conn[i].sent = IF w.conn[i].kind = "linked" THEN @ + n ELSE 0], i)
      out == v.conn[i].out
      extra == out - MinFlush
      again(u) == IF extra = 0 \/ u.conn[i].marked THEN u
                  ELSE StartWriting([u EXCEPT !.conn[i].out = @ + extra], i)
  IN  IF w.conn[i].kind \in Cells /\ out - n < MinFlush /\ out >= MinFlush
      THEN {again(u) : u \in HandleWrite([v EXCEPT !.conn[i].out = MinFlush], i, errors)}
      ELSE {v}

\* connection_read_to_buf on a socket that gives n bytes.
ReadSocket(w, i, n, overhead) ==
  LET c == w.conn[i]
      v == Spend([w EXCEPT !.conn[i].unread = @ - n, !.conn[i].raw = 0], i, n + overhead, c.raw)
      u == ConsiderRead(v, i)
  IN  IF c.raw > 0 /\ u.conn[i].writing THEN ConsiderWrite(u, i) ELSE u

\* connection_process_inbuf: it may find reason to close the connection.
Process(w, i) == {w, Mark(w, i), MarkAndFlush(w, i)}

\* connection_reached_eof; an edge that may not read now still has something to process.
ReachedEof(w, i) == IF w.conn[i].marked THEN {w} ELSE {Mark(w, i)} \cup IF w.conn[i].wants THEN {} ELSE {w}

\* connection_handle_read_impl of a socket.
HandleRead(w, i) ==
  LET c == w.conn[i]
      lim == ReadLimit(w, i)
      n == Least(lim, c.unread)
      read == IF c.kind \in Cells
              THEN {ReadSocket(w, i, n, o) : o \in 0 .. Least(n, 1)} \cup {StartWriting(w, i)}
              ELSE {ReadSocket(w, i, n, 0)}
      eof == c.hangup /\ c.unread = 0 /\ lim > 0
  IN  IF c.marked THEN {w}
      ELSE IF eof /\ c.kind \notin Cells THEN {Mark(ReadSocket(w, i, 0, 0), i)}
      ELSE (IF eof THEN {} ELSE UNION {Process(v, i) : v \in read}) \cup {Break(w, i)}

\* connection_handle_read_impl of a linked connection, with what it does for
\* the other end: connection_flushed_some and connection_finished_flushing.
HandleLinked(w, i) ==
  LET p == w.conn[i].peer
      n == IF Peered(w, i) THEN w.conn[p].out ELSE 0
      moved == [w EXCEPT !.conn[i].got = @ + n, !.conn[p].out = @ - n,
                         !.conn[i].eof = ~Peered(w, i) \/ w.conn[p].marked]
      finished(v) == IF n > 0 THEN {StopWriting(v, p), Mark(StopWriting(v, p), p)} ELSE {v}
      quiet(v) == IF v.conn[i].active THEN Deactivate(v, i) ELSE v
      rest(v) == IF v.conn[i].marked THEN {v}
                 ELSE UNION {IF v.conn[i].eof THEN ReachedEof(u, i) ELSE {u} :
                               u \in IF Peered(v, i) THEN {quiet(x) : x \in finished(v)} ELSE {v}}
  IN  IF w.conn[i].marked THEN {w}
      ELSE UNION {rest(v) : v \in Process(ConsiderRead(moved, i), i)}
-----------------------------------------------------------------------------
(* The event loop *)

Becomes(w) == conn' = w.conn /\ glob' = w.glob /\ list' = w.list /\ failed' = w.failed
AfterCallback(ws) == \E w \in UNION {CloseMarked(v) : v \in ws} : Becomes(w)

\* conn_read_callback and conn_write_callback.
ReadCallback(i) ==
  /\ conn[i].alive
  /\ IF conn[i].kind = "linked" THEN i \in list
     ELSE conn[i].open /\ conn[i].reading /\ (conn[i].unread > 0 \/ conn[i].hangup)
  /\ AfterCallback(IF conn[i].kind = "linked" THEN HandleLinked(World, i) ELSE HandleRead(World, i))
  /\ UNCHANGED <<left, others>>
WriteCallback(i) ==
  /\ conn[i].alive /\ conn[i].open /\ conn[i].writing
  /\ AfterCallback(HandleWrite(World, i, TRUE))
  /\ UNCHANGED <<left, others>>

\* What the rest of the program does with a connection, in a callback, which
\* ends with close_closeable_connections, or in a timer, which does not.
Owner(ws, timer) == IF timer THEN \E w \in ws : Becomes(w) ELSE AfterCallback(ws)
Usable(i) == conn[i].alive /\ ~conn[i].marked
OwnerWrites(i, n, timer) ==
  /\ Usable(i) /\ n <= left
  /\ Owner(WriteToBuf(World, i, n, timer => TimerErrors), timer)
  /\ left' = left - n /\ UNCHANGED others
OwnerCloses(i, hold, timer) ==
  /\ Usable(i)
  /\ Owner({IF hold THEN MarkAndFlush(World, i) ELSE Mark(World, i)}, timer)
  /\ UNCHANGED <<left, others>>
OwnerStops(i) ==
  /\ Usable(i) /\ conn[i].kind \notin Cells /\ conn[i].wants
  /\ AfterCallback({StopReading([World EXCEPT !.conn[i].wants = FALSE], i)})
  /\ UNCHANGED <<left, others>>
OwnerStarts(i) ==
  /\ Usable(i) /\ ~conn[i].wants
  /\ AfterCallback({StartReading([World EXCEPT !.conn[i].wants = TRUE], i)})
  /\ UNCHANGED <<left, others>>

\* The network.
Arrives(i) ==
  /\ conn[i].alive /\ conn[i].open /\ ~conn[i].hangup /\ left > 0
  /\ conn' = [conn EXCEPT ![i].unread = @ + 1] /\ left' = left - 1
  /\ UNCHANGED <<glob, list, failed, others>>
HangsUp(i) ==
  /\ conn[i].alive /\ conn[i].open /\ ~conn[i].hangup
  /\ conn' = [conn EXCEPT ![i].hangup = TRUE]
  /\ UNCHANGED <<glob, list, failed, left, others>>

\* refill_callback, with enough time gone by; the other connections.
Refill == RefillAll(World) # World /\ Becomes(RefillAll(World)) /\ UNCHANGED <<left, others>>
OthersSpend(f, relayed) ==
  /\ others < MaxOthers /\ glob[f] > 0
  /\ glob' = [g \in DOMAIN glob |->
                IF g = f \/ (relayed /\ <<f, g>> \in {<<"r", "rr">>, <<"w", "rw">>}) THEN Least(0, glob[g])
                ELSE glob[g]]
  /\ others' = others + 1 /\ UNCHANGED <<conn, list, failed, left>>

\* connection_expire_held_open: fifteen seconds without a write, and the
\* close_closeable_connections at the end of run_scheduled_events.
Expire(i) ==
  /\ conn[i].alive /\ conn[i].hold
  /\ AfterCallback({[World EXCEPT !.conn[i].hold = FALSE]})
  /\ UNCHANGED <<left, others>>

Next ==
  \/ \E i \in Conns :
       \/ ReadCallback(i) \/ WriteCallback(i) \/ OwnerStops(i) \/ OwnerStarts(i)
       \/ Arrives(i) \/ HangsUp(i) \/ Expire(i)
       \/ \E timer \in BOOLEAN :
            \/ \E n \in {1, 2} : OwnerWrites(i, n, timer)
            \/ \E hold \in BOOLEAN : OwnerCloses(i, hold, timer)
  \/ Refill
  \/ \E f \in {"r", "w"}, relayed \in BOOLEAN : OthersSpend(f, relayed)

\* A socket that is writable takes what is offered, until that is nothing or
\* too much; whoever has something to read is called back; time passes.
Writable(i) == i \in Conns /\ conn[i].alive /\ conn[i].open /\ conn[i].writing
Taken(i) == Writable(i) /\ WriteCallback(i) /\ (conn'[i].out < conn[i].out \/ ~conn'[i].alive \/ ~conn'[i].writing)
Readable(i) ==
  /\ i \in Conns /\ Usable(i)
  /\ IF conn[i].kind = "linked" THEN i \in list ELSE conn[i].reading /\ (conn[i].unread > 0 \/ conn[i].hangup)
Held(i) == i \in Conns /\ conn[i].alive /\ conn[i].hold
Fairness ==
  /\ []<>(RefillAll(World) = World) \/ []<><<Refill>>_vars
  /\ \A i \in {1, 2} :
       /\ <>[]~Writable(i) \/ []<><<Taken(i)>>_vars
       /\ []<>~Readable(i) \/ []<><<Readable(i) /\ ReadCallback(i)>>_vars
       /\ []<>~Held(i) \/ []<><<Held(i) /\ Expire(i)>>_vars
Spec == Init /\ [][Next]_vars /\ Fairness
-----------------------------------------------------------------------------
\* assert_connection_ok: what there is to flush is waited for or blocked.
WriterAwake(c) == c.out > 0 => c.writing \/ c.wblocked
\* Who wants to read does, or waits for tokens; a link with data is active.
ReaderAwake(i) ==
  LET c == conn[i]
  IN  Usable(i) /\ c.wants /\ ~c.eof => 
        /\ c.reading \/ c.rblocked
        /\ ShouldReadLinked(World, i) => i \in list
Awake == ~failed /\ \A i \in Conns : conn[i].alive => WriterAwake(conn[i]) /\ ReaderAwake(i)

\* A connection that is not broken and not given up takes what is written to it
\* to the other end, and the end comes last.
LinkedWhole ==
  \A i \in Conns : conn[i].kind = "linked" =>
    LET p == conn[conn[i].peer]
    IN  /\ conn[i].alive => conn[i].got + p.out = p.sent
        /\ conn[i].eof => p.out = 0

\* No connection is left asleep with something to flush or to read, no assertion
\* fails, and a linked connection takes everything over before the end.
ConnectionsSound == Awake /\ LinkedWhole

\* What is to be flushed leaves, or the socket breaks.
BuffersDrain == \A i \in {1, 2} : []<>(i \in Conns => conn[i].out = 0 \/ ~conn[i].open)
=============================================================================
