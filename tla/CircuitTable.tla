---------------------------- MODULE CircuitTable ----------------------------
(***************************************************************************)
(* The circuits of one node and the OR connections they use: the map from  *)
(* (connection, circID) to circuit (circuitlist.c), the cell queues and    *)
(* the ring of active circuits of every connection (relay.c), and the      *)
(* handlers of CREATE, CREATED, RELAY and DESTROY cells, of connections    *)
(* that open, fail and close, and of circuits that are marked and freed    *)
(* (command.c, circuitbuild.c, circuitlist.c).                             *)
(*                                                                         *)
(* A circuit has a side towards its next hop ("n") and, if it does not     *)
(* start here, one towards its previous hop ("p").  The ring is the code's *)
(* doubly linked list: next and prev hold circuits, and which side of a    *)
(* circuit is meant follows from the connection.  A cell is the link it    *)
(* was packed for; only its circID is on the wire.  The scheduling is the  *)
(* round robin of ewma_enabled = 0, the default.                           *)
(*                                                                         *)
(* Every handler runs to its end in the main thread and is one action.  A  *)
(* handler's calls are operators that take the table and return it.        *)
(***************************************************************************)
EXTENDS Integers, Sequences, FiniteSets, FiniteSetsExt, SequencesExt

CONSTANTS
  Circuits, Origins,  \* circuit_t objects, those of them that start here
  Conns,              \* OR connections, one per neighbour
  OursLow,            \* connections on which our circIDs have the high bit clear
  NumIds,             \* circIDs in each half
  MaxCells, MaxOut,   \* bounds on the length of a queue and of an outbuf
  LowMark, HighMark,  \* OR_CONN_LOWWATER and OR_CONN_HIGHWATER, in cells
  Patient,            \* do clients extend again a circuit that lost its next hop?
  Nil

Low == 1 .. NumIds
High == NumIds + 1 .. 2 * NumIds
Ids == Low \cup High
OurIds(k) == IF k \in OursLow THEN Low ELSE High
PeerIds(k) == Ids \ OurIds(k)

ASSUME TableAssumption ==
  /\ IsFiniteSet(Circuits) /\ IsFiniteSet(Conns)
  /\ Origins \subseteq Circuits /\ OursLow \subseteq Conns
  /\ NumIds \in Nat \ {0} /\ MaxCells \in Nat \ {0}
  /\ LowMark \in Nat \ {0} /\ LowMark < HighMark /\ HighMark <= MaxOut
  /\ Patient \in BOOLEAN
  /\ Nil \notin Circuits \cup Conns

Sides == Circuits \X {"n", "p"}
Link(k, id) == [conn |-> k, id |-> id]
NoLink == Link(Nil, 0)
Links == [conn : Conns, id : Ids]

VARIABLES
  status,  \* circuit_t.state: "free", "pending" (onionskin), "wait" (for an OR
           \* connection), "building", "open"
  marked,  \* marked_for_close
  hop,     \* n_hop: the neighbour the circuit waits for
  lost,    \* circuits whose next hop destroyed them: their client was told
  link,    \* {n,p}_conn and {n,p}_circ_id of every side
  map,     \* orconn_circid_map
  count,   \* or_connection_t.n_circuits
  nextid,  \* or_connection_t.next_circ_id
  queue,   \* {n,p}_conn_cells
  next, prev,  \* next_active_on_{n,p}_conn, prev_active_on_{n,p}_conn
  head,    \* active_circuits
  heap,    \* active_circuit_pqueue, as a set of sides
  out,     \* cells on the outbuf
  up,      \* "none", "connecting", "open", "closing"
  settled, \* links of the map for which a DESTROY was sent or received
  sound    \* has no tor_assert failed?

vars == <<status, marked, hop, lost, link, map, count, nextid, queue, next,
          prev, head, heap, out, up, settled, sound>>

Table ==
  [status |-> status, marked |-> marked, hop |-> hop, lost |-> lost,
   link |-> link, map |-> map, count |-> count, nextid |-> nextid,
   queue |-> queue, next |-> next, prev |-> prev, head |-> head,
   heap |-> heap, out |-> out, up |-> up, settled |-> settled, sound |-> sound]

Becomes(table) ==
  \E t \in {table} :
    /\ status' = t.status /\ marked' = t.marked /\ hop' = t.hop /\ lost' = t.lost
    /\ link' = t.link /\ map' = t.map /\ count' = t.count /\ nextid' = t.nextid
    /\ queue' = t.queue /\ next' = t.next /\ prev' = t.prev /\ head' = t.head
    /\ heap' = t.heap /\ out' = t.out /\ up' = t.up
    /\ settled' = {l \in t.settled : map[l] # Nil \/ t.map[l] # Nil}
    /\ sound' = t.sound

Init ==
  /\ status = [c \in Circuits |-> "free"]
  /\ marked = [c \in Circuits |-> FALSE]
  /\ hop = [c \in Circuits |-> Nil]
  /\ lost = {}
  /\ link = [s \in Sides |-> NoLink]
  /\ map = [l \in Links |-> Nil]
  /\ count = [k \in Conns |-> 0]
  /\ nextid = [k \in Conns |-> 1]
  /\ queue = [s \in Sides |-> <<>>]
  /\ next = [s \in Sides |-> Nil] /\ prev = [s \in Sides |-> Nil]
  /\ head = [k \in Conns |-> Nil]
  /\ heap = [k \in Conns |-> {}]
  /\ out = [k \in Conns |-> 0]
  /\ up = [k \in Conns |-> "none"]
  /\ settled = {}
  /\ sound = TRUE

-----------------------------------------------------------------------------
(* The ring of active circuits. *)

\* next_circ_on_conn_p and prev_circ_on_conn_p: the side whose pointers they read.
SideOn(t, c, k) == IF t.link[<<c, "n">>].conn = k THEN <<c, "n">> ELSE <<c, "p">>

\* Mutant: a circuit that becomes active is served before the others.
MakeActive_First(t, c, k) ==
  LET s == SideOn(t, c, k)
      first == t.head[k]
      h == SideOn(t, first, k)
      last == SideOn(t, t.prev[h], k)
      inHeap == [t EXCEPT !.heap[k] = @ \cup {s}, !.head[k] = c]
  IN  IF t.next[s] # Nil /\ t.prev[s] # Nil THEN t
      ELSE IF first = Nil THEN [inHeap EXCEPT !.next[s] = c, !.prev[s] = c]
      ELSE [inHeap EXCEPT !.next = [@ EXCEPT ![last] = c, ![s] = first],
                          !.prev = [@ EXCEPT ![h] = c, ![s] = t.prev[h]]]

\* Mutant: the new last circuit is linked forwards only.
MakeActive_OneWay(t, c, k) ==
  LET s == SideOn(t, c, k)
      first == t.head[k]
      h == SideOn(t, first, k)
      last == SideOn(t, t.prev[h], k)
      inHeap == [t EXCEPT !.heap[k] = @ \cup {s}]
  IN  IF t.next[s] # Nil /\ t.prev[s] # Nil THEN t
      ELSE IF first = Nil
        THEN [inHeap EXCEPT !.head[k] = c, !.next[s] = c, !.prev[s] = c]
        ELSE [inHeap EXCEPT !.next = [@ EXCEPT ![last] = c, ![s] = first],
                            !.prev[s] = t.prev[h]]

\* make_circuit_active_on_conn: just before the head, so last in the order.
MakeActive(t, c, k) ==
  LET s == SideOn(t, c, k)
      first == t.head[k]
      h == SideOn(t, first, k)
      last == SideOn(t, t.prev[h], k)
      inHeap == [t EXCEPT !.heap[k] = @ \cup {s}]
  IN  IF t.next[s] # Nil /\ t.prev[s] # Nil THEN t
      ELSE IF first = Nil
        THEN [inHeap EXCEPT !.head[k] = c, !.next[s] = c, !.prev[s] = c]
        ELSE [inHeap EXCEPT !.next = [@ EXCEPT ![last] = c, ![s] = first],
                            !.prev = [@ EXCEPT ![h] = c, ![s] = t.prev[h]]]

MakeInactive(t, c, k) ==
  LET s == SideOn(t, c, k)
      after == SideOn(t, t.next[s], k)
      before == SideOn(t, t.prev[s], k)
      gone == [t EXCEPT
                !.heap[k] = @ \ {s},
                !.sound = @ /\ t.next[s] # Nil /\ t.prev[s] # Nil
                            /\ t.prev[after] = c /\ t.next[before] = c,
                !.head[k] = IF after = s THEN Nil ELSE IF @ = c THEN t.next[s] ELSE @,
                !.prev = [@ EXCEPT ![after] = t.prev[s]],
                !.next = [@ EXCEPT ![before] = t.next[s]]]
  IN  IF t.next[s] = Nil /\ t.prev[s] = Nil THEN t
      ELSE [gone EXCEPT !.next[s] = Nil, !.prev[s] = Nil]

\* The circuits on the ring of k, from its head on, once around.
Ring(t, k) ==
  LET at[i \in 0 .. Cardinality(Circuits)] ==
        IF i = 0 THEN t.head[k]
        ELSE IF at[i - 1] = Nil THEN Nil ELSE t.next[SideOn(t, at[i - 1], k)]
  IN  {at[i] : i \in DOMAIN at} \ {Nil}

\* connection_or_unlink_all_active_circs.
UnlinkAllActive(t, k) ==
  LET sides == {SideOn(t, c, k) : c \in Ring(t, k)}
      cut(f) == [s \in Sides |-> IF s \in sides THEN Nil ELSE f[s]]
  IN  [t EXCEPT !.next = cut(@), !.prev = cut(@), !.head[k] = Nil, !.heap[k] = {}]

\* connection_write_to_buf: nothing is written to a connection that is closing.
Write(t, k) == IF t.up[k] = "open" THEN [t EXCEPT !.out[k] = @ + 1] ELSE t

\* connection_or_flush_from_first_active_circuit with max 1.
FlushFirst(t, k) ==
  LET c == t.head[k]
      s == SideOn(t, c, k)
      u == [Write(t, k) EXCEPT
             !.queue[s] = Tail(@),
             !.head[k] = t.next[s],
             !.sound = @ /\ t.next[s] # Nil]
  IN  IF c = Nil THEN t
      ELSE IF t.queue[s] = <<>> THEN MakeInactive([t EXCEPT !.head[k] = t.next[s]], c, k)
      ELSE IF u.queue[s] = <<>> THEN MakeInactive(u, c, k)
      ELSE u

\* Mutant: a cell that is passed on keeps the circID it came with.
AppendCell_SameId(t, c, d) ==
  LET s == <<c, d>>
      k == t.link[s].conn
      from == t.link[<<c, IF d = "n" THEN "p" ELSE "n">>]
      u == [t EXCEPT !.queue[s] = Append(@, Link(k, from.id))]
      v == IF Len(u.queue[s]) = 1 THEN MakeActive(u, c, k) ELSE u
  IN  IF t.marked[c] THEN t
      ELSE IF v.out[k] = 0 THEN FlushFirst(v, k) ELSE v

\* append_cell_to_circuit_queue: an empty outbuf is primed, with the cell of
\* whatever circuit is first on the ring.
AppendCell(t, c, d) ==
  LET s == <<c, d>>
      k == t.link[s].conn
      u == [t EXCEPT !.queue[s] = Append(@, t.link[s])]
      v == IF Len(u.queue[s]) = 1 THEN MakeActive(u, c, k) ELSE u
  IN  IF t.marked[c] THEN t
      ELSE IF v.out[k] = 0 THEN FlushFirst(v, k) ELSE v

\* The loop of connection_or_flushed_some.
TopUp(t, k) ==
  LET after[n \in 0 .. HighMark] ==
        IF n = 0 THEN t ELSE FlushFirst(after[n - 1], k)
  IN  IF t.out[k] < LowMark THEN after[HighMark - t.out[k]] ELSE t

-----------------------------------------------------------------------------
(* Links, and the end of a circuit. *)

\* circuit_get_by_circid_orconn.
Lookup(t, k, id) ==
  LET c == t.map[Link(k, id)]
  IN  IF c = Nil \/ t.marked[c] THEN Nil ELSE c

\* Mutant: the old entry of the map stays when a side moves or is detached.
SetLink_KeepsOld(t, c, d, l) ==
  LET s == <<c, d>>
      old == t.link[s]
      t1 == IF old.conn # Nil /\ t.next[s] # Nil /\ old.conn # l.conn
              THEN MakeInactive(t, c, old.conn) ELSE t
      t2 == [t1 EXCEPT !.link[s] = l, !.settled = @ \ {l}]
  IN  IF l = old THEN t
      ELSE IF l = NoLink THEN t2
      ELSE [t2 EXCEPT !.map[l] = c, !.count[l.conn] = @ + 1]

\* circuit_set_circid_orconn_helper and, when it attaches, the assertion of
\* its callers: the side is on the ring exactly if it has cells.
SetLink(t, c, d, l) ==
  LET s == <<c, d>>
      old == t.link[s]
      mapped == old \in Links /\ t.map[old] # Nil
      t1 == IF mapped THEN [t EXCEPT !.map[old] = Nil, !.count[old.conn] = @ - 1]
            ELSE t
      t2 == IF old.conn # Nil /\ t.next[s] # Nil /\ old.conn # l.conn
              THEN MakeInactive(t1, c, old.conn) ELSE t1
      t3 == [t2 EXCEPT !.link[s] = l, !.settled = @ \ {l}]
      t4 == [t3 EXCEPT !.map[l] = c, !.count[l.conn] = @ + 1]
      t5 == IF t.queue[s] # <<>> /\ old.conn # l.conn
              THEN MakeActive(t4, c, l.conn) ELSE t4
  IN  IF l = old THEN t
      ELSE IF l = NoLink THEN t3
      ELSE [t5 EXCEPT !.sound = @ /\ ((t.queue[s] # <<>>) <=> (t5.next[s] # Nil))]

\* Mutant: the cells go but the circuit stays on the ring.
ClearQueue_StaysActive(t, c, d) == [t EXCEPT !.queue[<<c, d>>] = <<>>]

\* circuit_clear_cell_queue.
ClearQueue(t, c, d) ==
  LET s == <<c, d>>
      u == IF t.queue[s] # <<>> THEN MakeInactive(t, c, t.link[s].conn) ELSE t
  IN  [u EXCEPT !.queue[s] = <<>>]

\* connection_or_send_destroy: past the queue, straight to the outbuf.
SendDestroy(t, l) == [Write(t, l.conn) EXCEPT !.settled = @ \cup ({l} \cap Links)]

\* Mutant: the neighbour is not told.
ClearAndDestroy_Silent(t, c, d) ==
  IF t.link[<<c, d>>].conn = Nil THEN t ELSE ClearQueue(t, c, d)

ClearAndDestroy(t, c, d) ==
  IF t.link[<<c, d>>].conn = Nil THEN t
  ELSE SendDestroy(ClearQueue(t, c, d), t.link[<<c, d>>])

\* _circuit_mark_for_close.
MarkForClose(t, c) ==
  IF t.marked[c] THEN t
  ELSE [ClearAndDestroy(ClearAndDestroy(t, c, "n"), c, "p") EXCEPT !.marked[c] = TRUE]

\* circuit_free: the queues are emptied after the circuit has left the map.
Free(t, c) ==
  LET u == SetLink(SetLink(t, c, "p", NoLink), c, "n", NoLink)
  IN  [u EXCEPT !.queue = [@ EXCEPT ![<<c, "n">>] = <<>>, ![<<c, "p">>] = <<>>],
                !.status[c] = "free", !.marked[c] = FALSE, !.hop[c] = Nil,
                !.lost = @ \ {c}]

\* circuit_close_all_marked, run_connection_housekeeping's sweep.
FreeMarked ==
  /\ \E c \in Circuits : marked[c]
  /\ Becomes(FoldSet(LAMBDA c, t : Free(t, c), Table, {c \in Circuits : marked[c]}))

-----------------------------------------------------------------------------
(* Extending a circuit. *)

\* get_unique_circ_id_by_conn: the first unused circID of our half from
\* next_circ_id on, 0 if there is none.
FreeIds(t, k) == {id \in OurIds(k) : t.map[Link(k, id)] = Nil}
Distance(t, k, id) == (id - t.nextid[k]) % NumIds
UniqueId(t, k) ==
  IF FreeIds(t, k) = {} THEN 0
  ELSE CHOOSE id \in FreeIds(t, k) :
         \A other \in FreeIds(t, k) : Distance(t, k, id) <= Distance(t, k, other)

\* Mutant: next_circ_id does not wrap.
DeliverCreate_NoWrap(t, c, k) ==
  LET id == UniqueId(t, k)
      set == [t EXCEPT !.link[<<c, "n">>] = Link(k, 0), !.hop[c] = Nil]
      u == SetLink([set EXCEPT !.nextid[k] = id + 1], c, "n", Link(k, id))
  IN  IF id = 0 THEN MarkForClose(set, c) ELSE AppendCell(u, c, "n")

\* circuit_deliver_create_cell, for a circuit whose n_conn has just been set
\* to k; the callers close the circuit when no circID is left.
DeliverCreate(t, c, k) ==
  LET id == UniqueId(t, k)
      set == [t EXCEPT !.link[<<c, "n">>] = Link(k, 0), !.hop[c] = Nil]
      u == SetLink([set EXCEPT !.nextid[k] = (id % NumIds) + 1], c, "n", Link(k, id))
  IN  IF id = 0 THEN MarkForClose(set, c)
      ELSE AppendCell([u EXCEPT !.status[c] = IF c \in Origins THEN "building" ELSE "open"],
                      c, "n")

\* The common end of circuit_handle_first_hop and circuit_extend: use the open
\* connection or wait for one, launching it unless it is on its way already.
\* connection_or_connect may fail at once.
ExtendTo(t, c, k) ==
  LET waiting == [t EXCEPT !.hop[c] = k, !.status[c] = "wait"]
  IN  IF t.up[k] = "open" THEN {DeliverCreate(t, c, k)}
      ELSE IF t.up[k] = "connecting" THEN {waiting}
      ELSE {[waiting EXCEPT !.up[k] = "connecting"], MarkForClose(waiting, c)}

\* circuit_establish_circuit.
Launch(c, k) ==
  /\ c \in Origins /\ status[c] = "free" /\ up[k] # "closing"
  /\ \E t \in ExtendTo([Table EXCEPT !.status[c] = "wait"], c, k) : Becomes(t)

Waiting(t, k) ==
  {c \in Circuits : t.status[c] = "wait" /\ ~t.marked[c] /\ t.hop[c] = k}

\* Mutant: a failed connection leaves the circuits that wait for it alone.
ConnDone_OnlyOpen(t, k, ok, order) ==
  IF ok THEN FoldSeq(LAMBDA c, u : DeliverCreate(u, c, k), t, order) ELSE t

\* circuit_n_conn_done, for the circuits that wait for k in the order of
\* circuits_pending_or_conns.
ConnDone(t, k, ok, order) ==
  FoldSeq(LAMBDA c, u : IF ok THEN DeliverCreate(u, c, k) ELSE MarkForClose(u, c),
          t, order)
-----------------------------------------------------------------------------
(* OR connections. *)

\* connection_or_set_state_open, for a connection that we launched, ...
ConnOpen(k) ==
  /\ up[k] = "connecting"
  /\ \E order \in SetToSeqs(Waiting(Table, k)) :
       Becomes(ConnDone([Table EXCEPT !.up[k] = "open"], k, TRUE, order))

\* ... and for one that the neighbour did.
ConnAccept(k) ==
  /\ up[k] = "none"
  /\ Becomes([Table EXCEPT !.up[k] = "open"])

\* connection_mark_for_close.
ConnMark(k) ==
  /\ up[k] = "open"
  /\ Becomes([Table EXCEPT !.up[k] = "closing"])

\* circuit_unlink_all_from_or_conn.
UnlinkAll(t, k) ==
  LET cut(c, u) ==
        LET n == u.link[<<c, "n">>].conn = k
            p == u.link[<<c, "p">>].conn = k
            v == IF n THEN SetLink(u, c, "n", NoLink) ELSE u
            w == IF p THEN SetLink(v, c, "p", NoLink) ELSE v
        IN  IF n \/ p THEN MarkForClose(w, c) ELSE u
  IN  FoldSet(cut, UnlinkAllActive(t, k), Circuits)

\* connection_or_about_to_close, then the connection is freed.
ConnClose(k) ==
  /\ up[k] \in {"connecting", "closing"}
  /\ \E order \in SetToSeqs(Waiting(Table, k)) :
       LET t == IF up[k] = "connecting" THEN ConnDone(Table, k, FALSE, order) ELSE Table
       IN  Becomes([UnlinkAll(t, k) EXCEPT
                     !.up[k] = "none", !.out[k] = 0, !.nextid[k] = 1,
                     !.settled = {l \in @ : l.conn # k}])

\* connection_handle_write: n cells leave, then connection_or_flushed_some.
Drain(k, n) ==
  /\ up[k] = "open" /\ n \in 1 .. out[k]
  /\ Becomes(TopUp([Table EXCEPT !.out[k] = @ - n], k))
-----------------------------------------------------------------------------
(* Cells that arrive on an open connection k. *)

Room(s) == Len(queue[s]) < MaxCells
Listening(k) == up[k] = "open"
Back(c) == <<c, "p">>
Ahead(c) == <<c, "n">>

\* command_process_create_cell: refused when hibernating or when the circID is
\* not from the neighbour's half, dropped when it is in use.
CreateCell(k, id, refuse) ==
  /\ Listening(k)
  /\ IF refuse \/ id \in OurIds(k)
       THEN Becomes(Write(Table, k))
       ELSE /\ map[Link(k, id)] = Nil
            /\ \E c \in Circuits \ Origins :
                 /\ status[c] = "free"
                 /\ Becomes(SetLink([Table EXCEPT !.status[c] = "pending"],
                                    c, "p", Link(k, id)))

\* connection_cpu_process_inbuf: onionskin_answer, or the onionskin was bad.
Answer(c, good) ==
  /\ status[c] = "pending" /\ ~marked[c]
  /\ Becomes(IF good THEN AppendCell([Table EXCEPT !.status[c] = "open"], c, "p")
             ELSE MarkForClose(Table, c))

\* circuit_send_next_onion_skin at an origin whose first hop is open, or the
\* handshake failed.
NextSkin(t, c) ==
  {MarkForClose(t, c), AppendCell(t, c, "n"), [t EXCEPT !.status[c] = "open"]}

\* command_process_created_cell.
CreatedCell(k, id) ==
  LET c == Lookup(Table, k, id)
  IN  /\ Listening(k) /\ c # Nil
      /\ IF link[Ahead(c)].id # id THEN Becomes(MarkForClose(Table, c))
         ELSE IF c \in Origins THEN
           /\ status[c] = "building" /\ Room(Ahead(c))
           /\ \E t \in NextSkin(Table, c) : Becomes(t)
         ELSE Room(Back(c)) /\ Becomes(AppendCell(Table, c, "p"))

\* The direction command_process_relay_cell and command_process_destroy_cell
\* take a cell to travel in: only the circID is looked at.
FromBehind(c, id) == c \notin Origins /\ id = link[Back(c)].id

\* RELAY_COMMAND_EXTEND, circuit_extend.
Extend(c, k) ==
  IF link[Ahead(c)].conn # Nil \/ hop[c] # Nil \/ k = link[Back(c)].conn
    THEN {MarkForClose(Table, c)}
    ELSE ExtendTo(Table, c, k)

\* Mutant: the queue towards the next hop survives a TRUNCATE.
Truncate_KeepsQueue(c) ==
  LET t == IF link[Ahead(c)].conn = Nil THEN Table
           ELSE SetLink(SendDestroy(Table, link[Ahead(c)]), c, "n", NoLink)
  IN  AppendCell(t, c, "p")

\* RELAY_COMMAND_TRUNCATE.
Truncate(c) ==
  LET t == IF link[Ahead(c)].conn = Nil THEN Table
           ELSE SetLink(ClearAndDestroy(Table, c, "n"), c, "n", NoLink)
  IN  AppendCell(t, c, "p")

\* command_process_relay_cell and circuit_receive_relay_cell, by what the
\* cell turns out to be: one to pass on ("pass"), a violation of the protocol
\* such as one RELAY_EARLY too many ("bad"), an EXTEND or a TRUNCATE for us,
\* or at an origin an EXTENDED ("next") or a TRUNCATED ("bad").
RelayCell(k, id, what) ==
  LET c == Lookup(Table, k, id)
      onward == link[Ahead(c)].conn
  IN  /\ Listening(k) /\ c # Nil
      /\ IF status[c] = "pending" \/ what = "bad" THEN Becomes(MarkForClose(Table, c))
         ELSE IF c \in Origins THEN
           /\ what = "next" /\ status[c] = "building" /\ Room(Ahead(c))
           /\ \E t \in NextSkin(Table, c) : Becomes(t)
         ELSE IF FromBehind(c, id) THEN
           \/ /\ what = "pass" /\ Room(Ahead(c))
              /\ Becomes(IF onward = Nil THEN MarkForClose(Table, c)
                         ELSE AppendCell(Table, c, "n"))
           \/ /\ what = "extend" /\ (c \in lost => Patient) /\ Room(Ahead(c))
              /\ \E to \in Conns : /\ up[to] # "closing"
                                  /\ \E t \in Extend(c, to) : Becomes(t)
           \/ /\ what = "truncate" /\ Room(Back(c)) /\ Becomes(Truncate(c))
         ELSE what = "pass" /\ Room(Back(c)) /\ Becomes(AppendCell(Table, c, "p"))

\* command_process_destroy_cell.
DestroyCell(k, id) ==
  LET c == Lookup(Table, k, id)
      got == [Table EXCEPT !.settled = @ \cup {Link(k, id)}]
      cut == SetLink(got, c, "n", NoLink)
  IN  /\ Listening(k) /\ c # Nil
      /\ IF FromBehind(c, id) THEN Becomes(MarkForClose(SetLink(got, c, "p", NoLink), c))
         ELSE IF c \in Origins THEN Becomes(MarkForClose(cut, c))
         ELSE /\ Room(Back(c))
              /\ Becomes([AppendCell(cut, c, "p") EXCEPT !.lost = @ \cup {c}])

\* relay_send_command_from_edge: data of the circuit's own streams, towards
\* the exit from an origin and towards the client from an exit.
Send(c) ==
  LET d == IF c \in Origins THEN "n" ELSE "p"
  IN  /\ status[c] = "open" /\ ~marked[c] /\ Room(<<c, d>>)
      /\ Becomes(AppendCell(Table, c, d))

\* The circuit is given up here: it expired, or an edge or the controller
\* ended it.
Expire(c) ==
  /\ status[c] # "free" /\ ~marked[c]
  /\ Becomes(MarkForClose(Table, c))
-----------------------------------------------------------------------------
CellArrives(k) ==
  \E id \in Ids :
    \/ \E refuse \in BOOLEAN : CreateCell(k, id, refuse)
    \/ CreatedCell(k, id)
    \/ \E what \in {"pass", "bad", "extend", "truncate", "next"} : RelayCell(k, id, what)
    \/ DestroyCell(k, id)

\* Bound: new work waits until no outbuf is longer than MaxOut.
Calm == \A k \in Conns : out[k] <= MaxOut

Work ==
  \/ \E c \in Circuits :
       \/ Send(c) \/ Expire(c)
       \/ \E good \in BOOLEAN : Answer(c, good)
       \/ \E k \in Conns : Launch(c, k)
  \/ \E k \in Conns : CellArrives(k) \/ ConnAccept(k)

\* A failed tor_assert ends the process.
Next ==
  /\ sound
  /\ \/ Calm /\ Work
     \/ FreeMarked
     \/ \E k \in Conns :
          \/ ConnOpen(k) \/ ConnMark(k) \/ ConnClose(k)
          \/ \E n \in 1 .. out[k] : Drain(k, n)

Spec == Init /\ [][Next]_vars

\* Weak fairness of writing and of ending a connection: libevent reports a
\* socket that can be written to, close_closeable_connections runs after every
\* event, and a connection attempt ends one way or the other.  Written with the
\* guards in place of ENABLED, which TLC evaluates slowly on these actions.
CanDrain(k) == up[k] = "open" /\ out[k] > 0
CanSettle(k) == up[k] \in {"connecting", "closing"}
Fairness ==
  \A k \in Conns :
    /\ []<>~CanDrain(k) \/ []<><<\E n \in 1 .. out[k] : Drain(k, n)>>_vars
    /\ []<>~CanSettle(k) \/ []<><<ConnOpen(k) \/ ConnClose(k)>>_vars

FairSpec == Spec /\ Fairness
-----------------------------------------------------------------------------
TypeOK ==
  /\ status \in [Circuits -> {"free", "pending", "wait", "building", "open"}]
  /\ marked \in [Circuits -> BOOLEAN]
  /\ hop \in [Circuits -> Conns \cup {Nil}]
  /\ lost \subseteq Circuits
  /\ link \in [Sides -> Links \cup {NoLink} \cup [conn : Conns, id : {0}]]
  /\ map \in [Links -> Circuits \cup {Nil}]
  /\ count \in [Conns -> Nat] /\ out \in [Conns -> Nat]
  /\ nextid \in [Conns -> 1 .. NumIds]
  /\ \A s \in Sides : queue[s] \in Seq(Links)
  /\ next \in [Sides -> Circuits \cup {Nil}] /\ prev \in [Sides -> Circuits \cup {Nil}]
  /\ head \in [Conns -> Circuits \cup {Nil}]
  /\ heap \in [Conns -> SUBSET Sides]
  /\ up \in [Conns -> {"none", "connecting", "open", "closing"}]
  /\ settled \subseteq Links
  /\ sound \in BOOLEAN

\* assert_active_circuits_ok, and what it leaves out: on the ring of a
\* connection are exactly the circuits with cells for it, so no cell is stranded.
RingsSound ==
  \A k \in Conns :
    LET active == {s \in Sides : link[s].conn = k /\ queue[s] # <<>>}
        ring == Ring(Table, k)
    IN  /\ {SideOn(Table, c, k) : c \in ring} = active
        /\ Cardinality(ring) = Cardinality(active)
        /\ heap[k] = active
        /\ \A s \in active : /\ next[SideOn(Table, prev[s], k)] = s[1]
                            /\ prev[SideOn(Table, next[s], k)] = s[1]

\* assert_circuit_ok: a side and the map agree, both ways, the map holds no
\* freed circuit and n_circuits counts its entries.
MapSound ==
  /\ \A l \in Links : map[l] # Nil => \E d \in {"n", "p"} : link[<<map[l], d>>] = l
  /\ \A s \in Sides : link[s].id # 0 => map[link[s]] = s[1]
  /\ \A k \in Conns : count[k] = Cardinality({l \in Links : l.conn = k /\ map[l] # Nil})
  /\ \A s \in Sides : link[s] # NoLink => status[s[1]] # "free"
  /\ \A c \in Circuits : link[Ahead(c)].conn # Nil => hop[c] = Nil

\* No tor_assert of the functions modelled here fails.
NoAssertFails == sound

\* A queue holds only cells packed for the link its side has now: a cell is
\* never sent to another neighbour, or under another circuit's circID.
CellsKeepTheirLink ==
  \A s \in Sides : link[s].conn # Nil =>
    \A i \in DOMAIN queue[s] : queue[s][i] = link[s]

\* A circuit never leaves a neighbour in silence: while the connection is up,
\* a link ends only after a DESTROY for it was sent or received.
NoSilentEnd ==
  [][\A s \in Sides :
       LET l == link[s]
       IN  l \in Links /\ link'[s] # l /\ up[l.conn] = "open" /\ up'[l.conn] = "open"
           => l \in settled']_vars

\* A circuit that waits for an OR connection does not wait for ever.
WaitersAnswered ==
  \A c \in Circuits :
    (status[c] = "wait" /\ ~marked[c]) ~> (status[c] # "wait" \/ marked[c])

\* The round robin serves everybody: a side that always has cells for a
\* connection gets one onto it again and again, whatever the others send, as
\* long as the outbuf falls below the low-water mark again and again.  (DESTROY
\* cells do not queue, so enough of them keep it above, and every queue waits.)
TopsUp(k) == \E n \in 1 .. out[k] : out[k] - n < LowMark /\ Drain(k, n)
EveryTurnComes ==
  \A k \in Conns : []<><<TopsUp(k)>>_vars =>
    \A s \in Sides :
      \/ []<>(queue[s] = <<>> \/ link[s].conn # k)
      \/ []<><<Len(queue'[s]) < Len(queue[s])>>_vars

\* The active rings, the map from circuit ids and the queues describe the same
\* circuits, every cell queued was packed for the link it will leave by, and no
\* tor_assert about them fails.
TableSound == RingsSound /\ MapSound /\ CellsKeepTheirLink /\ NoAssertFails
=============================================================================
