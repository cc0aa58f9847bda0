--------------------------- MODULE ClientStreams ---------------------------
(***************************************************************************)
(* The streams of a client and the circuits they are attached to: how a    *)
(* request finds a circuit or has one launched (circuituse.c), how BEGIN   *)
(* and RESOLVE, their answers and END move it on (connection_edge.c,       *)
(* relay.c), and how timeouts, lost circuits and hangups end it.           *)
(*                                                                         *)
(* Relay cells to the exit arrive at once, cells from it wait in back[c];  *)
(* that leaves the client every order of answers and of its own decisions. *)
(* Circuits end at different exits and are objects that are used once.     *)
(* Clocks (a circuit's age, SocksTimeout, the retry timeout) may or may    *)
(* not have run out; SocksTimeout runs out by the MaxTries-th retry.  One  *)
(* kind of isolation stands for the eight of them: Value is the field that *)
(* an Isolated stream is isolated by.  Rendezvous streams and requests for *)
(* a named exit are left out.                                              *)
(***************************************************************************)
EXTENDS Integers, Sequences, FiniteSets, SequencesExt, Functions

CONSTANTS
  Streams,     \* AP connections, in the order of the connection array
  Circuits,    \* origin_circuit_t objects: as many as are launched
  Kinds,       \* what the streams may be
  Value,       \* the field of a stream that isolation compares
  MaxPending,  \* MaxClientCircuitsPending
  MaxTries,    \* a bound: as many retries as fit into SocksTimeout
  Nil

AP == ToSet(Streams)

\* Opened through the library's interface; asks for a RESOLVE; belongs to a
\* tunnelled directory request (want_onehop); isolated from other Values.
Traits == {"library", "resolve", "onehop", "isolated"}

VARIABLES
  kind,   \* what the streams are, chosen once
  str,    \* the streams
  circ,   \* the circuits
  exit,   \* per circuit, the streams its exit knows: id, who it is, is it connected?
  back,   \* per circuit, cells on their way from the exit
  sound,  \* has no LD_BUG been logged, no tor_assert failed?
  apart   \* has no isolated stream joined a circuit that had carried another value?

vars == <<kind, str, circ, exit, back, sound, apart>>

Client == [str |-> str, circ |-> circ, exit |-> exit, back |-> back,
           sound |-> sound, apart |-> apart]
Becomes(clients) ==
  \E w \in clients :
    /\ UNCHANGED kind
    /\ str' = w.str /\ circ' = w.circ /\ exit' = w.exit
    /\ back' = w.back /\ sound' = w.sound /\ apart' = w.apart

Library == {s \in AP : "library" \in kind[s]}
Resolves == {s \in AP : "resolve" \in kind[s]}
OneHop == {s \in AP : "onehop" \in kind[s]}
Isolated == {s \in AP : "isolated" \in kind[s]}

\* "wait": AP_CONN_STATE_CIRCUIT_WAIT, "sent": CONNECT_WAIT or RESOLVE_WAIT.
\* finished: has_finished, set from the start for a library stream.
NewStream(s) ==
  [st |-> "idle", on |-> Nil, id |-> 0, finished |-> s \in Library, ended |-> FALSE, tries |-> 0]
NoCircuit ==
  [st |-> "new", purpose |-> "general", dirt |-> "clean", val |-> Nil, mixed |-> FALSE,
   used |-> FALSE, rejects |-> FALSE, onehop |-> FALSE, next |-> 1, had |-> {}]

Init ==
  /\ kind \in Kinds
  /\ str = [s \in AP |-> NewStream(s)]
  /\ circ = [c \in Circuits |-> NoCircuit]
  /\ exit = [c \in Circuits |-> {}]
  /\ back = [c \in Circuits |-> <<>>]
  /\ sound = TRUE /\ apart = TRUE

Bug(w) == [w EXCEPT !.sound = FALSE]
In(w, m) == {s \in AP : w.str[s].st = m}
On(w, c) == {s \in AP : w.str[s].on = c}
Is(w, m) == {c \in Circuits : w.circ[c].st = m}
-----------------------------------------------------------------------------
(* Isolation. *)

\* Mutant: streams that are not isolated leave no mark on a circuit.
Updated_IsolatedOnly(w, c, s) ==
  IF s \in Isolated /\ w.circ[c].val = Nil THEN [w EXCEPT !.circ[c].val = Value[s]] ELSE w

\* connection_edge_compatible_with_circuit: the flags of the stream that
\* joins decide, whatever those of the streams before it were.
Compatible(o, s) ==
  o.val = Nil \/ s \notin Isolated \/ (~o.mixed /\ o.val = Value[s])

\* connection_edge_update_circuit_isolation.
Updated(w, c, s) ==
  LET o == w.circ[c]
      differs == o.val # Value[s]
  IN  IF o.val = Nil THEN [w EXCEPT !.circ[c].val = Value[s]]
      ELSE [w EXCEPT !.circ[c].mixed = @ \/ differs,
                     !.sound = @ /\ ~(differs /\ s \in Isolated)]

\* circuit_clear_isolation.
Cleared(w, c) == [w EXCEPT !.circ[c].val = Nil, !.circ[c].mixed = FALSE]

\* circuit_is_better.  It looks at the purpose of the connection, which is
\* no circuit's purpose, so that only isolation is compared.
Better(a, b, s) ==
  /\ a.val # Nil
  /\ \/ b.val = Nil
     \/ b.val # Value[s] /\ (a.val = Value[s] \/ a.mixed \/ b.mixed)

Acceptable(w, c, s) ==
  LET o == w.circ[c]
  IN  /\ o.purpose = "general" /\ o.dirt # "old"
      /\ o.onehop = (s \in OneHop) /\ (s \in OneHop \/ ~o.rejects)
      /\ Compatible(o, s)

\* circuit_get_best among the circuits in a state.  Two circuits may each be
\* better than the other; the later one of the list is taken then.
Best(w, m, s) ==
  LET ok == {c \in Is(w, m) : Acceptable(w, c, s)}
  IN  {c \in ok : \A d \in ok : Better(w.circ[d], w.circ[c], s) => Better(w.circ[c], w.circ[d], s)}
-----------------------------------------------------------------------------
(* Ends. *)

\* connection_edge_send_command of an END: the exit forgets the stream.
SendEnd(w, s) ==
  IF w.str[s].on = Nil THEN w
  ELSE [w EXCEPT !.exit[w.str[s].on] = {e \in @ : e.id # w.str[s].id}]

\* connection_edge_end.
EdgeEnd(w, s) ==
  IF w.str[s].ended \/ w.str[s].st = "marked" THEN Bug(w)
  ELSE [SendEnd(w, s) EXCEPT !.str[s].ended = TRUE]

\* connection_mark_unattached_ap: a socks reply if there was none, no END.
MarkUnattached(w, s) ==
  IF w.str[s].st = "marked" THEN Bug(w)
  ELSE [w EXCEPT !.str[s].ended = TRUE, !.str[s].finished = TRUE, !.str[s].st = "marked",
                  !.str[s].tries = 0]

\* circuit_detach_stream.
Detached(w, s) == [w EXCEPT !.str[s].on = Nil]

\* connection_edge_destroy.
EdgeDestroy(w, s) ==
  Detached(IF w.str[s].st = "marked" THEN w ELSE MarkUnattached(w, s), s)

ForEach(F(_, _), w, S) == FoldSeq(LAMBDA s, u : IF s \in S THEN F(u, s) ELSE u, w, Streams)

\* connection_ap_fail_onehop, when the first hop never answered.
FailOnehop(w) == ForEach(MarkUnattached, w, In(w, "wait") \cap OneHop)

\* circuit_mark_for_close, circuit_build_failed and circuit_free.
MarkForClose(w, c, firsthop) ==
  LET failed == w.circ[c].st = "building" /\ firsthop /\ w.circ[c].onehop
      u == ForEach(EdgeDestroy, IF failed THEN FailOnehop(w) ELSE w, On(w, c))
  IN  [u EXCEPT !.circ[c] = [NoCircuit EXCEPT !.st = "gone"],
                !.exit[c] = {}, !.back[c] = <<>>]
-----------------------------------------------------------------------------
(* Attaching. *)

\* Mutant: the lowest id that no stream of the circuit has.
UniqueId_Lowest(w, c) ==
  CHOOSE n \in 1 .. w.circ[c].next :
    /\ \A s \in On(w, c) : w.str[s].id # n
    /\ \A m \in 1 .. n - 1 : \E s \in On(w, c) : w.str[s].id = m

\* get_unique_stream_id_by_circ.  It does not wrap around here.
UniqueId(w, c) == w.circ[c].next

\* link_apconn_to_circ and connection_ap_handshake_send_begin or _resolve.
AttachTo(w, c, s) ==
  LET u == Updated([w EXCEPT !.circ[c].dirt = IF @ = "clean" THEN "dirty" ELSE @,
                             !.circ[c].used = TRUE, !.circ[c].next = @ + 1,
                             !.circ[c].had = @ \cup {Value[s]},
                             !.apart = @ /\ (s \in Isolated => w.circ[c].had \subseteq {Value[s]})],
                   c, s)
      id == UniqueId(w, c)
  IN  [u EXCEPT !.str[s].st = "sent", !.str[s].on = c, !.str[s].id = id,
                !.exit[c] = @ \cup {[id |-> id, who |-> s, up |-> FALSE]}]

Pending(w) == {c \in Is(w, "building") : w.circ[c].purpose = "general"}

\* circuit_establish_circuit.
Launched(w, c, onehop) == [w EXCEPT !.circ[c].st = "building", !.circ[c].onehop = onehop]

\* circuit_get_open_circ_or_launch, when no open circuit will do.  A launch
\* may fail.
OnTheWayOrLaunch(w, s) ==
  IF Best(w, "building", s) # {}
    THEN {Updated(w, c, s) : c \in Best(w, "building", s)}
  ELSE {w} \cup {Updated(Launched(w, c, s \in OneHop), c, s)
                 : c \in IF Cardinality(Pending(w)) < MaxPending THEN Is(w, "new") ELSE {}}

\* connection_ap_handshake_attach_circuit, before SocksTimeout and after it.
Attach(w, s) ==
  IF Best(w, "open", s) # {} THEN {AttachTo(w, c, s) : c \in Best(w, "open", s)}
  ELSE OnTheWayOrLaunch(w, s)
AttachOrGiveUp(w, s) ==
  {MarkUnattached(w, s)} \cup (IF w.str[s].tries = MaxTries THEN {} ELSE Attach(w, s))

\* connection_ap_attach_pending.
AttachPending(w) ==
  FoldSeq(LAMBDA s, W : UNION {IF u.str[s].st = "wait" THEN AttachOrGiveUp(u, s) ELSE {u} : u \in W},
          {w}, Streams)

\* Mutant: after the marks of the streams it was launched for are cleared,
\* nobody is tried again.
TryAttaching_Once(w, c) ==
  {IF u.circ[c].val # Nil /\ ~u.circ[c].used THEN Cleared(u, c) ELSE u : u \in AttachPending(w)}

\* circuit_try_attaching_streams.
TryAttaching(w, c) ==
  UNION {IF u.circ[c].val # Nil /\ ~u.circ[c].used THEN AttachPending(Cleared(u, c)) ELSE {u}
         : u \in AttachPending(w)}

\* connection_ap_detach_retriable.
DetachRetriable(w, s) ==
  AttachOrGiveUp([Detached(w, s) EXCEPT !.str[s].st = "wait", !.str[s].tries = @ + 1], s)

Aged(w, c) == [w EXCEPT !.circ[c].dirt = "old"]
-----------------------------------------------------------------------------
(* Requests and the clock. *)

\* connection_ap_handshake_rewrite_and_attach.
Request(s) ==
  /\ str[s].st = "idle"
  /\ Becomes(Attach([Client EXCEPT !.str[s].st = "wait"], s))

\* circuit_build_needed_circs, once a second.
BuildNeeded == In(Client, "wait") # {} /\ Becomes(AttachPending(Client))

\* circuit_predict_and_launch_new.
Predict == \E c \in Is(Client, "new") : Becomes({Launched(Client, c, FALSE)})

\* circuit_expire_old_circuits_clientside.
ExpireOld(c) ==
  /\ \/ circ[c].dirt = "old" /\ On(Client, c) = {}
     \/ circ[c].dirt = "clean" /\ circ[c].st = "open"
  /\ Becomes({MarkForClose(Client, c, FALSE)})

\* MaxCircuitDirtiness has passed.
Grow(c) == circ[c].dirt = "dirty" /\ Becomes({Aged(Client, c)})

\* circuit_expire_building: a circuit that is measured gets more time.
ExpireBuilding(c) ==
  /\ circ[c].st = "building"
  /\ IF On(Client, c) # {} THEN Becomes({Bug(Client)})
     ELSE \/ /\ circ[c].purpose = "general" /\ ~circ[c].onehop
             /\ Becomes({[Client EXCEPT !.circ[c].purpose = "measure"]})
          \/ \E firsthop \in BOOLEAN : Becomes({MarkForClose(Client, c, firsthop)})

\* Mutant: the exit is not told that its stream is tried elsewhere.
Retry_NoEnd(w, s) == DetachRetriable(Aged(w, w.str[s].on), s)

Retry(w, s) ==
  IF w.circ[w.str[s].on].purpose # "general" THEN {Bug(w)}
  ELSE DetachRetriable(Aged([EdgeEnd(w, s) EXCEPT !.str[s].ended = FALSE], w.str[s].on), s)

\* connection_ap_expire_beginning.
ExpireBeginning(s) ==
  \/ str[s].st = "wait" /\ Becomes({MarkUnattached(Client, s)})
  \/ str[s].st = "sent" /\ Becomes(IF str[s].on = Nil THEN {MarkUnattached(Client, s)}
                                   ELSE Retry(Client, s))
-----------------------------------------------------------------------------
(* Circuits. *)

\* circuit_send_next_onion_skin and circuit_has_opened.
Built(c) ==
  /\ circ[c].st = "building"
  /\ LET w == [Client EXCEPT !.circ[c].st = "open"]
     IN  Becomes(IF circ[c].purpose = "general" THEN TryAttaching(w, c)
                 ELSE {MarkForClose(w, c, FALSE)})

\* A DESTROY or TRUNCATED from a relay of the circuit, or a lost connection.
Destroyed(c) ==
  /\ circ[c].st \in {"building", "open"}
  /\ \E firsthop \in BOOLEAN : Becomes({MarkForClose(Client, c, firsthop)})

\* Mutant: any clean circuit will do.
ToCannibalize_Used(c) == circ[c].st = "open" /\ circ[c].purpose = "general" /\ ~circ[c].onehop

\* circuit_find_to_cannibalize.
ToCannibalize(c) ==
  /\ circ[c].st = "open" /\ circ[c].purpose = "general" /\ circ[c].dirt = "clean"
  /\ ~circ[c].onehop /\ circ[c].val = Nil

\* circuit_launch_by_extend_info for a hidden service: the circuit is no
\* longer one of the general ones.
Cannibalize(c) ==
  /\ ToCannibalize(c)
  /\ Becomes({[Client EXCEPT !.circ[c] = [NoCircuit EXCEPT !.st = "gone", !.purpose = "other"]]})
-----------------------------------------------------------------------------
(* The exit's answers.  The exit itself is a relay somewhere. *)

Sent(c, cmd, e) == Append(back[c], [cmd |-> cmd, id |-> e.id, who |-> e.who])

\* CONNECTED, or the RESOLVED that is all of a RESOLVE's stream.
Answer(c, e) ==
  /\ ~e.up
  /\ Becomes({[Client EXCEPT
       !.exit[c] = (@ \ {e}) \cup (IF e.who \in Resolves THEN {} ELSE {[e EXCEPT !.up = TRUE]}),
       !.back[c] = Sent(c, "answer", e)]})
ExitEnds(c, e) ==
  Becomes({[Client EXCEPT !.exit[c] = @ \ {e}, !.back[c] = Sent(c, "end", e)]})

\* relay_lookup_conn.
Lookup(w, c, id) == {s \in On(w, c) : w.str[s].id = id /\ w.str[s].st # "marked"}

\* connection_ap_process_end_not_open, by reason: EXITPOLICY may show that
\* the exit is stricter than it says, RESOURCELIMIT does; MISC and the like are
\* retried up to MAX_RESOLVE_FAILURES times; after all others it is given up.
EndNotOpen(w, c, s) ==
  LET stricter == [w EXCEPT !.circ[c].rejects = TRUE]
  IN  {MarkUnattached(w, s)}
      \cup UNION {DetachRetriable(u, s) : u \in {w, stricter, Aged(w, c)}}

\* connection_edge_process_relay_cell_not_open.  CONNECTED may come with an
\* address that is refused.
AnswerNotOpen(w, s) ==
  IF s \in Resolves THEN {MarkUnattached([w EXCEPT !.str[s].finished = TRUE], s)}
  ELSE LET u == [w EXCEPT !.str[s].st = "open", !.str[s].tries = 0]
       IN  {[u EXCEPT !.str[s].finished = TRUE], MarkUnattached(EdgeEnd(u, s), s)}

\* An END for an open stream.
EndOpen(w, s) ==
  [w EXCEPT !.sound = @ /\ w.str[s].finished, !.str[s].ended = TRUE, !.str[s].st = "marked"]

Deliver(c) ==
  /\ back[c] # <<>>
  /\ LET cell == Head(back[c])
         w == [Client EXCEPT !.back[c] = Tail(@)]
         found == Lookup(w, c, cell.id)
     IN  Becomes(IF found = {} THEN {w}
                 ELSE LET s == CHOOSE s \in found : TRUE
                      IN  CASE cell.cmd = "answer" /\ str[s].st = "open" -> {w}
                            [] cell.cmd = "answer" -> AnswerNotOpen(w, s)
                            [] str[s].st = "open" -> {EndOpen(w, s)}
                            [] OTHER -> EndNotOpen(w, c, s))
-----------------------------------------------------------------------------
(* Ends of streams. *)

\* connection_edge_reached_eof: the application hangs up.
ReachedEof(s) ==
  /\ s \notin Library /\ str[s].st \in {"wait", "sent", "open"}
  /\ Becomes({[EdgeEnd(Client, s) EXCEPT !.str[s].finished = TRUE, !.str[s].st = "marked"]})

\* onionroute_closestream_i: connection_mark_unattached_ap, whatever the state.
CloseStream(s) ==
  /\ s \in Library /\ str[s].st \in {"wait", "sent", "open"}
  /\ Becomes({MarkUnattached(Client, s)})

\* connection_ap_about_to_close and connection_free.
Free(s) ==
  /\ str[s].st = "marked"
  /\ Becomes({[Client EXCEPT !.str[s] = [NewStream(s) EXCEPT !.st = "gone"],
                             !.sound = @ /\ str[s].finished]})

Next ==
  /\ sound
  /\ \/ \E s \in AP : \/ Request(s) \/ ExpireBeginning(s) \/ ReachedEof(s)
                      \/ CloseStream(s) \/ Free(s)
     \/ BuildNeeded \/ Predict
     \/ \E c \in Circuits : \/ Built(c) \/ Destroyed(c) \/ Cannibalize(c) \/ Deliver(c)
                            \/ ExpireOld(c) \/ Grow(c) \/ ExpireBuilding(c)
     \/ \E c \in Circuits : \E e \in exit[c] : Answer(c, e) \/ ExitEnds(c, e)

Spec == Init /\ [][Next]_vars
-----------------------------------------------------------------------------
TypeOK ==
  /\ kind \in Kinds
  /\ str \in [AP -> [st : {"idle", "wait", "sent", "open", "marked", "gone"},
                     on : Circuits \cup {Nil}, id : Nat, finished : BOOLEAN,
                     ended : BOOLEAN, tries : 0 .. MaxTries]]
  /\ \A c \in Circuits :
       /\ circ[c].st \in {"new", "building", "open", "gone"}
       /\ circ[c].purpose \in {"general", "measure", "other"}
       /\ circ[c].dirt \in {"clean", "dirty", "old"}
       /\ circ[c].val \in Range(Value) \cup {Nil} /\ circ[c].had \subseteq Range(Value)
       /\ \A e \in exit[c] : e \in [id : Nat, who : AP, up : BOOLEAN]
       /\ \A i \in DOMAIN back[c] : back[c][i].who \in AP
  /\ sound \in BOOLEAN /\ apart \in BOOLEAN

NoBug == sound

\* Cells from an exit that carry the id of a stream of the circuit are for
\* that stream, however often it and others were moved between circuits.
OwnCells ==
  \A c \in Circuits, s \in AP :
    /\ \A i \in DOMAIN back[c] : s \in Lookup(Client, c, back[c][i].id) => back[c][i].who = s
    /\ str[s].on = c /\ str[s].st \in {"sent", "open"} =>
         \A e \in exit[c] : e.id = str[s].id <=> e.who = s

\* An exit holds nothing for a stream that is gone or has moved on.
ExitReleased ==
  \A c \in Circuits : \A e \in exit[c] :
    e.who \in Library \/ (str[e.who].on = c /\ str[e.who].st \in {"sent", "open"})

\* No isolated stream joins a circuit that carried a stream it is isolated from.
JoinsAlike == apart

\* No stream waits beside an open circuit that it could use.
NobodyWaitsBeside == \A s \in In(Client, "wait") : Best(Client, "open", s) = {}
=============================================================================
