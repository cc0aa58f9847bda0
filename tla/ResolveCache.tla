---------------------------- MODULE ResolveCache ----------------------------
(***************************************************************************)
(* Name lookups at an exit (dns.c): the cache of pending and answered      *)
(* lookups, the exit connections waiting on each pending one, eventdns's   *)
(* answers, the expiry of entries, and the hangups that take a waiting     *)
(* connection away.                                                        *)
(*                                                                         *)
(* An entry whose time has run out is due.  Entries in state DONE are out  *)
(* of the hash table and only wait to be freed: they are left out.  So are *)
(* addresses that need no lookup.  A connection that got its address is    *)
(* handed on to connection_exit_connect and leaves this module.            *)
(***************************************************************************)
EXTENDS Naturals, Sequences, SequencesExt, FiniteSets

CONSTANTS
  MaxConns, \* a bound: exit connections that are made
  Circs,    \* circuits, each closed once
  Names,
  Arpa,  \* the in-addr.arpa names
  Overlap,  \* may a lookup expire between a hangup and the end of that turn of the loop?
  MaxAsked, \* a bound: eventdns requests outstanding for a name
  Nil

ResolveAssumption ==
  /\ Arpa \subseteq Names /\ Overlap \in BOOLEAN /\ Nil \notin Circs
  /\ MaxConns \in Nat \ {0} /\ MaxAsked \in Nat \ {0}

Conns == 1 .. MaxConns

VARIABLES
  cache,  \* per name, the entry in the hash table: its state, its expiry, who waits
  conn,   \* the connections, made in this order
  open,   \* the circuits not marked for close
  asked,  \* per name, eventdns requests without an answer
  sound   \* has no tor_assert failed and no connection ended twice?

vars == <<cache, conn, open, asked, sound>>

NoEntry == [st |-> "none", due |-> FALSE, pend |-> <<>>]
Fresh(st, pend) == [st |-> st, due |-> FALSE, pend |-> pend]

\* ended is edge_has_sent_end; told counts the END, RESOLVED or hand-over
\* that the stream's owner learns the outcome from.
NoConn == [st |-> "unused", for |-> "connect", name |-> Nil, on |-> Nil,
           marked |-> FALSE, ended |-> FALSE, told |-> 0]

Init ==
  /\ cache = [n \in Names |-> NoEntry]
  /\ conn = [s \in Conns |-> NoConn]
  /\ open = Circs
  /\ asked = [n \in Names |-> 0]
  /\ sound = TRUE

World == [cache |-> cache, conn |-> conn, sound |-> sound]
Becomes(worlds) ==
  \E w \in worlds : cache' = w.cache /\ conn' = w.conn /\ sound' = w.sound

Waiting(w, n) == ToSet(w.cache[n].pend)
Check(w, p) == [w EXCEPT !.sound = @ /\ p]
-----------------------------------------------------------------------------
(* What happens to one connection. *)

\* A cell for the stream's owner: nothing goes out on a circuit that is gone.
Tell(e) == [e EXCEPT !.told = IF e.on \in open THEN @ + 1 ELSE @]

\* connection_edge_end.
EdgeEnd(e) == [Tell(e) EXCEPT !.ended = TRUE]

\* circuit_detach_stream and connection_free; what is left is what was told.
Gone(e) == [NoConn EXCEPT !.st = "freed", !.told = e.told]

\* The connections of set S that are not marked have f done to them, the
\* marked ones g.
Each(w, S, f(_), g(_)) ==
  LET live == {s \in S : ~w.conn[s].marked}
  IN  Check([w EXCEPT !.conn = [s \in Conns |-> IF s \in live THEN f(@[s])
                                                ELSE IF s \in S THEN g(@[s]) ELSE @[s]]],
             \A s \in live : ~w.conn[s].ended)

Kept(e) == e
Failed(e) == [e EXCEPT !.st = "failed"]
Ended(e) == Gone(EdgeEnd(e))
-----------------------------------------------------------------------------
(* The cache. *)

\* purge_expired_resolves: due entries leave the table, those that wait in
\* vain are ended, and those marked are forgotten as they are.
Purged(w) ==
  LET due == {n \in Names : w.cache[n].due}
      u == Each(w, UNION {Waiting(w, n) : n \in due}, Ended, Kept)
  IN  Check([u EXCEPT !.cache = [n \in Names |-> IF n \in due THEN NoEntry ELSE @[n]]],
             \A n \in due : w.cache[n].st = "pending" \/ w.cache[n].pend = <<>>)

\* Mutant: a marked connection keeps the state that says it is on the list.
Cancelled_Kept(w, n) ==
  IF w.cache[n].st # "pending" \/ w.cache[n].pend = <<>> THEN w
  ELSE [Each(w, Waiting(w, n), Ended, Kept) EXCEPT !.cache[n] = NoEntry]

\* dns_cancel_pending_resolve.
Cancelled(w, n) ==
  IF w.cache[n].st # "pending" \/ w.cache[n].pend = <<>> THEN w
  ELSE [Each(w, Waiting(w, n), Ended, Failed) EXCEPT !.cache[n] = NoEntry]

\* A lookup that fails before it starts, at the end of dns_resolve: the
\* asker is told (a RESOLVED cell now, or an END by its caller), and
\* everybody who waits for the same name is cancelled.
Refuse(w, s, n) ==
  LET u == Cancelled([w EXCEPT !.conn[s] = [Tell(w.conn[s]) EXCEPT !.on = Nil]], n)
  IN  [u EXCEPT !.conn[s] = Gone(@)]

\* connection_exit_connect ends the stream at once, or it is on its way.
Connect(e) == {Ended(e), [Gone(Tell(e)) EXCEPT !.st = "handed"]}

\* An answer at once: the address is there.
Found(w, s) ==
  IF w.conn[s].for = "resolve" THEN {[w EXCEPT !.conn[s] = Gone(Tell(@))]}
  ELSE {[w EXCEPT !.conn[s] = e] : e \in Connect(w.conn[s])}

\* On the pending list of n, which may be a new one.
Waits(w, s, n) ==
  LET e == w.cache[n]
  IN  [w EXCEPT !.conn[s].st = "resolving",
                !.cache[n] = IF e.st = "pending" THEN [e EXCEPT !.pend = <<s>> \o e.pend]
                             ELSE Fresh("pending", <<s>>)]

\* Every marked connection is freed before a lookup it waits for expires.
Settled == Overlap \/ \A n \in Names : cache[n].due => \A s \in Waiting(World, n) : ~conn[s].marked

\* A BEGIN or RESOLVE cell: connection_exit_begin_conn or _resolve, and
\* dns_resolve.
Ask(s, c, n, for) ==
  /\ \A t \in Conns : conn[t].st = "unused" <=> t >= s
  /\ c \in open /\ Settled
  /\ UNCHANGED open
  /\ \E w \in {Purged([World EXCEPT !.conn[s] =
                  [NoConn EXCEPT !.st = "failed", !.for = for, !.name = n, !.on = c]])} :
       LET st == w.cache[n].st
           hopeless == n \in Arpa /\ for = "connect"
       IN  \/ /\ hopeless \/ st = "failed"
              /\ Becomes({Refuse(w, s, n)}) /\ UNCHANGED asked
           \/ /\ ~hopeless /\ st = "valid"
              /\ Becomes(Found(w, s)) /\ UNCHANGED asked
           \/ /\ ~hopeless /\ st = "pending"
              /\ Becomes({Waits(w, s, n)}) /\ UNCHANGED asked
           \/ /\ ~hopeless /\ st = "none" /\ asked[n] < MaxAsked       \* launch_resolve
              /\ Becomes({Waits(w, s, n)}) /\ asked' = [asked EXCEPT ![n] = @ + 1]
           \/ /\ ~hopeless /\ st = "none"                              \* it fails
              /\ Becomes({Refuse([Waits(w, s, n) EXCEPT !.conn[s].st = "failed"], s, n)})
              /\ UNCHANGED asked

\* Mutant: only the first that waits hears the answer.
Hears_First(w, n) == {Head(w.cache[n].pend)}
Hears(w, n) == Waiting(w, n)

\* add_answer_to_cache.
Stored(w, n, outcome) ==
  IF outcome = "transient" THEN w ELSE [w EXCEPT !.cache[n] = Fresh(outcome, <<>>)]

\* evdns_callback and dns_found_answer.
Answer(n, outcome) ==
  LET e == cache[n]
      all == IF e.pend = <<>> THEN {} ELSE Hears(World, n)
      out == [World EXCEPT !.cache[n] = NoEntry]
      Unhappy(d) == IF d.for = "connect" THEN Ended(d) ELSE Gone(Tell(d))
  IN  /\ asked[n] > 0
      /\ asked' = [asked EXCEPT ![n] = @ - 1]
      /\ UNCHANGED open
      /\ \/ /\ e.st = "none"
            /\ Becomes({Stored(World, n, outcome)})
         \/ /\ e.st \in {"valid", "failed"}
            /\ Becomes({Check(World, e.pend = <<>>)})
         \/ /\ e.st = "pending" /\ outcome # "valid"
            /\ Becomes({Stored(Each(out, all, Unhappy, Failed), n, outcome)})
         \/ /\ e.st = "pending" /\ outcome = "valid"
            /\ \E refused \in SUBSET {s \in all : conn[s].for = "connect"} :
                 LET Happy(d) == IF d.for = "connect" THEN [Gone(Tell(d)) EXCEPT !.st = "handed"]
                                 ELSE Gone(Tell(d))
                     u == Each(out, refused, Ended, Failed)
                     here == \A s \in all : conn[s].marked \/ conn[s].on # Nil
                 IN  Becomes({Check(Stored(Each(u, all \ refused, Happy, Failed), n, outcome), here)})
-----------------------------------------------------------------------------
(* Hangups and time. *)

\* An END cell for a stream whose name is being looked up.
EndCell(s) ==
  /\ conn[s].st = "resolving" /\ ~conn[s].marked
  /\ conn' = [conn EXCEPT ![s].marked = TRUE, ![s].ended = TRUE]
  /\ UNCHANGED <<cache, open, asked, sound>>

\* _circuit_mark_for_close: the streams on resolving_streams are marked, and
\* all of them lose their circuit.
CloseCircuit(c) ==
  /\ c \in open
  /\ open' = open \ {c}
  /\ conn' = [s \in Conns |-> IF conn[s].on # c THEN conn[s]
                              ELSE [conn[s] EXCEPT !.marked = TRUE, !.ended = TRUE, !.on = Nil]]
  /\ UNCHANGED <<cache, asked, sound>>

\* Mutant: the first on the list is taken off, whoever it is.
DnsRemove_First(w, s) ==
  LET n == w.conn[s].name
  IN  IF w.cache[n].st = "none" THEN w
      ELSE Check([w EXCEPT !.cache[n].pend = IF @ = <<>> THEN @ ELSE Tail(@)],
                  s \in Waiting(w, n))

\* connection_dns_remove.
DnsRemove(w, s) ==
  LET n == w.conn[s].name
  IN  IF w.cache[n].st = "none" THEN w
      ELSE Check([w EXCEPT !.cache[n].pend = RemoveFirst(@, s)],
                  s \in Waiting(w, n))

\* close_closeable_connections, connection_unlink,
\* connection_exit_about_to_close and assert_connection_edge_not_dns_pending.
FreeMarked(s) ==
  LET w == IF conn[s].st = "resolving" THEN DnsRemove(World, s) ELSE World
      n == conn[s].name
  IN  /\ conn[s].marked
      /\ Becomes({Check([w EXCEPT !.conn[s] = Gone(@)], conn[s].ended /\ s \notin Waiting(w, n))})
      /\ UNCHANGED <<open, asked>>

TimePasses(n) ==
  /\ cache[n].st # "none" /\ ~cache[n].due
  /\ cache' = [cache EXCEPT ![n].due = TRUE]
  /\ UNCHANGED <<conn, open, asked, sound>>

Next ==
  \/ \E s \in Conns, c \in Circs, n \in Names, for \in {"connect", "resolve"} : Ask(s, c, n, for)
  \/ \E n \in Names, outcome \in {"valid", "failed", "transient"} : Answer(n, outcome)
  \/ \E s \in Conns : EndCell(s) \/ FreeMarked(s)
  \/ \E c \in Circs : CloseCircuit(c)
  \/ \E n \in Names : TimePasses(n)

\* eventdns calls back for every request, a timeout being an answer: weak
\* fairness of Answer(n), which is enabled while a request for n is out, and is
\* the only step that makes them fewer.
Fairness == \A n \in Names : []<>(asked[n] = 0) \/ []<><<asked'[n] < asked[n]>>_asked
Spec == Init /\ [][Next]_vars /\ Fairness
-----------------------------------------------------------------------------
TypeOK ==
  /\ cache \in [Names -> [st : {"none", "pending", "valid", "failed"}, due : BOOLEAN,
                          pend : Seq(Conns)]]
  /\ conn \in [Conns -> [st : {"unused", "failed", "resolving", "handed", "freed"},
                         for : {"connect", "resolve"}, name : Names \cup {Nil},
                         on : Circs \cup {Nil}, marked : BOOLEAN, ended : BOOLEAN, told : Nat]]
  /\ open \subseteq Circs /\ asked \in [Names -> 0 .. MaxAsked] /\ sound \in BOOLEAN

\* No assertion of dns.c fails, and no stream is ended twice: a connection
\* that is freed finds itself on the pending list its state says it is on.
NoAssertFails == sound

\* The state RESOLVING and the pending lists tell the same: who resolves is
\* on the list of its name once and on no other, who is on a list resolves,
\* only a pending entry has a list, and nobody hears of the outcome twice.
WaitersListed ==
  /\ \A n \in Names :
       /\ cache[n].pend # <<>> => cache[n].st = "pending"
       /\ Cardinality(Waiting(World, n)) = Len(cache[n].pend)
       /\ Waiting(World, n) = {s \in Conns : conn[s].st = "resolving" /\ conn[s].name = n}
  /\ \A s \in Conns : conn[s].told <= 1 /\ (conn[s].st = "resolving" => conn[s].told = 0)

\* Who waits for a name hears of it, unless its circuit or stream ends.
WaitersAnswered ==
  \A s \in Conns : (conn[s].st = "resolving" /\ ~conn[s].marked)
                     ~> (conn[s].told = 1 \/ conn[s].marked)

\* The pending lists and the states of the connections agree, nobody is told twice,
\* and no assertion of dns.c fails.
CacheSound == WaitersListed /\ NoAssertFails
=============================================================================
