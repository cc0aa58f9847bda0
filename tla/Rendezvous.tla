----------------------------- MODULE Rendezvous -----------------------------
(***************************************************************************)
(* A client's attempt to reach a hidden service: the descriptor it fetches *)
(* and the circuits it builds to an introduction point and a rendezvous    *)
(* point (rendclient.c, circuituse.c), the relays at those points          *)
(* (rendmid.c), and the service with its introduction points and its       *)
(* circuits to the rendezvous points (rendservice.c).                      *)
(*                                                                         *)
(* A circuit is an object that is used once; a rendezvous circuit is also  *)
(* its cookie and its g^x.  One cell at most is under way on a client's    *)
(* circuit.  Clocks may or may not have run out when they are read.        *)
(* Isolation, dirtiness, client authorization, StrictNodes and a directory *)
(* that is asked again after a quarter of an hour are left out.            *)
(***************************************************************************)
EXTENDS Naturals, Sequences, FiniteSets, FiniteSetsExt, SequencesExt

CONSTANTS
  Streams,     \* the client's streams to the service, as a sequence
  Circuits,    \* the client's circuits, numbers in the order of their launch
  Points,      \* introduction points: a relay and a key made for it
  Answers,     \* the service's circuits to rendezvous points
  Dirs,        \* the responsible hidden service directories
  Wanted,      \* n_intro_points_wanted
  MaxFails,    \* MAX_REND_FAILURES
  MaxUnreach,  \* MAX_INTRO_POINT_REACHABILITY_FAILURES
  MaxPosts,    \* a bound: descriptors that the service uploads
  Slow,        \* a bound: circuits that may be in the making for too long
  Nil

AP == ToSet(Streams)
Intros == {"introducing", "ackwait"}
Rends == {"establish", "ready", "acked", "joined"}

ASSUME RendAssumption ==
  /\ Circuits \subseteq Nat /\ IsFiniteSet(Circuits) /\ Streams \in Seq(AP)
  /\ Nil \notin Circuits \cup Points \cup Answers
  /\ Wanted \in Nat \ {0} /\ MaxFails \in Nat /\ MaxUnreach \in Nat \ {0} /\ MaxPosts \in Nat

VARIABLES
  str,      \* the streams: where connection_t says they are
  cache,    \* the client's cached descriptor, with what is left of its points; or Nil
  asked,    \* last_hid_serv_requests
  fetches,  \* directories that a fetch is under way to
  circ,     \* the client's circuits
  point,    \* the service's introduction points and their circuits
  posted,   \* per directory, the descriptor it has
  posts,    \* how many descriptors were uploaded
  inbox,    \* INTRODUCE2 cells under way: introduction point, cookie
  seen,     \* accepted_intro_dh_parts
  hop,      \* cookies whose service_pending_final_cpath_ref has its cpath
  ans,      \* the service's circuits to rendezvous points
  told,     \* history: cookies that reached the service's end of an introduction circuit
  sound     \* has no tor_assert failed?

client == <<str, cache, asked, fetches, circ, sound>>
service == <<point, posted, posts, inbox, seen, hop, ans, told>>
vars == <<client, service>>

\* late: hs_circ_has_timed_out.  final: has pending_final_cpath.
\* for: the cookie that an introduction was for.
\* has: the streams attached to it.  At a rendezvous circuit's far end the
\* relay waits for a circuit to splice to it, and has met one.
NewCirc == [p |-> "new", open |-> FALSE, late |-> FALSE, final |-> FALSE,
            exit |-> Nil, for |-> Nil, cell |-> "none", has |-> {},
            waits |-> FALSE, meet |-> Nil]
NewAnswer == [p |-> "new", cookie |-> Nil, late |-> FALSE, again |-> FALSE, fails |-> 0,
              sent |-> FALSE]

Init ==
  /\ str = [s \in AP |-> "idle"] /\ cache = Nil /\ asked = {} /\ fetches = {}
  /\ circ = [c \in Circuits |-> NewCirc]
  /\ point = [p \in Points |-> [st |-> "new", expiring |-> FALSE, listed |-> FALSE]]
  /\ posted = [d \in Dirs |-> Nil] /\ posts = 0 /\ inbox = {} /\ seen = {} /\ hop = {}
  /\ ans = [m \in Answers |-> NewAnswer] /\ told = {} /\ sound = TRUE

Client == [str |-> str, cache |-> cache, asked |-> asked, fetches |-> fetches,
           circ |-> circ, sound |-> sound]
Becomes(clients) ==
  \E w \in clients :
    /\ str' = w.str /\ cache' = w.cache /\ asked' = w.asked /\ fetches' = w.fetches
    /\ circ' = w.circ /\ sound' = w.sound

Check(w, p) == [w EXCEPT !.sound = @ /\ p]
Usable(w) == IF w.cache = Nil THEN {} ELSE DOMAIN w.cache.left
Moved(w, from, to) == [w EXCEPT !.str = [s \in AP |-> IF @[s] = from THEN to ELSE @[s]]]
Each(worlds, Op(_)) == UNION {Op(w) : w \in worlds}
-----------------------------------------------------------------------------
(* The client: descriptors and circuits that fail. *)

\* rend_client_desc_trynow, when no introduction point is usable, with
\* rend_client_note_connection_attempt_ended.
GiveUp(w) ==
  IF \E s \in AP : w.str[s] = "desc" THEN [Moved(w, "desc", "closed") EXCEPT !.asked = {}] ELSE w

\* rend_client_refetch_v2_renddesc and directory_get_from_hs_dir.
Refetch(w) ==
  IF Usable(w) # {} THEN {w}
  ELSE IF Dirs \subseteq w.asked THEN {GiveUp(w)}
  ELSE {[w EXCEPT !.asked = @ \cup {d}, !.fetches = @ \cup {d}] : d \in Dirs \ w.asked}

\* rend_client_report_intro_point_failure.  gone: INTRO_POINT_FAILURE_GENERIC,
\* else UNREACHABLE.  The failure TIMEOUT is never reported.
Report(w, p, gone) ==
  LET left == w.cache.left
      out == gone \/ left[p] + 1 >= MaxUnreach
      now == IF p \notin DOMAIN left THEN left
             ELSE IF out THEN [q \in DOMAIN left \ {p} |-> left[q]]
             ELSE [left EXCEPT ![p] = @ + 1]
      u == [w EXCEPT !.cache.left = now]
  IN  IF Usable(w) = {} THEN Refetch(w)
      ELSE IF now # <<>> THEN {u}
      ELSE {Moved(v, "circ", "desc") : v \in Refetch(u)}

\* circuit_mark_for_close.  Whatever the reason was, END_CIRC_REASON_NONE has
\* replaced it when it is compared with END_CIRC_REASON_TIMEOUT.
MarkForClose(w, c) ==
  LET o == w.circ[c]
      u == [w EXCEPT !.circ[c] = [NewCirc EXCEPT !.p = "closed"],
                     !.str = [s \in AP |-> IF s \in o.has THEN "closed" ELSE @[s]]]
  IN  IF o.p = "ackwait" THEN Report(Check(u, o.open /\ o.exit # Nil), o.exit, TRUE)
      ELSE IF o.p = "introducing" THEN Report(u, o.exit, FALSE)
      ELSE {u}

\* connection_mark_unattached_ap: the attempt has ended.
Close(w, s) == [w EXCEPT !.str[s] = "closed", !.asked = {}]
-----------------------------------------------------------------------------
(* The client: attaching a stream. *)

\* circuit_get_best: the purposes of circuits are not compared (see
\* ClientStreams), so that the first of the list, the newest, is taken.
Best(w, purposes, open) ==
  LET ok == {c \in Circuits :
               /\ w.circ[c].p \in purposes /\ ~w.circ[c].late
               /\ open => w.circ[c].open}
  IN  IF ok = {} THEN Nil ELSE Max(ok)

\* rend_client_rendcirc_has_opened, also for a circuit that was cannibalized.
Opened(o) == [o EXCEPT !.open = TRUE, !.cell = IF o.p = "establish" THEN "establish" ELSE @]

\* circuit_launch_by_extend_info: it may fail.
Launch(w, o) ==
  LET fresh == {c \in Circuits : w.circ[c].p = "new"}
  IN  {<<w, Nil>>} \cup (IF fresh = {} THEN {} ELSE {<<[w EXCEPT !.circ[Min(fresh)] = o], Min(fresh)>>})

RendCirc(w) ==
  LET best == Best(w, Rends, FALSE)
      new == [NewCirc EXCEPT !.p = "establish"]
  IN  IF best # Nil THEN {<<w, best>>} ELSE Launch(w, new) \cup Launch(w, Opened(new))

\* The other caller of rend_client_get_random_intro.  A circuit that has been
\* in the making for longer than timeout_ms is passed over, though it may live
\* for a third longer, and another is started in parallel.
IntroCirc(w, s) ==
  LET newest == Best(w, Intros, FALSE)
      found == {newest} \cup (IF newest \in Slow THEN {Best(w, Intros, TRUE)} ELSE {})
  IN  UNION {IF best # Nil THEN {<<w, best>>}
             ELSE IF Usable(w) = {} THEN {<<[v EXCEPT !.str[s] = "desc"], Nil>> : v \in Refetch(w)}
             ELSE UNION {Launch(w, [NewCirc EXCEPT !.p = "introducing", !.exit = p]) : p \in Usable(w)} :
               best \in found}

\* rend_client_reextend_intro_circuit: out of RELAY_EARLY cells, or not.
Reextend(w, i) ==
  IF Usable(w) = {} THEN MarkForClose(w, i)
  ELSE {[w EXCEPT !.circ[i] = [NewCirc EXCEPT !.p = "introducing", !.exit = p]] : p \in Usable(w)}
         \cup MarkForClose(w, i)

\* rend_client_send_introduction.
SendIntroduction(w, i, r) ==
  LET u == Check(w, /\ w.circ[i].p = "introducing" /\ w.circ[i].open
                    /\ w.circ[r].p = "ready")
  IN  IF Usable(w) = {} THEN {Moved(v, "circ", "desc") : v \in Refetch(u)}
      ELSE IF w.circ[i].exit \notin Usable(w) THEN Reextend(u, i)
      ELSE {[u EXCEPT !.circ[r].final = TRUE, !.circ[i].for = r, !.circ[i].p = "ackwait",
                      !.circ[i].cell = "introduce1"]}

CloseAll(w, C) == FoldSet(LAMBDA c, ws : Each(ws, LAMBDA u : MarkForClose(u, c)), {w}, C)

\* Mutant: the rendezvous circuit need not be ready yet.
Attach_TooEarly(w, s) ==
  LET joined == Best(w, {"joined"}, TRUE)
  IN  IF joined # Nil THEN {[w EXCEPT !.str[s] = "attached", !.circ[joined].has = @ \cup {s}, !.asked = {}]}
      ELSE Each(RendCirc(w), LAMBDA x : Each(IntroCirc(x[1], s), LAMBDA y :
             IF x[2] # Nil /\ y[2] # Nil /\ y[1].circ[y[2]].open /\ y[1].circ[x[2]].p # "acked"
               THEN SendIntroduction(y[1], y[2], x[2]) ELSE {y[1]}))

\* connection_ap_handshake_attach_circuit for a rendezvous stream.  Circuits
\* to other introduction points are closed once an answer is awaited.
Attach(w, s) ==
  LET joined == Best(w, {"joined"}, TRUE)
      Introduce(u, r) ==
        IF r # Nil /\ u.circ[r].p = "acked" THEN {u}
        ELSE IF Best(u, {"ackwait"}, TRUE) # Nil
          THEN CloseAll(u, {c \in Circuits : u.circ[c].p = "introducing"})
        ELSE Each(IntroCirc(u, s), LAMBDA y :
               IF r # Nil /\ y[2] # Nil /\ y[1].circ[r].p = "ready" /\ y[1].circ[y[2]].open
                 THEN SendIntroduction(y[1], y[2], r) ELSE {y[1]})
  IN  IF joined # Nil THEN {[w EXCEPT !.str[s] = "attached", !.circ[joined].has = @ \cup {s}, !.asked = {}]}
      ELSE Each(RendCirc(w), LAMBDA x : Introduce(x[1], x[2]))

\* connection_ap_attach_pending.
AttachPending(worlds) ==
  FoldSeq(LAMBDA s, ws : Each(ws, LAMBDA w : IF w.str[s] = "circ" THEN Attach(w, s) ELSE {w}),
          worlds, Streams)

\* rend_client_desc_trynow.
TryNow(w) ==
  IF Usable(w) = {} THEN {GiveUp(w)}
  ELSE LET One(ws, s) == Each(ws, LAMBDA u : IF u.str[s] = "desc"
                                             THEN Attach([u EXCEPT !.str[s] = "circ"], s) ELSE {u})
       IN  FoldSeq(LAMBDA s, ws : One(ws, s), {w}, Streams)
-----------------------------------------------------------------------------
(* The client's actions. *)

\* connection_ap_handshake_rewrite_and_attach.
Request(s) ==
  /\ str[s] = "idle"
  /\ Becomes(IF Usable(Client) = {} THEN Refetch([Client EXCEPT !.str[s] = "desc"])
             ELSE Attach([Client EXCEPT !.str[s] = "circ"], s))
  /\ UNCHANGED service

\* circuit_build_needed_circs, every second.
EverySecond ==
  /\ \E s \in AP : str[s] = "circ"
  /\ Becomes(AttachPending({Client}))
  /\ UNCHANGED service

\* SocksTimeout runs out: connection_ap_expire_beginning.
TimesOut(s) ==
  /\ str[s] \in {"desc", "circ"} /\ Becomes({Close(Client, s)}) /\ UNCHANGED service

\* connection_dir_client_reached_eof with status 200.
Fetched(d) ==
  LET new == posted[d]
      u == [Client EXCEPT !.fetches = @ \ {d}]
  IN  /\ d \in fetches /\ new # Nil
      /\ Becomes(TryNow(IF cache # Nil /\ cache.time >= new.time THEN u
                        ELSE [u EXCEPT !.cache = [time |-> new.time,
                                                  left |-> [p \in new.points |-> 0]]]))
      /\ UNCHANGED service

\* A fetch that fails, or finds nothing: connection_dir_about_to_close.
FetchFails(d) ==
  /\ d \in fetches
  /\ Becomes(Refetch([Client EXCEPT !.fetches = @ \ {d}]))
  /\ UNCHANGED service

\* circuit_has_opened.
Built(c) ==
  /\ circ[c].p \in {"establish", "introducing"} /\ ~circ[c].open
  /\ Becomes(AttachPending({[Client EXCEPT !.circ[c] = Opened(@)]}))
  /\ UNCHANGED service

\* rend_client_rendezvous_acked.
RendAcked(c) ==
  /\ circ[c].cell = "established"
  /\ LET u == [Client EXCEPT !.circ[c].cell = "none"]
     IN  Becomes(IF circ[c].p # "establish" THEN MarkForClose(u, c)
                 ELSE AttachPending({[u EXCEPT !.circ[c].p = "ready"]}))
  /\ UNCHANGED service

\* Mutant: any rendezvous circuit that is ready.
Ready_Any(w, i) == {r \in Circuits : w.circ[r].p = "ready"}

\* circuit_get_ready_rend_circ_by_rend_data.
Ready(w, i) == {r \in Circuits : w.circ[r].p = "ready" /\ r = w.circ[i].for}

\* rend_client_introduction_acked: an ACK, or a NAK.
IntroAcked(i) ==
  LET w == [Client EXCEPT !.circ[i].cell = "none"]
      u == [w EXCEPT !.circ = [c \in Circuits |-> IF c \in Ready(w, i) THEN [@[c] EXCEPT !.p = "acked"]
                                                   ELSE @[c]]]
      nak == [w EXCEPT !.circ[i].p = "introducing"]
  IN  /\ circ[i].cell \in {"ack", "nak"}
      /\ Becomes(IF circ[i].p # "ackwait" THEN MarkForClose(w, i)
                 ELSE IF circ[i].cell = "ack"
                   THEN {[u EXCEPT !.circ[i] = [NewCirc EXCEPT !.p = "closed"]]}
                 ELSE Each(Report(nak, circ[i].exit, TRUE),
                           LAMBDA v : IF Usable(nak) # {} /\ Usable(v) # {} THEN Reextend(v, i) ELSE {v}))
      /\ UNCHANGED service

\* rend_client_receive_rendezvous.
Joins(c) ==
  /\ circ[c].cell = "rendezvous2"
  /\ LET u == [Client EXCEPT !.circ[c].cell = "none"]
     IN  Becomes(IF circ[c].p \notin {"ready", "acked"} \/ ~circ[c].final THEN MarkForClose(u, c)
                 ELSE AttachPending({[u EXCEPT !.circ[c].p = "joined", !.circ[c].late = FALSE]}))
  /\ UNCHANGED service

\* circuit_expire_building.
ExpireBuilding(c) ==
  LET o == circ[c]
  IN  /\ o.p \in {"establish", "introducing", "acked", "ackwait"}
      /\ Becomes(IF o.p \in {"acked", "ackwait"} /\ ~o.late
                   THEN {[Client EXCEPT !.circ[c].late = TRUE]} ELSE MarkForClose(Client, c))
      /\ UNCHANGED service

\* The circuit is lost, or has been idle or dirty for too long.
Lost(c) ==
  /\ circ[c].p \notin {"new", "closed"}
  /\ Becomes(MarkForClose(Client, c)) /\ UNCHANGED service
-----------------------------------------------------------------------------
(* The relays. *)

\* rend_mid_establish_rendezvous.
MidEstablish(c) ==
  /\ circ[c].cell = "establish"
  /\ circ' = [circ EXCEPT ![c].cell = "established", ![c].waits = TRUE]
  /\ UNCHANGED <<str, cache, asked, fetches, sound, service>>

\* rend_mid_introduce.
MidIntroduce(i) ==
  LET known == point[circ[i].exit].st = "live"
  IN  /\ circ[i].cell = "introduce1"
      /\ circ' = [circ EXCEPT ![i].cell = IF known THEN "ack" ELSE "nak"]
      /\ inbox' = IF known THEN inbox \cup {<<circ[i].exit, circ[i].for>>} ELSE inbox
      /\ told' = IF known THEN told \cup {circ[i].for} ELSE told
      /\ UNCHANGED <<str, cache, asked, fetches, sound, point, posted, posts, seen, hop, ans>>

\* rend_mid_rendezvous: the circuits are spliced, or the new one is closed.
MidRendezvous(m) ==
  LET c == ans[m].cookie
  IN  /\ ans[m].p = "sent"
      /\ ans' = [ans EXCEPT ![m].p = IF circ[c].waits THEN "spliced" ELSE "closed"]
      /\ circ' = IF circ[c].waits THEN [circ EXCEPT ![c].cell = "rendezvous2", ![c].waits = FALSE, ![c].meet = m]
                 ELSE circ
      /\ UNCHANGED <<str, cache, asked, fetches, sound, point, posted, posts, inbox, seen, hop, told>>
-----------------------------------------------------------------------------
(* The service. *)

Nodes == {p \in Points : point[p].st \notin {"new", "gone"}}

\* rend_services_introduce.  Points that have been expiring since the last
\* call go: the grace period is tested the wrong way round.
ServicesIntroduce(expire) ==
  LET out == {p \in Nodes : point[p].expiring \/ point[p].st = "lost"}
      kept == Nodes \ out
      unexpired == kept \ expire
      target == Wanted + (IF kept = {} THEN 2 ELSE 0)
      n == IF Cardinality(unexpired) < target THEN target - Cardinality(unexpired) ELSE 0
      fresh == {p \in Points : point[p].st = "new"}
      size == IF n < Cardinality(fresh) THEN n ELSE Cardinality(fresh)
  IN  /\ expire \subseteq {p \in kept : point[p].listed}
      /\ out # {} \/ expire # {} \/ Cardinality(unexpired) < Wanted
      /\ \E new \in {X \in SUBSET fresh : Cardinality(X) = size} :
           point' = [p \in Points |->
             IF p \in out THEN [st |-> "gone", expiring |-> FALSE, listed |-> FALSE]
             ELSE IF p \in new THEN [point[p] EXCEPT !.st = "building"]
             ELSE [point[p] EXCEPT !.expiring = p \in expire]]
      /\ inbox' = {x \in inbox : x[1] \notin out}
      /\ UNCHANGED <<client, posted, posts, seen, hop, ans, told>>

Established == {p \in Points : point[p].st \in {"sent", "live"}}

\* rend_service_intro_has_opened: too many make it a general circuit.
IntroOpens(p) ==
  /\ point[p].st = "building"
  /\ point' = [point EXCEPT ![p].st = IF Cardinality(Established) + 1 > Wanted THEN "lost" ELSE "sent"]
  /\ UNCHANGED <<client, posted, posts, inbox, seen, hop, ans, told>>

\* rend_mid_establish_intro, and rend_service_intro_established: between the
\* two nobody can know the point.
IntroEstablished(p) ==
  /\ point[p].st = "sent"
  /\ point' = [point EXCEPT ![p].st = "live"]
  /\ UNCHANGED <<client, posted, posts, inbox, seen, hop, ans, told>>

\* The circuit to the introduction point is lost, or never built.
IntroLost(p) ==
  /\ point[p].st \in {"building", "sent", "live"}
  /\ point' = [point EXCEPT ![p].st = "lost"]
  /\ inbox' = {x \in inbox : x[1] # p}
  /\ UNCHANGED <<client, posted, posts, seen, hop, ans, told>>

\* rend_service_update_descriptor and upload_service_descriptor: some of the
\* directories take it.
Upload(dirs) ==
  LET listed == {p \in Nodes : point[p].st = "live" /\ ~point[p].expiring}
  IN  /\ posts < MaxPosts /\ listed # {}
      /\ posts' = posts + 1
      /\ point' = [p \in Points |-> [point[p] EXCEPT !.listed = p \in listed]]
      /\ posted' = [d \in Dirs |-> IF d \in dirs THEN [time |-> posts + 1, points |-> listed]
                                    ELSE posted[d]]
      /\ UNCHANGED <<client, inbox, seen, hop, ans, told>>

FreshAnswer == {m \in Answers : ans[m].p = "new" /\ \A n \in Answers : ans[n].p = "new" => m <= n}
Connecting(c, fails) == [NewAnswer EXCEPT !.p = "connect", !.cookie = c, !.fails = fails]

\* Mutant: a g^x that was seen before is taken again.
Introduce2_Replays(p, c) ==
  /\ <<p, c>> \in inbox
  /\ inbox' = inbox \ {<<p, c>>} /\ seen' = seen \cup {c}
  /\ \E m \in FreshAnswer : ans' = [ans EXCEPT ![m] = Connecting(c, 0)] /\ hop' = hop \cup {c}
  /\ UNCHANGED <<client, point, posted, posts, told>>

\* rend_service_introduce: a replay is dropped; a launch may fail.
Introduce2(p, c) ==
  /\ <<p, c>> \in inbox
  /\ inbox' = inbox \ {<<p, c>>} /\ seen' = seen \cup {c}
  /\ \/ UNCHANGED <<hop, ans>>
     \/ /\ c \notin seen
        /\ \E m \in FreshAnswer : ans' = [ans EXCEPT ![m] = Connecting(c, 0)]
        /\ hop' = hop \cup {c}
  /\ UNCHANGED <<client, point, posted, posts, told>>

\* rend_service_relaunch_rendezvous, after circuit m became o.
Relaunched(m, o) ==
  LET kept == [ans EXCEPT ![m] = [o EXCEPT !.again = TRUE]]
  IN  IF ans[m].again THEN {[ans EXCEPT ![m] = o]}
      ELSE {kept} \cup {[kept EXCEPT ![n] = Connecting(o.cookie, o.fails + 1)]
                        : n \in IF o.fails > MaxFails THEN {} ELSE FreshAnswer}

\* circuit_expire_building; or circuit_build_failed when it fails by itself.
AnswerFails(m, expires) ==
  /\ ans[m].p = "connect"
  /\ ans' \in Relaunched(m, IF expires /\ ~ans[m].late THEN [ans[m] EXCEPT !.late = TRUE]
                            ELSE [ans[m] EXCEPT !.p = "closed", !.late = FALSE])
  /\ UNCHANGED <<client, point, posted, posts, inbox, seen, hop, told>>

\* Mutant: the shared cpath is not taken out of the reference.
AnswerOpens_KeepsHop(m) ==
  /\ ans[m].p = "connect"
  /\ ans' = [ans EXCEPT ![m].p = IF ans[m].cookie \in hop THEN "sent" ELSE "closed",
                        ![m].sent = ans[m].cookie \in hop]
  /\ UNCHANGED <<client, point, posted, posts, inbox, seen, hop, told>>

\* rend_service_rendezvous_has_opened.
AnswerOpens(m) ==
  /\ ans[m].p = "connect"
  /\ ans' = [ans EXCEPT ![m].p = IF ans[m].cookie \in hop THEN "sent" ELSE "closed",
                        ![m].sent = ans[m].cookie \in hop]
  /\ hop' = hop \ {ans[m].cookie}
  /\ UNCHANGED <<client, point, posted, posts, inbox, seen, told>>

Next ==
  \/ \E s \in AP : Request(s) \/ TimesOut(s)
  \/ EverySecond
  \/ \E d \in Dirs : Fetched(d) \/ FetchFails(d)
  \/ \E c \in Circuits :
       \/ Built(c) \/ RendAcked(c) \/ IntroAcked(c) \/ Joins(c)
       \/ ExpireBuilding(c) \/ Lost(c) \/ MidEstablish(c) \/ MidIntroduce(c)
  \/ \E m \in Answers : MidRendezvous(m) \/ AnswerOpens(m) \/ \E e \in BOOLEAN : AnswerFails(m, e)
  \/ \E X \in SUBSET Points : ServicesIntroduce(X)
  \/ \E p \in Points : \/ IntroOpens(p) \/ IntroEstablished(p) \/ IntroLost(p)
                       \/ \E c \in Circuits : Introduce2(p, c)
  \/ \E D \in SUBSET Dirs : Upload(D)
Spec == Init /\ [][Next]_vars
-----------------------------------------------------------------------------
TypeOK ==
  /\ str \in [AP -> {"idle", "desc", "circ", "attached", "closed"}]
  /\ asked \subseteq Dirs /\ fetches \subseteq Dirs /\ told \subseteq Circuits
  /\ inbox \subseteq Points \X Circuits /\ seen \subseteq Circuits /\ hop \subseteq Circuits
  /\ \A c \in Circuits : circ[c].exit \in Points \cup {Nil} /\ circ[c].meet \in {Nil} \cup Answers

\* No tor_assert of the client's code fails: an introduction is sent on an
\* open circuit for a rendezvous that is ready, and only a circuit that was
\* built waits for its answer.
NoAssertFails == sound

\* A rendezvous circuit counts as introduced only if its own cookie got to the
\* service's circuit, whichever introduction circuit is answered when.
AckedRight == \A r \in Circuits : circ[r].p = "acked" => r \in told

\* However often an introduction is repeated and a circuit to the rendezvous
\* point launched again, one RENDEZVOUS1 answers one g^x, and a circuit that
\* the client has joined is spliced to the one that sent it.
OneAnswer ==
  \A c \in Circuits :
    LET sent == {m \in Answers : ans[m].cookie = c /\ ans[m].sent}
    IN  Cardinality(sent) <= 1 /\ (circ[c].p = "joined" => circ[c].meet \in sent)

\* However often introductions are repeated, given up and acknowledged: no
\* assertion of the client fails, a rendezvous circuit counts as introduced
\* only if its own cookie got to the service, and one RENDEZVOUS1 answers one
\* g^x, on the circuit that is joined.
Introduced == NoAssertFails /\ AckedRight /\ OneAnswer
=============================================================================
