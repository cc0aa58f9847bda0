------------------------------ MODULE EventDns ------------------------------
(* The stub resolver of an exit (eventdns.c), and how dns.c configures it.   *)
(* A request is in flight at one nameserver or waits for room in flight.     *)
(* Requests time out, are sent again, are passed to another server when one  *)
(* refuses them, and are all suspended while the servers are replaced.  A    *)
(* server that fails is left alone until a probe to it is answered.          *)
(* send() may succeed, block or fail each time it is called, so the helpers  *)
(* that send give the set of worlds they may leave.  The names asked for and *)
(* the packets are left out: a request is known by what it is for.  A        *)
(* callback that asks for another name does so in a step of its own.         *)
EXTENDS Naturals, Sequences, FiniteSets, SequencesExt, TLC

CONSTANTS Servers, Lookups,
          Checks,         \* the lookups that dns.c itself makes now and then
          Configs,        \* the contents a resolv.conf may have
          MaxInflight,    \* global_max_requests_inflight
          MaxTimeouts,    \* global_max_nameserver_timeout
          MaxTransmits,   \* global_max_retransmits
          MaxReissues,    \* global_max_reissues
          MaxProbes,      \* bound on the probes under way at once
          MaxSearch,      \* how many names more are tried; 0 without ServerDNSSearchDomains
          Nil

VARIABLES dns

vars == dns

ToAll(v) == [s \in Servers |-> v]

NoServers == [list |-> << >>, up |-> ToAll(FALSE), timedout |-> ToAll(0), choked |-> ToAll(FALSE),
              writing |-> ToAll(FALSE), prod |-> ToAll(FALSE), good |-> 0]

Nothing == NoServers @@ [inflight |-> << >>, waiting |-> << >>, n |-> 0, asked |-> {},
                         configured |-> TRUE, crashed |-> FALSE, unresumed |-> FALSE]

Listed(w, s) == s \in Range(w.list)

(* nameserver_pick: the list is left with the server after the picked one in *)
(* front, or, when no server is good, with the picked one in front.          *)
Turned(list, k) == SubSeq(list, k + 1, Len(list)) \o SubSeq(list, 1, k)

FirstGood(w) == SelectInSeq(w.list, LAMBDA s : w.up[s])

Picked(w) == IF w.list = << >> THEN Nil
             ELSE IF w.good = 0 THEN Turned(w.list, 1)[1] ELSE w.list[FirstGood(w)]

AfterPick(w) == IF w.list = << >> THEN w
                ELSE [w EXCEPT !.list = Turned(@, IF w.good = 0 THEN 1 ELSE FirstGood(w))]

Pick(w, i) == [AfterPick(w) EXCEPT !.inflight[i].ns = Picked(w)]

(* nameserver_failed: what was not sent to it yet moves to another server.   *)
Reassigned(w, s) ==
  LET one(v, i) == IF v.inflight[i].tx = 0 /\ v.inflight[i].ns = s THEN Pick(v, i) ELSE v
  IN FoldLeft(one, w, [i \in DOMAIN w.inflight |-> i])

Failed(w, s) ==
  IF ~w.up[s] THEN w
  ELSE LET v == [w EXCEPT !.up[s] = FALSE, !.prod[s] = TRUE, !.good = @ - 1]
       IN IF v.good = 0 THEN v ELSE Reassigned(v, s)

Up(w, s) == IF w.up[s] THEN w
            ELSE [w EXCEPT !.up[s] = TRUE, !.prod[s] = FALSE, !.timedout[s] = 0, !.good = @ + 1]

ProbeFailed(w, s) == [w EXCEPT !.prod[s] = ~w.up[s]]

(* A mutant: what was blocked is not waited for.                             *)
Transmit_NotWatched(w, i) ==
  IF w.choked[w.inflight[i].ns] THEN {[w EXCEPT !.inflight[i].me = TRUE]}
  ELSE {[w EXCEPT !.choked[w.inflight[i].ns] = TRUE, !.inflight[i].me = TRUE],
        [w EXCEPT !.inflight[i].timer = TRUE, !.inflight[i].tx = @ + 1, !.inflight[i].me = FALSE,
                  !.inflight[i].got = @ \cup {w.inflight[i].ns}]}

(* evdns_request_transmit: sent, blocked, or refused by the kernel, in which *)
(* case the timer is set as if it had been sent.                             *)
Transmit(w, i) ==
  LET ns == w.inflight[i].ns
      marked == [w EXCEPT !.inflight[i].me = TRUE]
      timed(v) == [v EXCEPT !.inflight[i].timer = TRUE, !.inflight[i].tx = @ + 1,
                            !.inflight[i].me = FALSE]
  IN IF w.choked[ns] THEN {marked}
     ELSE {[marked EXCEPT !.choked[ns] = TRUE, !.writing[ns] = TRUE],
           timed([marked EXCEPT !.inflight[i].got = @ \cup {ns}]),
           timed(Failed(marked, ns))}

RECURSIVE TransmitFrom(_, _)
TransmitFrom(w, i) ==
  IF i > Len(w.inflight) THEN {w}
  ELSE UNION {TransmitFrom(v, i + 1) : v \in IF w.inflight[i].me THEN Transmit(w, i) ELSE {w}}

TransmitAll(w) == TransmitFrom(w, 1)

(* evdns_requests_pump_waiting_queue.  Without a server it would follow a    *)
(* NULL pointer.  unresumed: nothing was pumped since the servers changed.   *)
RECURSIVE Pump(_)
Pump(w) ==
  IF w.n >= MaxInflight \/ w.waiting = << >> THEN {[w EXCEPT !.unresumed = FALSE]}
  ELSE IF w.list = << >> THEN {[w EXCEPT !.crashed = TRUE]}
  ELSE LET last == Len(w.inflight) + 1
           moved == Pick([w EXCEPT !.waiting = Tail(@), !.n = @ + 1,
                                   !.inflight = Append(@, Head(w.waiting))], last)
       IN UNION {UNION {Pump(u) : u \in TransmitAll(v)} : v \in Transmit(moved, last)}

Finish(w, i) == Pump([w EXCEPT !.inflight = RemoveAt(@, i), !.n = @ - 1])

(* request_new and request_submit: a request goes out at once if there is    *)
(* room and a server; a probe goes out whatever there is.                    *)
Request(for, left) == [for |-> for, left |-> left, ns |-> Nil, tx |-> 0, re |-> 0,
                       me |-> FALSE, timer |-> FALSE, got |-> {}]

\* left is how many more names are tried if the first one does not exist.
SearchFor(l, left) == Request(l, left)

Forced(w, r, ns) == Transmit([w EXCEPT !.inflight = Append(@, [r EXCEPT !.ns = ns]), !.n = @ + 1],
                             Len(w.inflight) + 1)

Submit(w, r) == IF w.n < MaxInflight /\ w.list # << >> THEN Forced(AfterPick(w), r, Picked(w))
                ELSE {[w EXCEPT !.waiting = Append(@, r), !.unresumed = @ \/ w.list = << >>]}

IsProbe(r) == r.for \in Servers

(* The user's callback, or nameserver_probe_callback, which looks the server *)
(* up by its address.                                                        *)
Answer(w, r, good) ==
  IF ~IsProbe(r) THEN [w EXCEPT !.asked = @ \ {r.for}]
  ELSE IF ~Listed(w, r.for) THEN w
  ELSE IF good THEN Up(w, r.for) ELSE ProbeFailed(w, r.for)

(* launch_resolve and dns_launch_correctness_checks.                         *)
Ask(l, left) ==
  /\ l \notin dns.asked
  /\ dns.configured \/ l \in Checks
  /\ l \in Checks => left = 0
  /\ dns' \in Submit([dns EXCEPT !.asked = @ \cup {l}], SearchFor(l, left))

(* reply_handle and what it calls.                                           *)
GiveUp(w, i) ==
  LET r == w.inflight[i]
  IN IF r.left > 0
     THEN UNION {Finish(v, i) : v \in Submit(w, Request(r.for, r.left - 1))}
     ELSE Finish(Answer(w, r, FALSE), i)

Accept(w, i) == Finish(Up(Answer(w, w.inflight[i], TRUE), w.inflight[i].ns), i)

(* request_reissue neither sends the request nor stops the old timer.        *)
Reissue(w, i) ==
  LET v == Failed(w, w.inflight[i].ns)
      again == Pick(v, i)
  IN IF Picked(v) = v.inflight[i].ns THEN GiveUp(again, i)
     ELSE {[again EXCEPT !.inflight[i].re = @ + 1, !.inflight[i].tx = 0, !.inflight[i].me = TRUE]}

Missing(w, i) ==  \* the name does not exist
  LET v == Up(w, w.inflight[i].ns) IN
  IF IsProbe(w.inflight[i]) THEN Finish(Answer(v, w.inflight[i], TRUE), i) ELSE GiveUp(v, i)

Handled(w, i, kind) ==
  CASE kind = "answer" -> Accept(w, i)
    [] kind = "missing" -> Missing(w, i)
    [] kind = "odd" -> GiveUp(Up(w, w.inflight[i].ns), i)
    [] kind = "servfail" -> GiveUp(w, i)
    [] kind = "refused" -> IF w.inflight[i].re < MaxReissues THEN Reissue(w, i) ELSE GiveUp(w, i)

(* What reply_parse makes of a packet: an answer of the type asked for; rcode *)
(* 3; rcode 4 or 5; rcode 2; or "odd", anything else: truncated, malformed,  *)
(* another rcode, another name, or no answer of that type.                   *)
Kinds == {"answer", "missing", "odd", "servfail", "refused"}

(* nameserver_read: the answer may come from any server the request was sent *)
(* to under its transaction id.                                              *)
Reply(i, s, kind) ==
  /\ i \in DOMAIN dns.inflight /\ s \in dns.inflight[i].got /\ Listed(dns, s)
  /\ dns' \in Handled([dns EXCEPT !.timedout[s] = 0], i, kind)

ReadFails(s) == Listed(dns, s) /\ dns.up[s] /\ dns' = Failed(dns, s)

(* evdns_request_timeout_callback.                                           *)
Blamed(w, s) ==
  IF w.timedout[s] + 1 > MaxTimeouts THEN Failed([w EXCEPT !.timedout[s] = 0], s)
  ELSE [w EXCEPT !.timedout[s] = @ + 1]

Retried(w, i) == IF w.inflight[i].tx >= MaxTransmits
                 THEN Finish(Answer(w, w.inflight[i], FALSE), i)
                 ELSE Transmit(w, i)

Timeout(i) ==
  /\ i \in DOMAIN dns.inflight /\ dns.inflight[i].timer
  /\ dns' \in Retried(Blamed([dns EXCEPT !.inflight[i].timer = FALSE], dns.inflight[i].ns), i)

(* nameserver_ready_callback with EV_WRITE.                                  *)
Writable(s) ==
  /\ dns.writing[s]
  /\ LET w == [dns EXCEPT !.choked[s] = FALSE]
     IN IF \E i \in DOMAIN w.inflight : w.inflight[i].me THEN dns' \in TransmitAll(w)
        ELSE dns' = [w EXCEPT !.writing[s] = FALSE]

(* nameserver_send_probe, from the timer of a server that is down: the       *)
(* request is made, which turns the list, and then given this server.        *)
Probes == Cardinality({i \in DOMAIN dns.inflight : IsProbe(dns.inflight[i])})
          + Cardinality({i \in DOMAIN dns.waiting : IsProbe(dns.waiting[i])})

Prod(s) ==
  /\ dns.prod[s] /\ Probes < MaxProbes
  /\ LET w == [dns EXCEPT !.prod[s] = FALSE]
     IN dns' \in Forced(IF w.n < MaxInflight THEN AfterPick(w) ELSE w, Request(s, 0), s)

(* evdns_clear_nameservers_and_suspend: the requests in flight are put, one  *)
(* by one, in front of those that wait.                                      *)
Suspended(r) == [r EXCEPT !.ns = Nil, !.tx = 0, !.re = 0, !.me = FALSE, !.timer = FALSE, !.got = {}]

Clear(w) ==
  IF w.list = << >> THEN w
  ELSE NoServers @@ [w EXCEPT !.waiting = [i \in DOMAIN w.inflight |-> Suspended(Reverse(w.inflight)[i])] \o @,
                              !.inflight = << >>, !.n = 0]

(* _evdns_nameserver_add_impl: after the head of the list.                   *)
Add(w, s) ==
  IF Listed(w, s) THEN w
  ELSE [w EXCEPT !.list = IF @ = << >> THEN <<s>> ELSE <<Head(@), s>> \o Tail(@),
                 !.up[s] = TRUE, !.good = @ + 1]

\* dns_init has found a file that can be used.
Init == \E file \in Configs : dns = FoldLeft(Add, Nothing, file)

Cleared(w) == IF w.configured THEN Clear(w) ELSE w

(* configure_nameservers with a file that can be used.                       *)
Configure(file) ==
  LET w == FoldLeft(Add, Cleared(dns), file)
  IN \E v \in IF dns.configured THEN Pump(w) ELSE {w} : dns' = [v EXCEPT !.configured = TRUE]

(* The file is gone, or is unreadable, or names no server: in some of these  *)
(* cases a server on this host is added and the failure is reported anyway.  *)
NoFile == dns' = [dns EXCEPT !.configured = FALSE]

BadFile(file) ==
  LET w == Cleared(dns)
  IN dns' = [FoldLeft(Add, w, file) EXCEPT !.configured = FALSE, 
                                         !.unresumed = w.waiting # << >> /\ w.n < MaxInflight]

Reconfigure == \/ \E f \in Configs : Configure(f)
               \/ NoFile
               \/ \E f \in {<< >>} \cup {<<s>> : s \in Servers} : BadFile(f)

Next == \/ \E l \in Lookups, left \in 0 .. MaxSearch : Ask(l, left)
        \/ \E i \in DOMAIN dns.inflight : \E s \in Servers, k \in Kinds : Reply(i, s, k)
        \/ \E i \in DOMAIN dns.inflight : Timeout(i)
        \/ \E s \in Servers : ReadFails(s) \/ Writable(s) \/ Prod(s)
        \/ Reconfigure

-----------------------------------------------------------------------------
Requests == dns.inflight \o dns.waiting

Of(x) == Cardinality({i \in DOMAIN Requests : Requests[i].for = x})

(* Every lookup somebody waits for is asked exactly once, in flight or       *)
(* waiting, and no other is.                                                 *)
EachOnce == \A l \in Lookups : Of(l) = IF l \in dns.asked THEN 1 ELSE 0

(* The counters tell the truth; nothing is pumped without a server.          *)
CountsRight == /\ dns.n = Len(dns.inflight)
               /\ dns.good = Cardinality({s \in Range(dns.list) : dns.up[s]})
               /\ ~dns.crashed

(* Nothing in flight is forgotten: a timer runs for it, or it is to be sent  *)
(* as soon as some server can be written to.                                 *)
SomethingWakes == \A i \in DOMAIN dns.inflight :
                    LET r == dns.inflight[i] IN
                    /\ Listed(dns, r.ns)
                    /\ r.timer \/ (r.me /\ \E s \in Range(dns.list) : dns.writing[s])

(* No request waits while there is room and a server, except after a         *)
(* configuration that failed: nothing resumes the requests it suspended, nor *)
(* does the next configuration that works, until some request is finished.   *)
RoomIsUsed == dns.waiting # << >> /\ dns.list # << >> /\ dns.n < MaxInflight => dns.unresumed

(* A server that is down is going to be probed, or is being probed.          *)
DownIsProbed == \A s \in Range(dns.list) : ~dns.up[s] => dns.prod[s] \/ Of(s) > 0

Sound == EachOnce /\ CountsRight /\ SomethingWakes /\ RoomIsUsed /\ DownIsProbed
=============================================================================
