---------------------------- MODULE EntryGuards ----------------------------
(***************************************************************************)
(* circuitbuild.c: the list of entry guards, from which every circuit of a *)
(* client takes its first hop; what becomes of it when connections fail    *)
(* and succeed, when the consensus and the options change, and when the    *)
(* program dies and reads the state file again.                            *)
(*                                                                         *)
(* Time is the flag due (entry_is_time_to_retry) and the choice of a guard *)
(* that is lost: bad for ENTRY_GUARD_REMOVE_AFTER or chosen two months     *)
(* ago.  Bridges, the firewall and the path bias counts are left out.      *)
(***************************************************************************)
EXTENDS Naturals, Sequences, SequencesExt

CONSTANTS
  Nodes,
  Flagged, Stable,   \* the nodes that have the Guard and the Stable flag
  Family,            \* of each node, itself among it
  EntrySets, ExcludeSets, \* the values of the options; no EntryNodes are {}
  NumEntryGuards,
  Lists, Nets,       \* what the consensus may list, and the network reach
  MaxEvents          \* bound: outages, changes of options and consensus, deaths, long waits
VARIABLES
  guards,    \* entry_guards
  addNodes,  \* should_add_entry_nodes
  opts,      \* EntryNodes and ExcludeNodes
  listed, running, \* nodes of the consensus; of them, those thought to run
  net,       \* nodes that can be reached
  pending,   \* nodes to which a connection or a first hop is being made
  dirty, file, \* entry_guards_dirty; the guards in the state file
  events
vars == <<guards, addNodes, opts, listed, running, net, pending, dirty, file, events>>

None == 0
NewGuard(n) ==
  [id |-> n, made |-> FALSE, unreach |-> FALSE, due |-> FALSE, retry |-> FALSE,
   bad |-> FALSE]
IdsOf(g) == {g[i].id : i \in DOMAIN g}
Constrained == opts.entry # {}

Init ==
  /\ guards = <<>> /\ addNodes \in BOOLEAN
  /\ opts \in [entry : EntrySets, exclude : {{}}] /\ (addNodes <=> Constrained)
  /\ listed = Nodes /\ running = Nodes /\ net = Nodes
  /\ pending = {}
  /\ dirty = FALSE /\ file = <<>> /\ events = 0
-----------------------------------------------------------------------------
(* Choosing *)

Live_NoTime(e, uptime, assume) ==
  /\ ~e.bad
  /\ assume \/ e.retry \/ ~e.unreach
  /\ e.id \in listed
  /\ uptime => e.id \in Stable \cup opts.entry

\* entry_is_live.
Live(e, uptime, assume) ==
  /\ ~e.bad
  /\ assume \/ e.retry \/ ~e.unreach \/ e.due
  /\ e.id \in listed
  /\ uptime => e.id \in Stable \cup opts.entry

\* choose_good_entry_server for no circuit, with the second try of
\* router_choose_random_node, which asks for no Guard flag.
Candidates(g) ==
  LET free == (running \ opts.exclude) \ UNION {Family[n] : n \in IdsOf(g)}
  IN  IF free \cap Flagged # {} THEN free \cap Flagged ELSE free

\* add_an_entry_guard without a choice, and pick_entry_guards.
AddOne(g) == {Append(g, NewGuard(n)) : n \in Candidates(g)}
RECURSIVE PickGuards(_)
PickGuards(g) ==
  IF Len(SelectSeq(g, LAMBDA e : Live(e, FALSE, FALSE))) >= NumEntryGuards \/ Candidates(g) = {} THEN {g}
  ELSE UNION {PickGuards(more) : more \in AddOne(g)}

SetFromConfig_KeepsOthers(g) ==
  LET new == ((listed \cap opts.entry) \ opts.exclude) \ IdsOf(g)
      orders == {s \in [1 .. Cardinality(new) -> new] : IsInjective(s)}
  IN  IF ~Constrained THEN {g} ELSE {[i \in DOMAIN s |-> NewGuard(s[i])] \o g : s \in orders}

\* entry_guards_set_from_config.
SetFromConfig(g) ==
  LET wanted == (listed \cap opts.entry) \ opts.exclude
      kept == SelectSeq(g, LAMBDA e : e.id \in wanted)
      new == wanted \ IdsOf(g)
      orders(S) == {s \in [1 .. Cardinality(S) -> S] : IsInjective(s)}
      entries(s) == [i \in DOMAIN s |-> NewGuard(s[i])]
  IN  IF ~Constrained THEN {g}
      ELSE {kept \o entries(a) \o entries(b) : a \in orders(new \cap Flagged), b \in orders(new \ Flagged)}

\* choose_random_entry from "retry:" on: what becomes of the list, and the choice.
RECURSIVE ChooseFrom(_, _, _)
ChooseFrom(g, exit, uptime) ==
  LET live(i) == Live(g[i], uptime, FALSE)
      useful(i) == live(i) /\ (exit # None => g[i].id \notin Family[exit])
      upto(i) == {j \in 1 .. i : useful(j)}
      last(i) == useful(i) /\ (~g[i].made \/ Cardinality(upto(i)) >= NumEntryGuards)
      ends == {i \in DOMAIN g : last(i) /\ \A j \in 1 .. i - 1 : ~last(j)}
      offered == UNION {upto(i) : i \in IF ends = {} THEN {Len(g)} ELSE ends}
      choice == {[guards |-> g, node |-> n] :
                   n \in IF offered = {} THEN {None} ELSE {g[i].id : i \in offered}}
      node == g # <<>> /\ live(Len(g))
      enough == Cardinality(offered) >= IF Constrained THEN 1 ELSE 2
  IN  IF ends # {} \/ enough THEN choice
      ELSE IF ~Constrained /\ Candidates(g) # {}
      THEN UNION {ChooseFrom(more, exit, uptime) : more \in AddOne(g)}
      ELSE IF uptime /\ (Constrained => ~node) THEN ChooseFrom(g, exit, FALSE)
      ELSE choice

ChooseRandomEntry(exit, uptime) ==
  LET configured == IF addNodes THEN SetFromConfig(guards) ELSE {guards}
      picked(g) == IF ~Constrained /\ Len(g) < NumEntryGuards THEN PickGuards(g) ELSE {g}
  IN  UNION {UNION {ChooseFrom(h, exit, uptime) : h \in picked(g)} : g \in configured}

\* A circuit is to be built: circuit_handle_first_hop finds or makes a
\* connection to its guard.
Launch(exit, uptime, n) ==
  \E r \in ChooseRandomEntry(exit, uptime) :
    /\ r.node = n
    /\ guards' = r.guards /\ addNodes' = FALSE
    /\ dirty' = (dirty \/ r.guards # guards \/ (addNodes /\ Constrained))
    /\ pending' = pending \cup ({n} \ {None})
    /\ UNCHANGED <<opts, listed, running, net, file, events>>
-----------------------------------------------------------------------------
(* Connections: entry_guard_register_connect_status *)

Succeeded(n) ==
  LET at(i) == guards[i].id = n
      first(i) == at(i) /\ ~guards[i].made
      again(j) == guards[j].made /\ guards[j].unreach /\ Live(guards[j], FALSE, TRUE)
      earlier == {j \in DOMAIN guards : again(j) /\ \E i \in DOMAIN guards : first(i) /\ j < i}
  IN  [guards |-> [i \in DOMAIN guards |->
                     IF at(i) THEN [guards[i] EXCEPT !.made = TRUE, !.unreach = FALSE, !.due = FALSE,
                                                     !.retry = @ /\ ~guards[i].unreach]
                     ELSE IF i \in earlier THEN [guards[i] EXCEPT !.retry = TRUE] ELSE guards[i]],
       refuse |-> earlier # {}]
Unsuccessful(n) ==
  LET contacted == SelectSeq(guards, LAMBDA e : e.id # n \/ e.made)
  IN  [i \in DOMAIN contacted |->
         IF contacted[i].id = n THEN [contacted[i] EXCEPT !.unreach = TRUE, !.due = FALSE, !.retry = FALSE]
         ELSE contacted[i]]

\* connection_or_set_state_open.  A connection that is there already is like
\* one that is made: the guard is not unreachable and was contacted.
Connected(n) ==
  /\ n \in pending \cap net /\ pending' = pending \ {n}
  /\ guards' = Succeeded(n).guards /\ dirty' = (dirty \/ guards' # guards)
  /\ running' = IF Succeeded(n).refuse THEN running ELSE running \cup {n}
  /\ UNCHANGED <<addNodes, opts, listed, net, file, events>>

\* connection_about_to_close_connection before it is open, or a circuit that
\* times out at its first hop (circuit_build_failed).
Fails(n) ==
  /\ n \in pending \ net /\ pending' = pending \ {n}
  /\ guards' = Unsuccessful(n)
  /\ dirty' = (dirty \/ \E i \in DOMAIN guards : guards[i].id = n /\ ~guards[i].unreach)
  /\ running' = IF n \in IdsOf(guards) THEN running \ {n} ELSE running
  /\ UNCHANGED <<addNodes, opts, listed, net, file, events>>
-----------------------------------------------------------------------------
(* Consensus and options *)

\* entry_guard_set_status.
Unusable(n, l, r) ==
  n \notin l \/ n \notin r \/ n \notin Flagged \cup opts.entry \/ n \in opts.exclude

\* entry_guards_compute_status, with remove_dead_entry_guards and
\* remove_obsolete_entry_guards.
ComputeStatus(g, l, r, lost) ==
  LET judged == [i \in DOMAIN g |-> [g[i] EXCEPT !.bad = Unusable(g[i].id, l, r)]]
  IN  SelectSeq(judged, LAMBDA e : e.id # lost)
HaveInfo(l, r, lost) ==
  /\ listed' = l /\ running' = r
  /\ guards' = ComputeStatus(guards, l, r, lost)
  /\ dirty' = (dirty \/ guards' # guards)
  /\ addNodes' = (addNodes \/ Constrained)
  /\ UNCHANGED <<opts, net, pending, file>>
Event == events < MaxEvents /\ events' = events + 1
Consensus(l) ==
  /\ IF l = listed THEN UNCHANGED events ELSE Event
  /\ HaveInfo(l, l, None)
Descriptors(lost) ==
  /\ HaveInfo(listed, running, lost)
  /\ IF lost \in IdsOf(guards) THEN Event ELSE lost = None /\ UNCHANGED events
\* entries_retry_all: an application asks while all guards are thought down
\* and there is too little directory information for a circuit.
RetryAll ==
  LET known == {i \in DOMAIN guards : guards[i].id \in listed}
  IN  /\ Constrained /\ known # {} /\ \A i \in known : guards[i].id \notin running
      /\ guards' = [i \in DOMAIN guards |->
                      IF i \in known THEN [guards[i] EXCEPT !.retry = TRUE, !.bad = FALSE] ELSE guards[i]]
      /\ running' = running \cup {guards[i].id : i \in known}
      /\ UNCHANGED <<addNodes, opts, listed, net, pending, dirty, file, events>>
SetOptions(o) ==
  /\ o # opts /\ Event /\ opts' = o
  /\ addNodes' = (addNodes \/ o.entry # {})
  /\ UNCHANGED <<guards, listed, running, net, pending, dirty, file>>
-----------------------------------------------------------------------------
(* The state file *)

\* entry_guards_update_state, and a death after which the file is read.
Saved == SelectSeq(guards, LAMBDA e : e.made)
Save ==
  /\ dirty /\ dirty' = FALSE /\ file' = [i \in DOMAIN Saved |-> [Saved[i] EXCEPT !.retry = FALSE]]
  /\ UNCHANGED <<guards, addNodes, opts, listed, running, net, pending, events>>
Restart(lost) ==
  /\ Event
  /\ guards' = SelectSeq(file, LAMBDA e : e.id # lost)
  /\ dirty' = (guards' # file)
  /\ addNodes' = Constrained /\ running' = listed
  /\ pending' = {}
  /\ UNCHANGED <<opts, listed, net, file>>
-----------------------------------------------------------------------------
(* Time and the network *)

TimeToRetry(i) ==
  /\ guards[i].unreach /\ ~guards[i].due /\ guards' = [guards EXCEPT ![i].due = TRUE]
  /\ UNCHANGED <<addNodes, opts, listed, running, net, pending, dirty, file, events>>
NetworkIs(reached) ==
  /\ reached # net /\ (reached = Nodes \/ events < MaxEvents)
  /\ net' = reached /\ events' = IF reached = Nodes THEN events ELSE events + 1
  /\ UNCHANGED <<guards, addNodes, opts, listed, running, pending, dirty, file>>

Next ==
  \/ \E exit \in {None} \cup Nodes, uptime \in BOOLEAN, n \in {None} \cup Nodes : Launch(exit, uptime, n)
  \/ \E n \in Nodes : Connected(n) \/ Fails(n)
  \/ \E l \in Lists : Consensus(l)
  \/ \E o \in [entry : EntrySets, exclude : ExcludeSets] : SetOptions(o)
  \/ \E lost \in {None} \cup Nodes : Descriptors(lost) \/ Restart(lost)
  \/ RetryAll \/ Save
  \/ \E i \in DOMAIN guards : TimeToRetry(i)
  \/ \E reached \in Nets : NetworkIs(reached)
\* The network comes back, new consensuses are fetched, circuits are built
\* again and again and choose at random, attempts end, and time passes.
Offered(n) == n \notin pending /\ \E r \in ChooseRandomEntry(None, FALSE) : r.node = n
Stale == running # Nodes \/ \E i \in DOMAIN guards : guards[i].bad
Fairness ==
  /\ <>[](net = Nodes /\ listed = Nodes)
  /\ []<>~Stale \/ []<><<Consensus(Nodes)>>_vars
  /\ \A n \in Nodes :
       /\ <>[]~Offered(n) \/ []<><<Launch(None, FALSE, n)>>_vars
       /\ []<>(n \notin pending \cap net) \/ []<><<Connected(n)>>_vars
       /\ []<>(n \notin pending \ net) \/ []<><<Fails(n)>>_vars
  /\ \A i \in 1 .. NumEntryGuards :
       []<>(i \notin DOMAIN guards \/ ~guards[i].unreach \/ guards[i].due)
       \/ []<><<i \in DOMAIN guards /\ TimeToRetry(i)>>_vars
Spec == Init /\ [][Next]_vars /\ Fairness
-----------------------------------------------------------------------------
\* What a crash would lose is going to be written.
OnDisk(e) == <<e.id, e.unreach>>
Persisted == ~dirty => [i \in DOMAIN file |-> OnDisk(file[i])] = [i \in DOMAIN Saved |-> OnDisk(Saved[i])]

\* No node is two guards, and a guard that was never contacted is dropped when
\* it fails, and not remembered as unreachable.
EachOnce ==
  /\ \A i, j \in DOMAIN guards : guards[i].id = guards[j].id => i = j
  /\ \A i \in DOMAIN guards : guards[i].unreach => guards[i].made

\* Whatever was configured before and whatever the file says, a circuit starts
\* at one of EntryNodes that is not excluded, and never in its exit's family.
Strict ==
  \A exit \in {None} \cup Nodes, uptime \in BOOLEAN : \A r \in ChooseRandomEntry(exit, uptime) :
    r.node # None =>
      /\ Constrained => r.node \in opts.entry \ opts.exclude
      /\ exit # None => r.node \notin Family[exit]
GuardsSound == Persisted /\ EachOnce /\ Strict

\* After an outage of any kind the first guards of the list are in use again.
Comeback == <>[](\A i \in DOMAIN guards : i <= NumEntryGuards => ~guards[i].unreach)
=============================================================================
