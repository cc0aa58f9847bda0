------------------------- MODULE CircuitBuildTimes -------------------------
(***************************************************************************)
(* circuitbuild.c: how a client learns how long its circuits take to be    *)
(* built (circ_times): the history of build times, the timeouts estimated  *)
(* from it, whether the network is alive, and what the state file keeps.   *)
(*                                                                         *)
(* A time is a small number; its bin is BinWidth of them wide.  The Pareto *)
(* estimate is any number that the formulas can give: Xm is between the    *)
(* least and the greatest of the times, a quantile is at least Xm, and the *)
(* close quantile at least the other.                                      *)
(***************************************************************************)
EXTENDS Naturals, Sequences, FiniteSets

CONSTANTS
  Circuits,
  N,                \* CBT_NCIRCUITS_TO_OBSERVE
  MaxTime, IntMax,  \* the longest a circuit takes; INT32_MAX
  BinWidth,
  MinCircs, MaxTimeouts, InitialTimeout, MinTimeout, RecentCounts, DefaultRecent, \* parameters
  AllMayFail,       \* may N circuits in a row be given up before their first hop?
  MaxEvents         \* bound: consensuses, changes of the options, restarts, failed writes

\* get_xm and the clips of the parameters: a bin is at least 2 wide, so that no
\* midpoint is 0, and every midpoint is below INT32_MAX.
TimesAssumption ==
  /\ {N, BinWidth, MinCircs, MaxTimeouts, DefaultRecent} \cup RecentCounts \subseteq Nat \ {0}
  /\ {MaxTime, IntMax, InitialTimeout, MinTimeout} \subseteq Nat
  /\ BinWidth >= 2 /\ MaxTime + BinWidth <= IntMax /\ MinTimeout <= InitialTimeout

VARIABLES
  times, idx, total,       \* circuit_build_times, build_times_idx, total_build_times
  timeout, close,          \* timeout_ms, close_ms
  nonlive,                 \* nonlive_timeouts > 0
  recent, at,              \* timeouts_after_firsthop, after_firsthop_idx
  circ,                    \* circuits of three hops that are being built
  off,                     \* what disables learning
  freed, strikes, faults,  \* the length recent had; timeouts since it was cleared; what went wrong
  events
learnt == <<times, idx, total, timeout, close>>
world == <<off, events>>
vars == <<learnt, nonlive, recent, at, circ, world, freed, strikes, faults>>

Slots == 0 .. N - 1
Abandoned == IntMax + 1
Built(ts) == {ts[i] : i \in Slots} \ {0, Abandoned}
Most(S) == CHOOSE x \in S : \A y \in S : y <= x
Least(S) == CHOOSE x \in S : \A y \in S : x <= y
Smaller(a, b) == IF a < b THEN a ELSE b
Larger(a, b) == IF a < b THEN b ELSE a
Longest(ts) == Most(Built(ts) \cup {0})
Midpoint(t) == (t \div BinWidth) * BinWidth + BinWidth \div 2

NoTimes == [i \in Slots |-> 0]
Disabled == off # {}
Enough == total >= MinCircs
NoCircuit == [building |-> FALSE, first |-> FALSE, quiet |-> FALSE, measured |-> FALSE]
Cleared == [i \in 1 .. DefaultRecent |-> FALSE]

Init ==
  /\ times = NoTimes /\ idx = 0 /\ total = 0
  /\ timeout = InitialTimeout /\ close = InitialTimeout
  /\ nonlive = FALSE /\ recent = Cleared /\ at = 0 /\ freed = 0
  /\ circ = [c \in Circuits |-> NoCircuit]
  /\ off = {} /\ strikes = 0 /\ faults = {} /\ events = 0
-----------------------------------------------------------------------------
(* Estimating.  h is a history, with its timeouts: [times, total, timeout, close]. *)

\* circuit_build_times_get_xm with create_histogram.
Xms(ts) == LET m == {Midpoint(t) : t \in Built(ts)} IN Least(m) .. Most(m)

\* set_timeout_worker, when update_alpha gives an estimate.
Capped(h, quantile, closeQuantile) ==
  LET longest == Longest(h.times)
      wide == Larger(closeQuantile, InitialTimeout)
  IN  [h EXCEPT !.timeout = Smaller(quantile, longest),
                !.close = IF longest < IntMax \div 2 THEN Smaller(wide, 2 * longest) ELSE wide]
\* circuit_build_times_set_timeout after it.
Floored(h) ==
  IF h.timeout >= MinTimeout THEN h
  ELSE [h EXCEPT !.timeout = MinTimeout, !.close = IF @ < MinTimeout THEN InitialTimeout ELSE @]

\* circuit_build_times_set_timeout: what may become of h.  fault: one of the
\* assertions of get_xm and update_alpha fails.
Estimates(h) ==
  LET used == Cardinality({i \in Slots : h.times[i] # 0})
      above(xm) == {t \in Built(h.times) : t >= xm}
      guesses(xm) == {q \in (xm .. IntMax) \X (xm .. IntMax) : q[1] <= q[2]}
  IN  IF h.total < MinCircs THEN {[h |-> h, fault |-> {}]}
      ELSE IF Built(h.times) = {} \/ used # h.total THEN {[h |-> h, fault |-> {"assert"}]}
      ELSE UNION {IF above(xm) = {} THEN {[h |-> h, fault |-> {}]}
                  ELSE {[h |-> Floored(Capped(h, q[1], q[2])), fault |-> {}] : q \in guesses(xm)} :
                    xm \in Xms(h.times)}

Now == [times |-> times, total |-> total, idx |-> idx, timeout |-> timeout, close |-> close]
\* circuit_build_times_add_time.
Added(h, t) ==
  IF t = 0 THEN h
  ELSE [h EXCEPT !.times[h.idx] = t, !.idx = (@ + 1) % N, !.total = Smaller(@ + 1, N)]
Becomes(h) ==
  /\ times' = h.times /\ idx' = h.idx /\ total' = h.total
  /\ timeout' = h.timeout /\ close' = h.close
Learn(h) ==
  \E e \in IF Disabled THEN {[h |-> h, fault |-> {}]} ELSE Estimates(h) :
    Becomes(e.h) /\ faults' = faults \cup e.fault
-----------------------------------------------------------------------------
(* The network *)

\* circuit_build_times_network_is_live, when a TLS handshake is done and for
\* every cell.  A circuit is quiet if it was launched after the last time.
IsLive(cs) ==
  /\ nonlive' = FALSE
  /\ circ' = [c \in Circuits |-> [cs[c] EXCEPT !.quiet = FALSE]]

Launch(c) ==
  /\ ~circ[c].building
  /\ \E q \in BOOLEAN : circ' = [circ EXCEPT ![c] = [NoCircuit EXCEPT !.building = TRUE, !.quiet = q]]
  /\ UNCHANGED <<learnt, nonlive, recent, at, world, freed, strikes, faults>>
Alive ==
  /\ IsLive(circ)
  /\ UNCHANGED <<learnt, recent, at, world, freed, strikes, faults>>
FirstHop(c) ==
  /\ circ[c].building /\ IsLive([circ EXCEPT ![c].first = TRUE])
  /\ UNCHANGED <<learnt, recent, at, world, freed, strikes, faults>>

\* The slot at of recent is written, even if recent is shorter than that.
Noted(mark) ==
  IF recent = <<>> THEN UNCHANGED <<recent, at>>
  ELSE /\ recent' = [i \in DOMAIN recent |-> IF i = at + 1 THEN mark ELSE recent[i]]
       /\ at' = (at + 1) % Len(recent)

\* circuit_send_next_onion_skin, when the circuit is open.  It took t.
Complete(c, t) ==
  /\ circ[c].building /\ circ[c].first
  /\ IsLive([circ EXCEPT ![c] = NoCircuit])
  /\ IF t > 2 * close + 1 \/ Disabled THEN UNCHANGED <<learnt, recent, at, faults>>
     ELSE /\ Learn(Added(Now, t))
          /\ IF circ[c].measured THEN UNCHANGED <<recent, at>> ELSE Noted(FALSE)
  /\ UNCHANGED <<world, freed, strikes>>
-----------------------------------------------------------------------------
(* Timeouts: circuit_expire_building *)

GiveUp(c) == circ' = [circ EXCEPT ![c] = NoCircuit]
Initially == timeout' = InitialTimeout /\ close' = InitialTimeout /\ UNCHANGED <<times, idx, total>>

\* circuit_build_times_network_check_changed, when too many timed out.
Longer ==
  IF timeout < InitialTimeout THEN timeout' = InitialTimeout /\ close' = InitialTimeout
  ELSE IF timeout > IntMax \div 2 \/ close > IntMax \div 2 THEN UNCHANGED <<timeout, close>>
  ELSE timeout' = 2 * timeout /\ close' = 2 * close

Forget_Ring(r, n) ==
  /\ times' = NoTimes /\ idx' = 0 /\ total' = 0 /\ Longer
  /\ recent' = r /\ at' = 0
  /\ strikes' = 0 /\ faults' = faults \cup IF n < MaxTimeouts THEN {"hasty"} ELSE {}
Forget(r, n) ==
  /\ times' = NoTimes /\ idx' = 0 /\ total' = 0 /\ Longer
  /\ recent' = [i \in DOMAIN r |-> FALSE] /\ at' = 0
  /\ strikes' = 0 /\ faults' = faults \cup IF n < MaxTimeouts THEN {"hasty"} ELSE {}

\* circuit_build_times_count_timeout: the circuit will be measured only.
TooSlow(c) ==
  /\ circ[c].building /\ Enough /\ ~circ[c].measured
  /\ circ' = [circ EXCEPT ![c].measured = TRUE]
  /\ LET r == IF circ[c].first THEN [i \in DOMAIN recent |-> i = at + 1 \/ recent[i]] ELSE recent
         n == strikes + IF circ[c].first /\ recent # <<>> THEN 1 ELSE 0
     IN  IF Disabled THEN Initially /\ UNCHANGED <<recent, at, strikes, faults>>
         ELSE IF Cardinality({i \in DOMAIN r : r[i]}) >= MaxTimeouts THEN Forget(r, n)
         ELSE /\ IF circ[c].first THEN Noted(TRUE) ELSE UNCHANGED <<recent, at>>
              /\ strikes' = Smaller(n, MaxTimeouts) /\ UNCHANGED <<learnt, faults>>
  /\ UNCHANGED <<nonlive, world, freed>>

\* circuit_build_times_count_close, unless the clock must have jumped.
MuchTooSlow(c) ==
  /\ circ[c].building /\ Enough /\ circ[c].measured /\ GiveUp(c)
  /\ IF Disabled THEN Initially /\ UNCHANGED <<nonlive, faults>>
     ELSE /\ nonlive' = (nonlive \/ circ[c].quiet)
          /\ faults' = faults \cup IF circ[c].quiet /\ circ[c].first THEN {"somehow"} ELSE {}
          /\ nonlive' /\ UNCHANGED learnt
  /\ UNCHANGED <<recent, at, world, freed, strikes>>
Abandon(c) ==
  /\ circ[c].building /\ Enough /\ circ[c].measured /\ GiveUp(c)
  /\ ~Disabled /\ ~nonlive /\ ~circ[c].quiet
  /\ AllMayFail \/ Built([times EXCEPT ![idx] = 0]) # {}
  /\ Learn(Added(Now, Abandoned))
  /\ UNCHANGED <<nonlive, recent, at, world, freed, strikes>>
ClockJumped(c) ==
  /\ circ[c].building /\ (circ[c].measured \/ ~Enough)
  /\ GiveUp(c)
  /\ UNCHANGED <<learnt, nonlive, recent, at, world, freed, strikes, faults>>
-----------------------------------------------------------------------------
(* Parameters and options *)

Event == events < MaxEvents /\ events' = events + 1

\* circuit_build_times_new_consensus_params, after networkstatus_set_current_consensus.
NewConsensus(num, disable) ==
  /\ Event
  /\ off' = IF disable THEN off \cup {"consensus"} ELSE off \ {"consensus"}
  /\ IF off' # {}
     THEN recent' = <<>> /\ freed' = Larger(freed, Len(recent)) /\ UNCHANGED at
     ELSE /\ recent' = [i \in 1 .. num |-> i <= Len(recent) /\ recent[i]]
          /\ at' = IF num < Len(recent) THEN Smaller(num - 1, at) ELSE at
          /\ UNCHANGED freed
  /\ UNCHANGED <<learnt, nonlive, circ, strikes, faults>>
SetOption(learn) ==
  /\ Event /\ learn = ("config" \in off)
  /\ off' = IF learn THEN off \ {"config"} ELSE off \cup {"config"}
  /\ UNCHANGED <<learnt, nonlive, recent, at, circ, freed, strikes, faults>>
-----------------------------------------------------------------------------
(* The state file *)

\* circuit_build_times_update_state and or_state_save.
Count(P) == Cardinality({i \in Slots : P[i]})
Saved ==
  [bins |-> [b \in {Midpoint(t) : t \in Built(times)} |->
               Count([i \in Slots |-> times[i] \in Built(times) /\ Midpoint(times[i]) = b])],
   abandoned |-> Count([i \in Slots |-> times[i] = Abandoned]), total |-> total]
Save ==
  /\ off' = off \ {"file"}
  /\ UNCHANGED <<learnt, nonlive, recent, at, circ, events, freed, strikes, faults>>
SaveFails ==
  /\ Event /\ off' = off \cup {"file"}
  /\ UNCHANGED <<learnt, nonlive, recent, at, circ, freed, strikes, faults>>

\* circuit_build_times_parse_state: every order of the times in the file.
Loaded(file) ==
  LET in(ts, t) == Count([i \in Slots |-> ts[i] = t])
      right(ts) == /\ \A i \in Slots : (ts[i] # 0) = (i < file.total)
                   /\ \A b \in DOMAIN file.bins : in(ts, b) = file.bins[b]
                   /\ in(ts, Abandoned) = file.abandoned
      fresh(ts) == [times |-> ts, total |-> file.total, idx |-> file.total % N,
                    timeout |-> InitialTimeout, close |-> InitialTimeout]
  IN  {fresh(ts) : ts \in {x \in [Slots -> DOMAIN file.bins \cup {0, Abandoned}] : right(x)}}
\* circuit_build_times_filter_timeouts.
Filtered(h) ==
  IF Abandoned \in {h.times[i] : i \in Slots} THEN h
  ELSE [h EXCEPT !.times = [i \in Slots |-> IF h.times[i] > h.close THEN Abandoned ELSE h.times[i]]]
\* A death loses what was learnt after a save, so nothing is lost by dying
\* right after it.
Restart ==
  /\ Event /\ off' = off \cap {"config"}
  /\ circ' = [c \in Circuits |-> NoCircuit] /\ nonlive' = FALSE
  /\ at' = 0 /\ strikes' = 0 /\ freed' = 0
  /\ recent' = IF "config" \in off THEN <<>> ELSE Cleared
  /\ IF "config" \in off \/ Loaded(Saved) = {}
     THEN /\ times' = NoTimes /\ idx' = 0 /\ total' = 0 /\ UNCHANGED faults
          /\ timeout' = InitialTimeout /\ close' = InitialTimeout
     ELSE \E h \in Loaded(Saved) : \E e \in Estimates(h) :
            Becomes(Filtered(e.h)) /\ faults' = faults \cup e.fault

Next ==
  \/ \E c \in Circuits :
       \/ Launch(c) \/ FirstHop(c) \/ TooSlow(c) \/ MuchTooSlow(c) \/ Abandon(c) \/ ClockJumped(c)
       \/ \E t \in 0 .. MaxTime : Complete(c, t)
  \/ Alive
  \/ \E num \in RecentCounts, disable \in BOOLEAN : NewConsensus(num, disable)
  \/ \E learn \in BOOLEAN : SetOption(learn)
  \/ Save \/ SaveFails \/ Restart
Spec == Init /\ [][Next]_vars
-----------------------------------------------------------------------------
\* The total is the number of times, and they fill the array from its start:
\* what parse_state requires of a file, and update_alpha asserts.
HistorySound ==
  /\ \A i \in Slots : times[i] # 0 <=> i < total
  /\ idx = total % N \/ total = N

\* A file that this program wrote is never refused as corrupt.
FileSound == Loaded(Saved) # {}

\* A circuit is never closed before it is given up for slow, and the timeout
\* is neither 0 nor less than the parameter says.
TimeoutsOrdered == MinTimeout <= timeout /\ timeout <= close

\* Marks are written inside recent, unless it was freed while learning was
\* disabled, and a consensus then made it shorter: the index is not adjusted.
RingInside == recent # <<>> => at < Len(recent) \/ at < freed

\* No assertion fails; the history is not forgotten before MaxTimeouts
\* circuits timed out since it last was; and no circuit makes a hop on a
\* network that is thought dead.
NoFaults == faults = {}
TimesSound == HistorySound /\ FileSound /\ TimeoutsOrdered /\ RingInside /\ NoFaults
=============================================================================
