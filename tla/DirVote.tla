------------------------------ MODULE DirVote ------------------------------
(***************************************************************************)
(* The directory authorities' vote (dirvote.c): each makes a vote, gathers *)
(* the others', computes a consensus from those it has, signs it, gathers  *)
(* the others' signatures, and publishes what a majority has signed.       *)
(*                                                                         *)
(* A consensus is the set of votes it was computed from (ConsensusDoc has  *)
(* the computation); of its two flavors one is modelled.  Votes and        *)
(* signatures are posted, and fetched from whoever has them, so that one   *)
(* that was made may arrive anywhere, at any time, again, or never.  The   *)
(* authorities' clocks differ: each goes through the intervals by itself.  *)
(***************************************************************************)
EXTENDS Naturals, FiniteSets, Functions

CONSTANTS
  Auths,         \* the V3 authorities
  MaxInterval,   \* a bound: voting intervals
  MaxRestarts,   \* a bound: restarts of authorities
  Nil

VARIABLES
  auth,       \* the state of each authority
  restarts,   \* how often each was restarted; also the time its votes are published
  votes,      \* every vote that was posted
  signed,     \* every signature that was posted
  published   \* history: what was published
vars == <<auth, restarts, votes, signed, published>>

\* i: the interval that voting_schedule is for.  done: which of its steps were
\* taken.  doc, sigs: the pending consensus.  queue: signatures that came first.
Fresh(i) == [i |-> i, done |-> "nothing", pending |-> {}, doc |-> Nil, sigs |-> {}, queue |-> {}]

Init ==
  /\ auth = [a \in Auths |-> Fresh(1)] /\ restarts = [a \in Auths |-> 0]
  /\ votes = {} /\ signed = {} /\ published = {}

Voters(doc) == {v.who : v \in doc}

\* dirvote_add_vote.  A vote for another interval is rejected, and so is one
\* that is not newer than the one its author already has here.
Added(o, v) ==
  LET mine == {w \in o.pending : w.who = v.who}
  IN  IF v.i # o.i \/ \E w \in mine : v.time <= w.time THEN o
      ELSE [o EXCEPT !.pending = (@ \ mine) \cup {v}]

\* dirvote_perform_vote: without a certificate that is valid there is no vote.
PerformVote(a) ==
  LET v == [who |-> a, i |-> auth[a].i, time |-> restarts[a]]
      o == Added(auth[a], v)
  IN  /\ auth[a].done = "nothing" /\ auth[a].i <= MaxInterval
      /\ \E stored \in {(v \in o.pending), FALSE} :
           /\ votes' = IF stored THEN votes \cup {v} ELSE votes
           /\ auth' = [auth EXCEPT ![a] = [(IF stored THEN o ELSE @) EXCEPT !.done = "voted"]]
      /\ UNCHANGED <<restarts, signed, published>>

\* Once its consensus is made an authority keeps votes for others only.
ReceiveVote(a, v) ==
  /\ auth[a].done # "built"
  /\ auth' = [auth EXCEPT ![a] = Added(@, v)] /\ auth' # auth
  /\ UNCHANGED <<restarts, votes, signed, published>>

\* Mutant: the digest of the signed document is not compared.
Accepts_Anything(o, s) == s.i = o.i /\ s.who \in Voters(o.doc)

\* networkstatus_add_detached_signatures.
Accepts(o, s) == s.i = o.i /\ s.doc = o.doc /\ s.who \in Voters(o.doc)

\* dirvote_compute_consensuses.  A consensus that does not list its author
\* cannot be parsed.
ComputeConsensus(a) ==
  LET o == auth[a]
      able == Cardinality(o.pending) > Cardinality(Auths) \div 2 /\ a \in Voters(o.pending)
      doc == [o EXCEPT !.doc = o.pending, !.pending = {}]
      s == [who |-> a, i |-> o.i, doc |-> o.pending]
      early == {t \in o.queue : Accepts(doc, t)}
  IN  /\ o.done = "voted"
      /\ signed' = IF able THEN signed \cup {s} ELSE signed
      /\ auth' = [auth EXCEPT ![a] =
           IF able THEN [doc EXCEPT !.done = "built", !.queue = {},
                                    !.sigs = {a} \cup {t.who : t \in early}]
           ELSE [@ EXCEPT !.done = "built", !.pending = {}]]
      /\ UNCHANGED <<restarts, votes, published>>

\* dirvote_add_signatures.
AddSignature(a, s) ==
  LET o == auth[a]
      added == IF o.doc = Nil THEN [o EXCEPT !.queue = @ \cup {s}]
               ELSE IF Accepts(o, s) THEN [o EXCEPT !.sigs = @ \cup {s.who}]
               ELSE o
  IN  /\ o.i <= MaxInterval
      /\ auth' = [auth EXCEPT ![a] = added] /\ auth' # auth
      /\ UNCHANGED <<restarts, votes, signed, published>>

\* networkstatus_check_consensus_signature.
EnoughSignatures(o) == Cardinality(o.sigs) >= Cardinality(Auths) \div 2 + 1

\* dirvote_publish_consensus, dirvote_clear_votes, dirvote_recalculate_timing.
Publish(a) ==
  LET o == auth[a]
      p == [i |-> o.i, doc |-> o.doc]
  IN  /\ o.done = "built"
      /\ published' = IF o.doc # Nil /\ EnoughSignatures(o) THEN published \cup {p} ELSE published
      /\ auth' = [auth EXCEPT ![a] = Fresh(o.i + 1)]
      /\ UNCHANGED <<restarts, votes, signed>>

\* All that the votes have brought is in memory only: an authority that is
\* started again schedules the next interval to start, and votes again.
Restart(a) ==
  /\ auth[a].i <= MaxInterval
  /\ FoldFunction(+, 0, restarts) < MaxRestarts
  /\ restarts' = [restarts EXCEPT ![a] = @ + 1]
  /\ auth' = [auth EXCEPT ![a] = Fresh(@.i)]
  /\ UNCHANGED <<votes, signed, published>>

Next == \E a \in Auths :
  \/ PerformVote(a) \/ ComputeConsensus(a) \/ Publish(a) \/ Restart(a)
  \/ \E v \in votes : ReceiveVote(a, v)
  \/ \E s \in signed : AddSignature(a, s)
Spec == Init /\ [][Next]_vars
-----------------------------------------------------------------------------
TypeOK ==
  /\ restarts \in [Auths -> 0 .. MaxRestarts]
  /\ \A a \in Auths : auth[a].i \in 1 .. MaxInterval + 1 /\ auth[a].sigs \subseteq Auths

\* Two authorities that publish a consensus of the same interval publish the
\* same one, whichever votes and signatures reached them in which order,
\* unless one of the signers was started again: it may have signed two.
OneConsensus ==
  \A p, q \in published :
    p.i = q.i /\ p.doc # q.doc
      => \E a \in Voters(p.doc) \cap Voters(q.doc) :
           /\ restarts[a] > 0
           /\ {[who |-> a, i |-> p.i, doc |-> x.doc] : x \in {p, q}} \subseteq signed
=============================================================================
