------------------------------ MODULE Policies ------------------------------
(***************************************************************************)
(* Exit policies (policies.c): what is made of the lines of a torrc, what  *)
(* a policy says of an address and a port, of an address alone or of a     *)
(* port alone, and what its summary in a microdescriptor says.             *)
(*                                                                         *)
(* An address is a number of Bits bits, an IPv4 address having 32; a       *)
(* subnet, of which a "general exit" must allow one, is a prefix of Wide   *)
(* bits as a /8 is.                                                        *)
(***************************************************************************)
EXTENDS Naturals, Sequences, FiniteSets, SequencesExt

CONSTANTS
  Bits, Wide,
  LastPort,       \* 65535
  Private,        \* private_nets
  Cutoff,         \* REJECT_CUTOFF_COUNT: addresses
  MaxSummary,     \* MAX_EXITPOLICY_SUMMARY_LEN: port ranges
  DefaultPolicy   \* DEFAULT_EXIT_POLICY

Addrs == 0 .. 2 ^ Bits - 1
Ports == 1 .. LastPort

\* The first n bits of an address; the network of an entry.
Prefix(addr, n) == addr \div 2 ^ (Bits - n)
Net(addr, n) == [addr |-> addr, bits |-> n]
InNet(addr, net) == Prefix(addr, net.bits) = Prefix(net.addr, net.bits)

Entry(accept, net, lo, hi) == [accept |-> accept, net |-> net, lo |-> lo, hi |-> hi]
Star == Net(0, 0)
RejectStar == <<Entry(FALSE, Star, 1, LastPort)>>
Matches(e, addr, port) == InNet(addr, e.net) /\ port \in e.lo .. e.hi
CatchAll(e) == e.net.bits = 0 /\ e.lo <= 1 /\ e.hi >= LastPort

\* policy_expand_private, of "reject private:*".
RejectPrivate == [i \in DOMAIN Private |-> Entry(FALSE, Private[i], 1, LastPort)]
-----------------------------------------------------------------------------
\* compare_known_tor_addr_to_addr_policy: the first entry that matches.
Accepts(policy, addr, port) ==
  LET hits == {i \in DOMAIN policy : Matches(policy[i], addr, port)}
  IN  hits = {} \/ policy[CHOOSE i \in hits : \A j \in hits : i <= j].accept

\* The other two look for an entry that is sure to match, and whether one
\* before it that says otherwise might.
Guess(policy, might, sure) ==
  LET certain == might \cap sure
      first == CHOOSE i \in certain : \A j \in certain : i <= j
      before(accept) == \E i \in might \ sure : policy[i].accept = accept /\ (certain = {} \/ i < first)
  IN  IF certain = {} \/ policy[first].accept
      THEN IF before(FALSE) THEN "probably_accepted" ELSE "accepted"
      ELSE IF before(TRUE) THEN "probably_rejected" ELSE "rejected"

\* compare_known_tor_addr_to_addr_policy_noport.
WithoutPort(policy, addr) ==
  Guess(policy, {i \in DOMAIN policy : InNet(addr, policy[i].net)},
        {i \in DOMAIN policy : policy[i].lo <= 1 /\ policy[i].hi >= LastPort})

\* compare_unknown_tor_addr_to_addr_policy.
WithoutAddr(policy, port) ==
  Guess(policy, {i \in DOMAIN policy : port \in policy[i].lo .. policy[i].hi},
        {i \in DOMAIN policy : policy[i].net.bits = 0})
-----------------------------------------------------------------------------
Covers(a, b) ==
  a.net.bits <= b.net.bits /\ InNet(b.net.addr, a.net) /\ a.lo <= b.lo /\ b.hi <= a.hi

Intersects(a, b) ==
  LET n == IF a.net.bits < b.net.bits THEN a.net.bits ELSE b.net.bits
  IN  Prefix(a.net.addr, n) = Prefix(b.net.addr, n) /\ a.lo <= b.hi /\ b.lo <= a.hi

\* exit_policy_remove_redundancies, step three: is entry i covered by a later
\* one, with nothing of the other kind that meets it in between?
\* Mutant: what lies between is not looked at.
CoveredLater_Anyhow(policy, i) ==
  \E j \in i + 1 .. Len(policy) : policy[j].accept = policy[i].accept /\ Covers(policy[j], policy[i])

CoveredLater(policy, i) ==
  \E j \in i + 1 .. Len(policy) :
    /\ policy[j].accept = policy[i].accept /\ Covers(policy[j], policy[i])
    /\ \A k \in i + 1 .. j - 1 :
         policy[k].accept # policy[i].accept => ~Intersects(policy[i], policy[k])

\* One entry after the other is looked at, in what is left by then.
RemoveRedundancies(policy) ==
  LET ends == {i \in DOMAIN policy : CatchAll(policy[i])}
      cut == IF ends = {} THEN policy ELSE SubSeq(policy, 1, CHOOSE i \in ends : \A j \in ends : i <= j)
      dropped == {j \in DOMAIN cut : \E i \in 1 .. j - 1 : Covers(cut[i], cut[j])}
      two == FoldLeft(LAMBDA s, j : IF j \in dropped THEN s ELSE Append(s, cut[j]),
                      <<>>, [j \in DOMAIN cut |-> j])
      three[i \in Nat, s \in Seq({two[j] : j \in DOMAIN two})] ==
        IF i >= Len(s) THEN s
        ELSE IF CoveredLater(s, i) THEN three[i, RemoveAt(s, i)]
        ELSE three[i + 1, s]
  IN  three[1, two]

\* policies_parse_exit_policy.
ParseExitPolicy(lines, rejectPrivate, addDefault) ==
  RemoveRedundancies((IF rejectPrivate THEN RejectPrivate ELSE <<>>) \o lines
                     \o (IF addDefault THEN DefaultPolicy ELSE RejectStar))

\* policy_is_reject_star.
IsRejectStar(policy) ==
  \A i \in DOMAIN policy :
    policy[i].accept => \E j \in 1 .. i : ~policy[j].accept /\ CatchAll(policy[j])

\* exit_policy_is_general_exit_helper: a subnet that is not internal and that
\* an entry accepts as a whole before any has rejected a part of it.
IsGeneralExit(policy, port) ==
  \E i \in DOMAIN policy : \E s \in 0 .. 2 ^ Wide - 1 :
    LET subnet == Net(s * 2 ^ (Bits - Wide), Wide)
        meets(e) == port \in e.lo .. e.hi /\ Intersects([e EXCEPT !.net = subnet], e)
    IN  /\ policy[i].accept /\ policy[i].net.bits <= Wide /\ meets(policy[i])
        /\ \A k \in DOMAIN Private : ~InNet(subnet.addr, Private[k])
        /\ \A j \in 1 .. i - 1 : ~policy[j].accept => ~meets(policy[j])
-----------------------------------------------------------------------------
\* policy_summary_item_t: here one for every port instead of one for every
\* range of ports that are alike.
SummaryItem == [rejects |-> 0, accepted |-> FALSE]

\* policy_summary_add_item.
AddItem(summary, e) ==
  LET private == \E i \in DOMAIN Private : e.net = Private[i]
  IN  [q \in Ports |->
        IF q \notin e.lo .. e.hi THEN summary[q]
        ELSE IF e.accept
          THEN [summary[q] EXCEPT !.accepted = @ \/ (e.net.bits = 0 /\ summary[q].rejects <= Cutoff)]
        ELSE IF private THEN summary[q]
        ELSE [summary[q] EXCEPT !.rejects = @ + 2 ^ (Bits - e.net.bits)]]

SummaryAccepts(policy) ==
  LET summary == FoldLeft(AddItem, [q \in Ports |-> SummaryItem], policy)
  IN  {q \in Ports : summary[q].accepted}

\* The maximal ranges of a set of ports, in order.
Ranges(ports) ==
  LET los == {q \in ports : q - 1 \notin ports}
      his == {q \in ports : q + 1 \notin ports}
      hi(lo) == CHOOSE h \in his : h >= lo /\ \A g \in his : g >= lo => h <= g
  IN  FoldLeft(LAMBDA s, q : IF q \in los THEN Append(s, [lo |-> q, hi |-> hi(q)]) ELSE s,
               <<>>, [q \in Ports |-> q])

\* policy_summarize: the shorter list; if both are too long, as much of the
\* accepted ports as there is room for.
Summarize(policy) ==
  LET accepts == Ranges(SummaryAccepts(policy))
      rejects == Ranges(Ports \ SummaryAccepts(policy))
      all == <<[lo |-> 1, hi |-> LastPort]>>
  IN  IF accepts = <<>> THEN [accept |-> FALSE, entries |-> all]
      ELSE IF rejects = <<>> THEN [accept |-> TRUE, entries |-> all]
      ELSE IF Len(rejects) > MaxSummary /\ Len(accepts) > MaxSummary
        THEN [accept |-> TRUE, entries |-> SubSeq(accepts, 1, MaxSummary)]
      ELSE IF Len(rejects) < Len(accepts) THEN [accept |-> FALSE, entries |-> rejects]
      ELSE [accept |-> TRUE, entries |-> accepts]

\* parse_short_policy: nothing, if an entry is no range of ports.
ParseShort(text) ==
  {t \in {text} : t.entries # <<>> /\ \A i \in DOMAIN t.entries :
                    1 <= t.entries[i].lo /\ t.entries[i].lo <= t.entries[i].hi /\ t.entries[i].hi <= LastPort}

\* compare_tor_addr_to_short_policy: may an exit with this summary be asked?
ShortAccepts(short, port) ==
  short.accept <=> \E i \in DOMAIN short.entries : port \in short.entries[i].lo .. short.entries[i].hi

ShortIsRejectStar(short) == ~short.accept /\ short.entries = <<[lo |-> 1, hi |-> LastPort]>>
-----------------------------------------------------------------------------
\* Taking redundant lines out of a policy changes no decision.
SameDecisions(lines, policy) ==
  \A addr \in Addrs, q \in Ports : Accepts(lines, addr, q) <=> Accepts(policy, addr, q)

\* What is said without the port, or without the address, and for sure, is
\* what is said with it; and what is probable is possible.
GuessesRight(policy) ==
  /\ \A addr \in Addrs :
       LET says == {Accepts(policy, addr, q) : q \in Ports}
           guess == WithoutPort(policy, addr)
       IN  (guess = "accepted" => says = {TRUE}) /\ (guess = "rejected" => says = {FALSE})
  /\ \A q \in Ports :
       LET says == {Accepts(policy, addr, q) : addr \in Addrs}
           guess == WithoutAddr(policy, q)
       IN  (guess = "accepted" => says = {TRUE}) /\ (guess = "rejected" => says = {FALSE})
  /\ IsRejectStar(policy) => \A addr \in Addrs, q \in Ports : ~Accepts(policy, addr, q)

\* A summary can be read back; what it says is no more than what was
\* summarized, and for a port that it accepts the policy rejects no more
\* than a few addresses besides the private ones.  And a general exit has a
\* subnet of which it accepts every address.
SummaryHonest(policy) ==
  /\ \E short \in ParseShort(Summarize(policy)) :
       /\ \A q \in Ports : ShortAccepts(short, q) =>
            Cardinality({a \in Addrs : ~Accepts(policy, a, q) /\ \A i \in DOMAIN Private : ~InNet(a, Private[i])})
              <= Cutoff
       /\ ShortIsRejectStar(short) <=> SummaryAccepts(policy) = {}
  /\ \A q \in Ports : IsGeneralExit(policy, q) =>
       \E s \in 0 .. 2 ^ Wide - 1 : \A a \in Addrs : Prefix(a, Wide) = s => Accepts(policy, a, q)
=============================================================================
