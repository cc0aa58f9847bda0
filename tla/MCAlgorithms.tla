---------------------------- MODULE MCAlgorithms ----------------------------
(***************************************************************************)
(* The pure algorithms over bounded inputs: a step chooses the algorithm   *)
(* and what it is given.  In their place, the resolver that looks names up *)
(* for an exit, with two nameservers, room for one request in flight       *)
(* besides a probe, a lookup for a stream and one of dns.c's own.          *)
(***************************************************************************)
EXTENDS Naturals, FiniteSets, Sequences, FiniteSetsExt, SequencesExt

CONSTANTS MaxBandwidth, Bits, Wide, LastPort, Cutoff, MaxSummary,
          s1, s2, host, test, Servers, Lookups, Checks, Configs, MaxInflight,
          MaxTimeouts, MaxTransmits, MaxReissues, MaxProbes, MaxSearch, Nil
VARIABLES case, dns

\* Addresses of three bits; "/8" networks of two.
Private == <<[addr |-> 6, bits |-> 2], [addr |-> 5, bits |-> 3]>>
DefaultPolicy == <<[accept |-> FALSE, net |-> [addr |-> 0, bits |-> 0], lo |-> 1, hi |-> 1],
                   [accept |-> TRUE, net |-> [addr |-> 0, bits |-> 0], lo |-> 1, hi |-> LastPort]>>
P == INSTANCE Policies
B == INSTANCE BandwidthWeights
C == INSTANCE ConsensusDoc
D == INSTANCE DocumentParse
W == INSTANCE PathChoice WITH BridgeLeast <- 2, BridgeMost <- 4, Guess <- 2

BothServers == {<<s1, s2>>}
E == INSTANCE EventDns

Init == case \in {[of |-> "nothing"], [of |-> "names"]} /\ E!Init

ChooseBandwidths ==
  \E f \in [{"G", "M", "E", "D"} -> 0 .. MaxBandwidth] : case' = [of |-> "weights", bw |-> f]

Entry == [desc : {1, 2}, pub : {1}, name : {1}, flags : SUBSET {"Running", "Named"}, bw : {1, 2},
          measured : {0, 1}, summary : {1}, micro : {1}, version : {1}]
Strange == [desc : {1, 2, 3}, pub : {1, 2}, name : {1, 2}, flags : SUBSET {"Running", "Named"},
            bw : {3}, measured : {0, 2}, summary : {2}, micro : {0, 2}, version : {0, 2}]
Flagsets == {{"Running", "Named"}, {"Running"}, {"Running", "Odd"}}

ChooseVotes ==
  \E e \in Entry, s \in Strange, known \in Flagsets, lists \in SUBSET {1}, k \in {1 .. 13, 1 .. 9} :
    case' = [of |-> "votes",
             votes |-> [v \in 1 .. 3 |->
               IF v < 3 THEN [methods |-> 1 .. 13, known |-> {"Running", "Named"}, list |-> [id \in {1} |-> e]]
               ELSE [methods |-> k, known |-> known, list |-> [id \in lists |-> s]]]]

Nets == {P!Net(0, 0), P!Net(0, 1), P!Net(1, 3), P!Net(6, 2)}
PortRanges == {<<1, 4>>, <<2, 2>>, <<4, 4>>, <<1, 2>>}
Rules == {P!Entry(k, n, r[1], r[2]) : k \in BOOLEAN, n \in Nets, r \in PortRanges}

ChoosePolicy ==
  \E first \in Rules, relay \in BOOLEAN :
    case' = [of |-> "policy", lines |-> <<first>>, private |-> relay, default |-> relay]

LastRules == {P!Entry(k, n, r[1], r[2]) : k \in BOOLEAN, n \in {P!Net(0, 0), P!Net(1, 3)}, r \in {<<1, 4>>, <<4, 4>>}}
AddRule ==
  /\ case.of = "policy" /\ Len(case.lines) < 3
  /\ \E r \in IF Len(case.lines) = 1 THEN Rules ELSE LastRules : case' = [case EXCEPT !.lines = Append(@, r)]

\* A document that its table allows: every keyword once, in its place.
Line(r) == [kw |-> r.kw, words |-> IF r.args = D!ARGS THEN 1 ELSE r.args.least,
            obj |-> CHOOSE o \in D!Fits(r.obj) : "none" \in D!Fits(r.obj) => o = "none"]
Written(table) ==
  LET at(pos) == FoldSet(LAMBDA l, s : Append(s, l), <<>>,
                          {Line(r) : r \in {q \in table : q.pos = pos /\ q.kw \notin {"opt", "accept6", "reject6"}}})
      all == at("start") \o at("any") \o at("end")
  IN  SelectSeq(all, LAMBDA l : l.kw \in D!Annotations) \o SelectSeq(all, LAMBDA l : l.kw \notin D!Annotations)
WithSource(lines) ==
  LET source == SelectSeq(lines, LAMBDA l : l.kw = "dir-source")
      first == SelectSeq(lines, LAMBDA l : l.kw \notin {"dir-source", "contact", "vote-digest"})
      of == SelectSeq(lines, LAMBDA l : l.kw \in {"contact", "vote-digest"})
  IN  first \o source \o of

Entry8 == [i \in DOMAIN Written(D!Rtrstatus) |->
             [Written(D!Rtrstatus)[i] EXCEPT !.words = IF Written(D!Rtrstatus)[i].kw = "r" THEN 8 ELSE @]]
RFirst == SelectSeq(Entry8, LAMBDA l : l.kw = "r") \o SelectSeq(Entry8, LAMBDA l : l.kw # "r")
Cert == LET c == Written(D!DirKeyCertificate)
            at(k) == SelectSeq(c, LAMBDA l : l.kw = k)
        IN  at("dir-key-certificate-version")
            \o SelectSeq(c, LAMBDA l : l.kw \notin {"dir-key-certificate-version", "dir-key-certification"})
            \o at("dir-key-certification")
VoteHead == SelectSeq(WithSource(Written(D!Networkstatus)), LAMBDA l : l.kw \notin {r.kw : r \in D!DirKeyCertificate})
Foot == LET f == Written(D!VoteFooter)
            at(k) == SelectSeq(f, LAMBDA l : l.kw = k)
        IN  at("directory-footer") \o at("bandwidth-weights") \o at("directory-signature")

Sample == [
  router |-> Written(D!Routerdesc), extrainfo |-> Written(D!Extrainfo), cert |-> Cert,
  netstatus |-> Written(D!Netstatus) \o RFirst \o Written(D!DirFooter),
  vote |-> VoteHead \o Cert \o RFirst \o Foot,
  consensus |-> WithSource(Written(D!NetworkstatusConsensus)) \o RFirst \o RFirst \o Foot,
  detached |-> Written(D!DetachedSignature), microdesc |-> Written(D!Microdesc),
  desc |-> Written(D!Desc), ipo |-> Written(D!Ipo), client |-> Written(D!ClientKeys)]

\* What may be changed of a line.
Edits(s, i) ==
  {Remove(s, s[i])} \cup {InsertAt(s, j, s[i]) : j \in {1, i, Len(s) + 1}}
  \cup {[s EXCEPT ![i].words = n] : n \in 0 .. 8}
  \cup {[s EXCEPT ![i].obj = o] : o \in D!Objects}
  \cup {[s EXCEPT ![i].kw = k] : k \in {"@unknown", "opt", "vote-digest", "reject6", "r", "directory-signature"}}

ChooseDocument ==
  \E kind \in DOMAIN Sample : \E i \in DOMAIN Sample[kind] : \E s \in Edits(Sample[kind], i) :
    case' = [of |-> "document", kind |-> kind, lines |-> s, whole |-> TRUE]

\* And a line less.
DropLine ==
  /\ case.of = "document" /\ case.whole
  /\ \E j \in DOMAIN case.lines : case' = [case EXCEPT !.lines = RemoveAt(@, j), !.whole = FALSE]

\* Relays, what they think of each other, and what a circuit is wanted for.
NoWeights == [g |-> 0 - 1, m |-> 0 - 1, e |-> 0 - 1, d |-> 0 - 1, scale |-> 1, dir |-> [k \in {"g", "m", "e", "d"} |-> 1]]
EvenWeights == [NoWeights EXCEPT !.g = 1, !.m = 1, !.e = 1, !.d = 1]
SkewWeights == [NoWeights EXCEPT !.g = 0, !.m = 2, !.e = 0, !.d = 1]

Relay == [run |-> TRUE, valid |-> TRUE, desc |-> TRUE, general |-> TRUE, stable |-> TRUE, fast |-> TRUE,
          guard |-> TRUE, exit |-> TRUE, badexit |-> FALSE, onehop |-> FALSE, ports |-> {1}, bw |-> 1,
          hasbw |-> TRUE, dir |-> FALSE, cons |-> TRUE, subnet |-> 0, nick |-> 0, family |-> {}]
NoSet == [refs |-> {}, nets |-> {}]
World(nodes) ==
  [node |-> [i \in DOMAIN nodes |-> [nodes[i] EXCEPT !.subnet = IF @ = 0 THEN 10 + i ELSE @, !.nick = IF @ = 0 THEN i ELSE @]],
   named |-> <<>>, taken |-> {}, me |-> 0, distinct |-> TRUE, families |-> {}, exclude |-> NoSet,
   noexit |-> NoSet, onlyexits |-> {}, invalid |-> {}, single |-> FALSE, guards |-> {}, unreachable |-> {},
   waiting |-> {}, predicted |-> {}, weights |-> [r \in {"exit", "guard", "mid"} |-> NoWeights]]

Kinds == {Relay,
  [Relay EXCEPT !.exit = FALSE, !.ports = {}, !.subnet = 1, !.cons = FALSE],
  [Relay EXCEPT !.guard = FALSE, !.stable = FALSE, !.ports = {1, 2}, !.subnet = 1, !.bw = 0],
  [Relay EXCEPT !.valid = FALSE, !.fast = FALSE, !.ports = {2}, !.family = {<<"id", 1>>, <<"name", 2>>}],
  [Relay EXCEPT !.family = {<<"name", 3>>, <<"name", 4>>}, !.onehop = TRUE, !.badexit = TRUE],
  [Relay EXCEPT !.desc = FALSE]}

ChooseRelays ==
  \E k \in [(1 .. 4) -> Kinds] : case' = [of |-> "relays", w |-> World(k)]

Ways == {
  [purpose |-> "general", asked |-> 0, how |-> {}, internal |-> FALSE],
  [purpose |-> "general", asked |-> 0, how |-> {"uptime", "capacity"}, internal |-> FALSE],
  [purpose |-> "general", asked |-> 0, how |-> {"capacity"}, internal |-> TRUE],
  [purpose |-> "rendezvous", asked |-> 0, how |-> {"capacity"}, internal |-> TRUE],
  [purpose |-> "general", asked |-> 4, how |-> {"capacity"}, internal |-> TRUE],
  [purpose |-> "testing", asked |-> 4, how |-> {}, internal |-> FALSE]}

Options(w) ==
  {w, [w EXCEPT !.exclude = [refs |-> {<<"name", 1>>}, nets |-> {}], !.waiting = {1, 2}, !.predicted = {2}],
   [w EXCEPT !.me = 3, !.noexit = [refs |-> {<<"id", 2>>}, nets |-> {}], !.single = TRUE, !.predicted = {2},
             !.weights = [r \in {"exit", "guard", "mid"} |-> EvenWeights]],
   [w EXCEPT !.families = {[refs |-> {<<"name", 1>>, <<"id", 4>>}, nets |-> {}]}, !.invalid = {"middle", "exit"},
             !.onlyexits = {1, 3}, !.waiting = {2}],
   [w EXCEPT !.guards = {1, 2}, !.unreachable = {3}, !.waiting = {1}, !.exclude = [refs |-> {}, nets |-> {1}]]}

ChoosePath ==
  /\ case.of = "relays"
  /\ \E w \in Options(case.w), y \in Ways : case' = [of |-> "path", w |-> w, way |-> y]

Refs == {<<"id", 1>>, <<"id", 2>>, <<"name", 1>>, <<"name", 2>>, <<"name", 3>>}
ChooseFamilies ==
  \E f \in [(1 .. 3) -> {{}} \cup {{r} : r \in Refs}], sub \in {<<1, 2, 2>>, <<1, 2, 3>>}, nick \in {<<1, 2, 3>>, <<1, 2, 2>>},
     sets \in {{}, {[refs |-> {<<"id", 1>>, <<"name", 2>>}, nets |-> {}]}, {[refs |-> {<<"name", 3>>}, nets |-> {1}]}},
     distinct \in BOOLEAN, named \in {<<>>, <<1>>, <<2>>} :
    case' = [of |-> "families",
             w |-> [World([i \in 1 .. 3 |-> [Relay EXCEPT !.family = f[i], !.subnet = sub[i], !.nick = nick[i]]])
                      EXCEPT !.families = sets, !.distinct = distinct, !.named = named]]

Weighed == <<Relay, [Relay EXCEPT !.bw = 0], [Relay EXCEPT !.bw = 5], [Relay EXCEPT !.guard = FALSE],
  [Relay EXCEPT !.exit = FALSE, !.bw = 2], [Relay EXCEPT !.exit = FALSE, !.guard = FALSE, !.bw = 3],
  [Relay EXCEPT !.exit = FALSE, !.guard = FALSE, !.bw = 0, !.dir = TRUE], [Relay EXCEPT !.cons = FALSE, !.bw = 9],
  [Relay EXCEPT !.hasbw = FALSE], [Relay EXCEPT !.hasbw = FALSE, !.exit = FALSE, !.guard = FALSE],
  [Relay EXCEPT !.hasbw = FALSE, !.exit = FALSE, !.guard = FALSE, !.fast = FALSE],
  [Relay EXCEPT !.hasbw = FALSE, !.guard = FALSE, !.fast = FALSE], [Relay EXCEPT !.badexit = TRUE, !.guard = FALSE]>>
ChooseDraw ==
  \E i, j, k \in DOMAIN Weighed, rule \in {"exit", "guard", "mid"}, ws \in {NoWeights, SkewWeights} :
    /\ i <= j /\ j <= k
    /\ case' = [of |-> "draw", rule |-> rule,
                w |-> [World(<<Weighed[i], Weighed[j], Weighed[k]>>) EXCEPT !.weights = [r \in {"exit", "guard", "mid"} |-> ws]]]

Choose ==
  \/ /\ case.of = "nothing"
     /\ \/ ChooseBandwidths \/ ChooseVotes \/ ChooseDocument \/ ChoosePolicy
        \/ ChooseRelays \/ ChooseFamilies \/ ChooseDraw
  \/ DropLine \/ AddRule \/ ChoosePath
Next ==
  \/ Choose /\ UNCHANGED dns
  \/ case.of = "names" /\ E!Next /\ UNCHANGED case
Spec == Init /\ [][Next]_<<case, dns>>

\* The requests of the resolver: each lookup is asked exactly once, in flight
\* or waiting, the counters tell the truth, something wakes whatever is in
\* flight, room is used, and a server that is down is probed.
RequestsSound == case.of = "names" => E!Sound

\* If an authority puts bandwidth weights into a consensus, they are what
\* every client that reads it verifies; and what two of three voters agree on
\* about a router is what the consensus says of it, whatever the third says.
ConsensusRight ==
  /\ case.of = "weights" => B!WeightsVerify(case.bw["G"], case.bw["M"], case.bw["E"], case.bw["D"])
  /\ case.of = "votes" => C!MajorityRules(case.votes, 3, 1, {1, 2})

Parse(kind, lines) ==
  CASE kind = "router" -> {D!ParseRouter(lines, how, <<[kw |-> "@purpose", words |-> 1, obj |-> "none"]>>) : how \in {"plain", "cache", "prepend"}}
    [] kind = "extrainfo" -> {D!ParseExtrainfo(lines)}
    [] kind = "cert" -> {D!ParseCert(lines)}
    [] kind = "netstatus" -> {D!ParseNetstatus(lines)}
    [] kind = "vote" -> {D!ParseStatus(lines, FALSE, "ns")}
    [] kind = "consensus" -> {D!ParseStatus(lines, TRUE, f) : f \in {"ns", "microdesc"}}
    [] kind = "detached" -> {D!ParseDetached(lines)}
    [] kind = "microdesc" -> {D!ParseMicrodesc(lines, 1, notes) : notes \in BOOLEAN}
    [] kind = "desc" -> {D!ParseDesc(lines)}
    [] kind = "ipo" -> {D!ParseIpo(lines)}
    [] kind = "client" -> {D!ParseClient(lines)}

\* No document, however it was put together, makes its parser fail an
\* assertion, or read an argument or an object that is not there: whatever a
\* parser relies on, the table of its keywords has made sure of.  (And the
\* documents that this begins with are accepted.)
ParsersRefuse ==
  case.of = "document" =>
    /\ "crash" \notin Parse(case.kind, case.lines)
    /\ case.lines = Sample[case.kind] => "go" \in Parse(case.kind, case.lines)

\* An exit policy decides as the lines that it was made of, in their order;
\* what is said of an address or a port alone is what is said of both; and a
\* summary accepts no port that the policy rejects for more than a few
\* addresses.
PoliciesAgree ==
  case.of = "policy" =>
    LET policy == P!ParseExitPolicy(case.lines, case.private, case.default)
        whole == (IF case.private THEN P!RejectPrivate ELSE <<>>) \o case.lines
                 \o (IF case.default THEN DefaultPolicy ELSE P!RejectStar)
    IN  P!SameDecisions(whole, policy) /\ P!GuessesRight(policy) /\ P!SummaryHonest(policy)

\* No path has a relay twice, two relays of one family (when names are
\* clear), a relay that the user excluded or the directory calls down, or one
\* of this relay's own family but as exit; "family" means the same both ways
\* and in both places that ask; and somebody can be drawn whenever anybody
\* has bandwidth, though exits and guards count for less.
PathsRight ==
  /\ case.of = "path" =>
       \A p \in W!Paths(case.w, case.way.purpose, case.way.asked, case.way.how, case.way.internal) :
         W!PathSound(case.w, p, case.way.asked)
  /\ case.of = "families" => W!FamiliesAgree(case.w)
  /\ case.of = "draw" => W!DrawSound(case.w, DOMAIN case.w.node, case.rule)
=============================================================================
