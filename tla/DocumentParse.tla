---------------------------- MODULE DocumentParse ----------------------------
(***************************************************************************)
(* How directory documents are read (routerparse.c): tables say of every   *)
(* kind of document which keywords it may have, how often, where, with how *)
(* many arguments and which object; tokenize_string checks a document      *)
(* against its table; and each parser then looks its keywords up and reads *)
(* their arguments, asserting that what the table promised is there.       *)
(*                                                                         *)
(* A line is a keyword, the number of words that follow it, and the object *)
(* below it.  Whether the words make sense (a date, a digest, a signature  *)
(* that verifies) is left open: a parser that is given nonsense stops      *)
(* early, and asserts no more.  Lines that begin with "opt" are as without.*)
(***************************************************************************)
EXTENDS Naturals, Sequences, FiniteSets, SequencesExt

Many == 1000              \* INT_MAX
None == [kw |-> "none", words |-> 0, obj |-> "none"]

\* The argument multiplicities, and an object of each syntax.
ARGS == [least |-> 0, most |-> Many, concat |-> FALSE]
NO_ARGS == [least |-> 0, most |-> 0, concat |-> FALSE]
CONCAT_ARGS == [least |-> 1, most |-> 1, concat |-> TRUE]
GE(n) == [least |-> n, most |-> Many, concat |-> FALSE]
EQ(n) == [least |-> n, most |-> n, concat |-> FALSE]

Objects == {"none", "object", "key", "long_key", "secret_key"}
Fits(syntax) ==
  CASE syntax = "NO_OBJ" -> {"none"}
    [] syntax = "NEED_OBJ" -> {"object"}
    [] syntax = "NEED_SKEY_1024" -> {"secret_key"}
    [] syntax = "NEED_KEY_1024" -> {"key"}
    [] syntax = "NEED_KEY" -> {"key", "long_key"}
    [] syntax = "OBJ_OK" -> Objects

\* Rows of a table, one for each keyword of the set k.
Row(k, a, o, lo, hi, pos) == {[kw |-> x, args |-> a, obj |-> o, min |-> lo, max |-> hi, pos |-> pos] : x \in k}
T0N(k, a, o) == Row(k, a, o, 0, Many, "any")
T1(k, a, o) == Row(k, a, o, 1, 1, "any")
T1_START(k, a, o) == Row({k}, a, o, 1, 1, "start")
T1_END(k, a, o) == Row({k}, a, o, 1, 1, "end")
T1N(k, a, o) == Row(k, a, o, 1, Many, "any")
T01(k, a, o) == Row(k, a, o, 0, 1, "any")

Annotations == {"@purpose", "@last-listed", "@unknown"}
Policies == {"accept", "reject", "accept6", "reject6"}
-----------------------------------------------------------------------------
Routerdesc ==
  T1_START("router", GE(5), "NO_OBJ") \cup T1_END("router-signature", NO_ARGS, "NEED_OBJ")
  \cup T0N(Policies, ARGS, "NO_OBJ") \cup T0N({"or-address"}, GE(1), "NO_OBJ")
  \cup T0N({"opt"}, CONCAT_ARGS, "OBJ_OK")
  \cup T1({"signing-key", "onion-key"}, NO_ARGS, "NEED_KEY_1024")
  \cup T1({"published"}, CONCAT_ARGS, "NO_OBJ") \cup T1({"bandwidth"}, GE(3), "NO_OBJ")
  \cup T01({"uptime", "hibernating", "extra-info-digest", "@purpose"}, GE(1), "NO_OBJ")
  \cup T01({"fingerprint", "platform", "contact"}, CONCAT_ARGS, "NO_OBJ")
  \cup T01({"read-history", "write-history", "family"}, ARGS, "NO_OBJ")
  \cup T01({"hidden-service-dir", "allow-single-hop-exits", "caches-extra-info"}, NO_ARGS, "NO_OBJ")

\* One of the 27 kinds of statistics stands for all.
Extrainfo ==
  T1_START("extra-info", GE(2), "NO_OBJ") \cup T1_END("router-signature", NO_ARGS, "NEED_OBJ")
  \cup T1({"published"}, CONCAT_ARGS, "NO_OBJ") \cup T0N({"opt"}, CONCAT_ARGS, "OBJ_OK")
  \cup T01({"read-history"}, ARGS, "NO_OBJ")

Rtrstatus ==
  T1({"r"}, GE(7), "NO_OBJ") \cup T1({"s"}, ARGS, "NO_OBJ") \cup T01({"p", "v"}, CONCAT_ARGS, "NO_OBJ")
  \cup T01({"w"}, ARGS, "NO_OBJ") \cup T0N({"m"}, CONCAT_ARGS, "NO_OBJ")
  \cup T0N({"opt"}, CONCAT_ARGS, "OBJ_OK")

Netstatus ==
  T1_START("network-status-version", GE(1), "NO_OBJ") \cup T1({"dir-source"}, GE(3), "NO_OBJ")
  \cup T1({"published", "contact", "fingerprint"}, CONCAT_ARGS, "NO_OBJ")
  \cup T1({"dir-signing-key"}, NO_ARGS, "NEED_KEY_1024") \cup T01({"dir-options"}, ARGS, "NO_OBJ")
  \cup T01({"client-versions", "server-versions"}, CONCAT_ARGS, "NO_OBJ")
  \cup T0N({"opt"}, CONCAT_ARGS, "OBJ_OK")

DirFooter == T1({"directory-signature"}, EQ(1), "NEED_OBJ")

CertificateMembers ==
  T1({"dir-key-certificate-version"}, GE(1), "NO_OBJ")
  \cup T1({"dir-identity-key", "dir-signing-key"}, NO_ARGS, "NEED_KEY")
  \cup T1({"dir-key-published", "dir-key-expires"}, CONCAT_ARGS, "NO_OBJ")
  \cup T01({"dir-key-crosscert"}, NO_ARGS, "NEED_OBJ")
  \cup T1({"dir-key-certification"}, NO_ARGS, "NEED_OBJ") \cup T01({"dir-address"}, GE(1), "NO_OBJ")

DirKeyCertificate == CertificateMembers \cup T1({"fingerprint"}, CONCAT_ARGS, "NO_OBJ")

Desc ==
  T1_START("rendezvous-service-descriptor", EQ(1), "NO_OBJ")
  \cup T1({"version", "secret-id-part", "protocol-versions"}, EQ(1), "NO_OBJ")
  \cup T1({"permanent-key"}, NO_ARGS, "NEED_KEY_1024")
  \cup T1({"publication-time"}, CONCAT_ARGS, "NO_OBJ")
  \cup T01({"introduction-points"}, NO_ARGS, "NEED_OBJ") \cup T1_END("signature", NO_ARGS, "NEED_OBJ")

Ipo ==
  T1_START("introduction-point", EQ(1), "NO_OBJ") \cup T1({"ip-address", "onion-port"}, EQ(1), "NO_OBJ")
  \cup T1({"onion-key", "service-key"}, NO_ARGS, "NEED_KEY_1024")

ClientKeys ==
  T1_START("client-name", CONCAT_ARGS, "NO_OBJ") \cup T1({"descriptor-cookie"}, EQ(1), "NO_OBJ")
  \cup T01({"client-key"}, NO_ARGS, "NEED_SKEY_1024")

\* Mutant: the two numbers of voting-delay are not asked for.
StatusHeader_AnyDelay ==
  T1_START("network-status-version", GE(1), "NO_OBJ") \cup T1({"vote-status"}, GE(1), "NO_OBJ")
  \cup T1({"voting-delay"}, GE(1), "NO_OBJ")
  \cup T1({"valid-after", "fresh-until", "valid-until"}, CONCAT_ARGS, "NO_OBJ")
  \cup T0N({"opt"}, CONCAT_ARGS, "OBJ_OK") \cup T01({"params"}, ARGS, "NO_OBJ")
  \cup T01({"client-versions", "server-versions"}, CONCAT_ARGS, "NO_OBJ")

\* What votes and consensuses have in common.
StatusHeader ==
  T1_START("network-status-version", GE(1), "NO_OBJ") \cup T1({"vote-status"}, GE(1), "NO_OBJ")
  \cup T1({"voting-delay"}, GE(2), "NO_OBJ")
  \cup T1({"valid-after", "fresh-until", "valid-until"}, CONCAT_ARGS, "NO_OBJ")
  \cup T0N({"opt"}, CONCAT_ARGS, "OBJ_OK") \cup T01({"params"}, ARGS, "NO_OBJ")
  \cup T01({"client-versions", "server-versions"}, CONCAT_ARGS, "NO_OBJ")

\* (The table has known-flags a second time, which the first row hides.)
Networkstatus ==
  StatusHeader \cup CertificateMembers
  \cup T1({"known-flags"}, ARGS, "NO_OBJ") \cup T0N({"fingerprint"}, CONCAT_ARGS, "NO_OBJ")
  \cup T1({"published", "contact"}, CONCAT_ARGS, "NO_OBJ") \cup T1({"dir-source"}, GE(6), "NO_OBJ")
  \cup T01({"legacy-dir-key"}, GE(1), "NO_OBJ") \cup T1({"consensus-methods"}, GE(1), "NO_OBJ")

NetworkstatusConsensus ==
  StatusHeader \cup T1({"known-flags"}, CONCAT_ARGS, "NO_OBJ") \cup T1N({"dir-source"}, GE(6), "NO_OBJ")
  \cup T1N({"contact"}, CONCAT_ARGS, "NO_OBJ") \cup T1N({"vote-digest"}, GE(1), "NO_OBJ")
  \cup T01({"consensus-method"}, EQ(1), "NO_OBJ")

VoteFooter ==
  T01({"directory-footer"}, NO_ARGS, "NO_OBJ") \cup T01({"bandwidth-weights"}, ARGS, "NO_OBJ")
  \cup T0N({"directory-signature"}, GE(2), "NEED_OBJ")

DetachedSignature ==
  T1_START("consensus-digest", GE(1), "NO_OBJ") \cup T0N({"additional-digest"}, GE(3), "NO_OBJ")
  \cup T1({"valid-after", "fresh-until", "valid-until"}, CONCAT_ARGS, "NO_OBJ")
  \cup T0N({"additional-signature"}, GE(4), "NEED_OBJ")
  \cup T1N({"directory-signature"}, GE(2), "NEED_OBJ")

Microdesc ==
  T1_START("onion-key", NO_ARGS, "NEED_KEY_1024") \cup T01({"family"}, ARGS, "NO_OBJ")
  \cup T01({"p", "@last-listed"}, CONCAT_ARGS, "NO_OBJ")
-----------------------------------------------------------------------------
\* get_next_token and token_check_object: the token that a line is read as,
\* or none if it is malformed.
Token(table, line) ==
  LET rows == {r \in table : r.kw = line.kw}
      words(r) == IF r.args.concat THEN 1 ELSE line.words
  IN  IF rows = {} THEN {[line EXCEPT !.kw = IF line.kw \in Annotations THEN "@unknown" ELSE "opt", !.words = 1]}
      ELSE {[line EXCEPT !.words = words(r)] :
              r \in {q \in rows : words(q) \in q.args.least .. q.args.most /\ line.obj \in Fits(q.obj)}}

\* tokenize_string.  out: the tokens that are there already.  A list of
\* tokens, or none.
Tokenize(table, out, lines, flags) ==
  LET all == out \o [i \in DOMAIN lines |-> CHOOSE t \in Token(table, lines[i]) \cup {None} :
                                              Token(table, lines[i]) # {} => t # None]
      noted(i) == all[i].kw \in Annotations
      plain == {i \in DOMAIN all : ~noted(i)}
      first == CHOOSE i \in plain : \A j \in plain : i <= j
      count(k) == Cardinality({i \in DOMAIN all : all[i].kw = k})
      annotationsRight ==
        IF "ANNOTATIONS_OK" \in flags
        THEN /\ plain # {} /\ \A i \in DOMAIN all : i > first => ~noted(i)
             /\ "NO_NEW_ANNOTATIONS" \in flags => first = Len(out) + 1
        ELSE \A i \in DOMAIN all : ~noted(i)
      start == IF "ANNOTATIONS_OK" \in flags THEN first ELSE 1
      right(r) == /\ count(r.kw) \in r.min .. r.max
                  /\ r.pos = "start" => all # <<>> /\ all[start].kw = r.kw
                  /\ r.pos = "end" => all # <<>> /\ all[Len(all)].kw = r.kw
  IN  IF None \in {all[i] : i \in DOMAIN all} THEN {}
      ELSE IF "NOCHECK" \in flags \/ (annotationsRight /\ \A r \in table : right(r)) THEN {all}
      ELSE {}
-----------------------------------------------------------------------------
(* A parser is a list of steps: each goes on, refuses the document, or     *)
(* fails an assertion (or reads past what is there).                       *)
FirstOf(t, k) ==
  LET s == SelectSeq(t, LAMBDA x : x.kw = k) IN IF s = <<>> THEN None ELSE s[1]

Has(t, k) == FirstOf(t, k) # None

Sure(b) == IF b THEN "go" ELSE "crash"
Refuse(b) == IF b THEN "reject" ELSE "go"

\* find_by_keyword, and n arguments or an object of its token.
Need(t, k, n) == Sure(Has(t, k) /\ FirstOf(t, k).words >= n)
NeedKey(t, k) == Sure(FirstOf(t, k).obj \in {"key", "long_key", "secret_key"})
NeedObject(t, k) == Sure(FirstOf(t, k).obj = "object")

\* find_opt_by_keyword; find_all_by_keyword.
May(t, k, n) == Sure(Has(t, k) => FirstOf(t, k).words >= n)
MayObject(t, k) == Sure(Has(t, k) => FirstOf(t, k).obj = "object")
Each(t, k, n) == Sure(\A i \in DOMAIN t : t[i].kw = k => t[i].words >= n)
EachObject(t, k) == Sure(\A i \in DOMAIN t : t[i].kw = k => t[i].obj = "object")

Outcome(steps) ==
  LET stops == {i \in DOMAIN steps : steps[i] # "go"}
  IN  IF stops = {} THEN "go" ELSE steps[CHOOSE i \in stops : \A j \in stops : i <= j]

\* runs: the steps for what tokenize_string found, if it did not refuse it.
Parsed(runs) == IF runs = {} THEN "reject" ELSE Outcome(CHOOSE r \in runs : TRUE)

\* Where the first line with one of the keywords k is, after the first n lines.
Ahead(lines, k, n) ==
  LET at == {i \in DOMAIN lines : i > n /\ lines[i].kw \in k}
  IN  IF at = {} THEN Len(lines) + 1 ELSE CHOOSE i \in at : \A j \in at : i <= j
-----------------------------------------------------------------------------
\* router_parse_addr_policy refuses a policy that is not one word.
RouterSteps(t) ==
  <<Refuse(Len(t) < 2), Need(t, "router", 5), Need(t, "bandwidth", 3), May(t, "@purpose", 1),
    May(t, "uptime", 1), May(t, "hibernating", 1), Need(t, "published", 1), NeedKey(t, "onion-key"),
    NeedKey(t, "signing-key"), May(t, "fingerprint", 1), May(t, "platform", 1), May(t, "contact", 1),
    Refuse(Has(t, "reject6") \/ Has(t, "accept6")), Each(t, "or-address", 1),
    Refuse(~\E k \in Policies : Has(t, k)),
    Refuse(\E i \in DOMAIN t : t[i].kw \in Policies /\ t[i].words # 1),
    May(t, "extra-info-digest", 1), NeedObject(t, "router-signature")>>

\* router_parse_entry_from_string.  What is before the first "router" line
\* are annotations; how: none are wanted, those of the cache are, or the
\* tokens of others are put first.
ParseRouter(lines, how, others) ==
  LET r == Ahead(lines, {"router"}, 0)
      before == SubSeq(lines, 1, r - 1)
      notes == IF how = "prepend" THEN Tokenize(Routerdesc, <<>>, others, {"NOCHECK"})
               ELSE IF before # <<>> THEN Tokenize(Routerdesc, <<>>, before, {"NOCHECK"})
               ELSE {<<>>}
      flags == CASE how = "plain" -> {}
                 [] how = "cache" -> {"ANNOTATIONS_OK"}
                 [] how = "prepend" -> {"ANNOTATIONS_OK", "NO_NEW_ANNOTATIONS"}
  IN  IF notes = {} \/ r > Len(lines) \/ (before # <<>> /\ how # "cache") THEN "reject"
      ELSE Parsed({RouterSteps(t) : t \in Tokenize(Routerdesc, CHOOSE n \in notes : TRUE,
                                                    SubSeq(lines, r, Len(lines)), flags)})

ExtrainfoSteps(t) ==
  <<Refuse(Len(t) < 2), Refuse(t[1].kw # "extra-info"), Sure(t[1].words >= 2), Need(t, "published", 1),
    NeedObject(t, "router-signature")>>

ParseExtrainfo(lines) == Parsed({ExtrainfoSteps(t) : t \in Tokenize(Extrainfo, <<>>, lines, {})})

CertSteps(t) ==
  <<Sure(t # <<>>), Refuse(t[1].kw # "dir-key-certificate-version"), Sure(t[1].words >= 1),
    NeedKey(t, "dir-signing-key"), NeedKey(t, "dir-identity-key"), Need(t, "fingerprint", 1),
    May(t, "dir-address", 1), Need(t, "dir-key-published", 1), Need(t, "dir-key-expires", 1),
    Refuse(t[Len(t)].kw # "dir-key-certification"), NeedObject(t, "dir-key-certification"),
    MayObject(t, "dir-key-crosscert")>>

\* The end of a certificate: an object ends the last line of it.
CertEnd(lines) ==
  LET c == Ahead(lines, {"dir-key-certification"}, 1)
      ends == {i \in DOMAIN lines : i >= c /\ lines[i].obj = "object"}
  IN  IF ends = {} THEN 0 ELSE CHOOSE i \in ends : \A j \in ends : i <= j

ParseCert(lines) ==
  IF CertEnd(lines) = 0 THEN "reject"
  ELSE Parsed({CertSteps(t) : t \in Tokenize(DirKeyCertificate, <<>>, SubSeq(lines, 1, CertEnd(lines)), {})})
-----------------------------------------------------------------------------
\* find_start_of_next_routerstatus.
Section(lines, n) == Ahead(lines, {"r", "directory-footer", "directory-signature"}, n)

\* routerstatus_parse_entry_from_string; where: in a "v2" status, a "vote", or a
\* consensus of flavor "ns" or "microdesc".
RouterstatusSteps(t, where) ==
  LET ns == where # "microdesc"
  IN  <<Refuse(Len(t) < 1), Need(t, "r", 7), Refuse(ns /\ FirstOf(t, "r").words < 8),
        Need(t, "r", IF ns THEN 8 ELSE 7), May(t, "v", 1), May(t, "p", 1),
        IF where = "vote" THEN Each(t, "m", 1) ELSE May(t, "m", 1)>>

ParseRouterstatus(lines, where) ==
  Parsed({RouterstatusSteps(t, where) : t \in Tokenize(Rtrstatus, <<>>, lines, {})})

\* The entries of a document from line n on, and the line after them.  An
\* entry that is refused is left out.
EntryStarts(lines, n) ==
  {i \in n .. Len(lines) : \A j \in n .. i : j \in {n, i} \/ lines[j].kw \notin {"directory-footer", "directory-signature"}}
  \cap {i \in DOMAIN lines : lines[i].kw = "r"}

AfterEntries(lines, n) ==
  IF n > Len(lines) \/ lines[n].kw # "r" THEN n ELSE Ahead(lines, {"directory-footer", "directory-signature"}, n)

Entries(lines, n, where) ==
  IF n > Len(lines) \/ lines[n].kw # "r" THEN {}
  ELSE {ParseRouterstatus(SubSeq(lines, i, Section(lines, i) - 1), where) : i \in EntryStarts(lines, n)}

NetstatusSteps(t) ==
  <<Need(t, "network-status-version", 1), Need(t, "dir-source", 3), Need(t, "fingerprint", 1),
    May(t, "contact", 1), NeedKey(t, "dir-signing-key"), May(t, "client-versions", 1),
    May(t, "server-versions", 1), Need(t, "published", 1)>>

FooterSteps(t) ==
  <<Refuse(t = <<>>), Refuse(t[Len(t)].kw # "directory-signature"), Sure(t[Len(t)].obj = "object")>>

\* networkstatus_v2_parse_from_string.
ParseNetstatus(lines) ==
  LET n == Section(lines, 1)
      rest == SubSeq(lines, AfterEntries(lines, n), Len(lines))
  IN  Outcome(<<Parsed({NetstatusSteps(t) : t \in Tokenize(Netstatus, <<>>, SubSeq(lines, 1, n - 1), {})}),
                Sure("crash" \notin Entries(lines, n, "v2")),
                Parsed({FooterSteps(t) : t \in Tokenize(DirFooter, <<>>, rest, {})})>>)
-----------------------------------------------------------------------------
\* The voters of a header: a contact, or a vote's digest, belongs to the
\* dir-source line before it.
VoterSteps(t, consensus) ==
  LET since(i) == {j \in 1 .. i - 1 : /\ t[j].kw = "dir-source"
                                      /\ \A k \in j + 1 .. i - 1 : t[k].kw # "dir-source"}
      second(i) == \E j \in since(i) : \E k \in j + 1 .. i - 1 : t[k].kw = t[i].kw
      misplaced(k) == \E i \in DOMAIN t : t[i].kw = k /\ (since(i) = {} \/ second(i))
      sources == {i \in DOMAIN t : t[i].kw = "dir-source"}
  IN  <<Each(t, "dir-source", 6), Each(t, "contact", 1), Refuse(misplaced("contact")),
        Sure(consensus \/ ~Has(t, "vote-digest")), Each(t, "vote-digest", 1), Refuse(misplaced("vote-digest")),
        Refuse(sources = {}), Refuse(~consensus /\ Cardinality(sources) # 1)>>

HeaderSteps(t, consensus) ==
  <<Need(t, "network-status-version", 1), Need(t, "vote-status", 1)>>
  \o (IF consensus THEN <<May(t, "consensus-method", 1)>>
      ELSE <<Need(t, "published", 1), May(t, "consensus-methods", 1)>>)
  \o <<Need(t, "valid-after", 1), Need(t, "fresh-until", 1), Need(t, "valid-until", 1),
       Need(t, "voting-delay", 2), May(t, "client-versions", 1), May(t, "server-versions", 1),
       Need(t, "known-flags", 0)>>
  \o VoterSteps(t, consensus)
  \o <<IF consensus THEN "go" ELSE May(t, "legacy-dir-key", 1)>>

\* With three words or more on a signature the first is the algorithm.
VoteFooterSteps(t, consensus) ==
  LET signatures == {i \in DOMAIN t : t[i].kw = "directory-signature"}
  IN  <<Refuse(\E i \in signatures : \E j \in DOMAIN t : j > i /\ j \notin signatures),
        Refuse(Has(t, "directory-footer") /\ t[1].kw # "directory-footer"),
        Each(t, "directory-signature", 2), EachObject(t, "directory-signature"), Refuse(signatures = {})>>

\* networkstatus_parse_vote_from_string.
ParseStatus(lines, consensus, flavor) ==
  LET n == Section(lines, 1)
      cert == Ahead(lines, {"dir-key-certificate-version"}, 1)
      from == SubSeq(lines, cert, Len(lines))
      table == IF consensus THEN NetworkstatusConsensus ELSE Networkstatus
      after == AfterEntries(lines, n)
      rest == SubSeq(lines, after, Ahead(lines, {"network-status-version"}, after) - 1)
      header == Tokenize(table, <<>>, SubSeq(lines, 1, n - 1), {})
  IN  Outcome(<<Refuse(header = {}),
                IF consensus THEN "go"
                ELSE IF cert > Len(lines) \/ CertEnd(from) + cert > n THEN "reject"
                ELSE ParseCert(from),
                Parsed({HeaderSteps(t, consensus) : t \in header}),
                Sure("crash" \notin Entries(lines, n, IF consensus THEN flavor ELSE "vote")),
                Parsed({VoteFooterSteps(t, consensus) : t \in Tokenize(VoteFooter, <<>>, rest, {})})>>)

DetachedSteps(t) ==
  <<Each(t, "consensus-digest", 1), Each(t, "additional-digest", 3), Need(t, "valid-after", 1),
    Need(t, "fresh-until", 1), Need(t, "valid-until", 1), Each(t, "directory-signature", 2),
    Each(t, "additional-signature", 4), EachObject(t, "directory-signature"),
    EachObject(t, "additional-signature")>>

ParseDetached(lines) == Parsed({DetachedSteps(t) : t \in Tokenize(DetachedSignature, <<>>, lines, {})})
-----------------------------------------------------------------------------
\* find_start_of_next_microdesc: annotations belong to the onion-key that
\* follows them.
NextMicrodesc(lines, n) ==
  LET plain == {i \in DOMAIN lines : i >= n /\ lines[i].kw \notin Annotations}
      first == IF plain = {} THEN Len(lines) ELSE CHOOSE i \in plain : \A j \in plain : i <= j
      from == IF first \in DOMAIN lines /\ lines[first].kw = "onion-key" THEN first ELSE first - 1
  IN  Ahead(lines, Annotations \cup {"onion-key"}, from)

MicrodescSteps(t) ==
  <<May(t, "@last-listed", 1), NeedKey(t, "onion-key"), May(t, "p", 1)>>

\* microdescs_parse_from_string, from line n: the first of them.
ParseMicrodesc(lines, n, notes) ==
  Parsed({MicrodescSteps(t) : t \in Tokenize(Microdesc, <<>>, SubSeq(lines, n, NextMicrodesc(lines, n) - 1),
                  IF notes THEN {"ANNOTATIONS_OK"} ELSE {})})

\* rend_parse_v2_service_descriptor.
DescSteps(t) ==
  <<Refuse(Len(t) < 7), Sure(t[1].kw = "rendezvous-service-descriptor"),
    Sure(t[1].words = 1), Need(t, "version", 1), NeedKey(t, "permanent-key"), Need(t, "secret-id-part", 1),
    Need(t, "publication-time", 1), Need(t, "protocol-versions", 1), MayObject(t, "introduction-points"),
    NeedObject(t, "signature")>>

ParseDesc(lines) ==
  LET eos == Ahead(lines, {"rendezvous-service-descriptor"}, 1)
  IN  IF lines = <<>> \/ lines[1].kw # "rendezvous-service-descriptor" THEN "reject"
      ELSE Parsed({DescSteps(t) : t \in Tokenize(Desc, <<>>, SubSeq(lines, 1, eos - 1), {})})

\* rend_parse_introduction_points: one after the other, until one is refused.
IpoSteps(t) ==
  <<Refuse(Len(t) < 5), Need(t, "introduction-point", 1), Need(t, "ip-address", 1), Need(t, "onion-port", 1),
    NeedKey(t, "onion-key"), NeedKey(t, "service-key")>>

ParseIpo(lines) == Parsed({IpoSteps(t) : t \in Tokenize(Ipo, <<>>, lines, {})})

\* rend_parse_client_keys.
ClientSteps(t) ==
  <<Refuse(Len(t) < 2), Sure(t[1].kw = "client-name"), Sure(t[1].words = 1),
    Sure(Has(t, "client-key") => FirstOf(t, "client-key").obj = "secret_key"),
    Need(t, "descriptor-cookie", 1)>>

ParseClient(lines) == Parsed({ClientSteps(t) : t \in Tokenize(ClientKeys, <<>>, lines, {})})
=============================================================================
