---------------------------- MODULE ConsensusDoc ----------------------------
(***************************************************************************)
(* What the consensus that is computed from a set of votes says of a       *)
(* router (networkstatus_compute_consensus and its helpers, dirvote.c).    *)
(*                                                                         *)
(* votes: a function from voters to votes.  A vote has the methods its     *)
(* author supports, the flags it knows, and for each router it lists (a    *)
(* number, the identity) an entry: descriptor, time of publication, name,  *)
(* flags, bandwidth, measured bandwidth, exit summary, microdescriptor and *)
(* version, numbers in the order of the strings they stand for, 0 for none.*)
(***************************************************************************)
EXTENDS Naturals, Sequences, FiniteSets, FiniteSetsExt, SequencesExt, Functions

MaxMethod == 13   \* MAX_SUPPORTED_CONSENSUS_METHOD
None == 0

\* compute_consensus_method: supported by more than two thirds of the voters.
Method(votes) ==
  LET n == Cardinality(DOMAIN votes)
      able(k) == {v \in DOMAIN votes : k \in votes[v].methods}
      ok == {k \in UNION {votes[v].methods : v \in DOMAIN votes} :
               Cardinality(able(k)) > (2 * n) \div 3}
      best == IF ok = {} THEN 1 ELSE Max(ok)
  IN  IF best <= MaxMethod THEN best ELSE 1

\* The lower median: median_int and its like, of a function's values.
Median(f) ==
  LET s == SortSeq(SetToSeq({<<f[x], x>> : x \in DOMAIN f}), LAMBDA a, b : a[1] < b[1])
  IN  s[(Len(s) + 1) \div 2][1]

\* smartlist_get_most_frequent: the later of those that are equally frequent.
MostFrequent(f) ==
  LET count(x) == Cardinality({v \in DOMAIN f : f[v] = x})
      top == {x \in Range(f) : \A y \in Range(f) : count(y) <= count(x)}
  IN  IF top = {} THEN None ELSE Max(top)

Entries(votes, id) == [v \in {u \in DOMAIN votes : id \in DOMAIN votes[u].list} |-> votes[v].list[id]]

\* Mutant: the most recently published entry wins, however few list it.
Popular_Newest(E) ==
  CHOOSE e \in Range(E) : \A d \in Range(E) : d.pub <= e.pub

\* compute_routerstatus_consensus: the most frequent entry; of two, the one
\* that was published last, then the one of the smaller digest.
Popular(E) ==
  LET alike(d, e) == d.desc = e.desc /\ d.pub = e.pub /\ d.name = e.name
      count(e) == Cardinality({v \in DOMAIN E : alike(E[v], e)})
      before(d, e) == \/ count(d) > count(e)
                      \/ count(d) = count(e) /\ d.pub > e.pub
                      \/ count(d) = count(e) /\ d.pub = e.pub /\ d.desc < e.desc
                      \/ count(d) = count(e) /\ d.pub = e.pub /\ d.desc = e.desc /\ d.name > e.name
  IN  CHOOSE e \in Range(E) : \A d \in Range(E) : alike(d, e) \/ before(e, d)

Microdesc(E, e) ==
  LET same == {v \in DOMAIN E : E[v].desc = e.desc /\ E[v].pub = e.pub /\ E[v].name = e.name /\ E[v].micro # None}
  IN  MostFrequent([v \in same |-> E[v].micro])

\* name_to_id_map: the router that a name is given to, if all agree.
Named(votes, name) ==
  LET ids(flag) == {id \in UNION {DOMAIN votes[v].list : v \in DOMAIN votes} :
                      \E v \in DOMAIN votes : /\ flag \in votes[v].known /\ id \in DOMAIN votes[v].list
                                              /\ flag \in votes[v].list[id].flags
                                              /\ votes[v].list[id].name = name}
      own == ids("Named")
  IN  IF Cardinality(own) = 1 /\ own \cap ids("Unnamed") = {} THEN [known |-> TRUE, ids |-> own]
      ELSE [known |-> own \cup ids("Unnamed") # {}, ids |-> {}]

\* Flags are tallied among those who know them.
Flags(votes, E) ==
  LET care(f) == {v \in DOMAIN votes : f \in votes[v].known}
      say(f) == {v \in DOMAIN E : f \in E[v].flags \cap votes[v].known}
      all == UNION {votes[v].known : v \in DOMAIN votes}
  IN  {f \in all \ {"Named", "Unnamed"} : Cardinality(say(f)) > Cardinality(care(f)) \div 2}

Bandwidth(E, method) ==
  LET measured == {v \in DOMAIN E : E[v].measured # None}
      claimed == {v \in DOMAIN E : E[v].bw # None}
  IN  IF method >= 6 /\ Cardinality(measured) > 2 THEN Median([v \in measured |-> E[v].measured])
      ELSE IF method >= 5 /\ claimed # {} THEN Median([v \in claimed |-> E[v].bw])
      ELSE None

\* The summary of the chosen descriptor; of any, if no one has that.
ExitSummary(E, e) ==
  LET of(S) == MostFrequent([v \in {u \in S : E[u].summary # None} |-> E[v].summary])
      right == of({v \in DOMAIN E : E[v].desc = e.desc})
  IN  IF right # None THEN right ELSE of(DOMAIN E)

\* The name that voters who name routers give it counts, if they agree.
NamesGiven(votes, E) == {E[v].name : v \in {u \in DOMAIN E : "Named" \in E[u].flags \cap votes[u].known}}

NameOf(votes, E, e) ==
  LET given == NamesGiven(votes, E)
  IN  IF Cardinality(given) = 1 THEN CHOOSE n \in given : TRUE ELSE e.name

\* What the consensus says of router id: nothing, or one entry.
Router(votes, total, id) ==
  LET E == Entries(votes, id)
      method == Method(votes)
      e == Popular(E)
      name == NameOf(votes, E, e)
      official == Named(votes, name)
      flags == Flags(votes, E)
      naming == IF method = 1
                THEN IF Cardinality(NamesGiven(votes, E)) = 1 THEN {"Named"} ELSE {}
                ELSE IF ~official.known THEN {} ELSE IF id \in official.ids THEN {"Named"} ELSE {"Unnamed"}
      versions == {v \in DOMAIN E : E[v].version # None}
  IN  IF Cardinality(DOMAIN E) <= total \div 2 \/ (method >= 4 /\ "Running" \notin flags) THEN {}
      ELSE {[desc |-> e.desc, pub |-> e.pub, name |-> name, flags |-> flags \cup naming,
             bw |-> Bandwidth(E, method), summary |-> IF method >= 5 THEN ExitSummary(E, e) ELSE None,
             micro |-> IF method >= 8 THEN Microdesc(E, e) ELSE None,
             version |-> MostFrequent([v \in versions |-> E[v].version])]}

\* dirvote_compute_params, for the values that votes have for one parameter.
Param(values, method, total) ==
  LET n == Cardinality(DOMAIN values)
  IN  IF n > 0 /\ (method < 12 \/ n > total \div 2 \/ n >= 3) THEN {Median(values)} ELSE {}
-----------------------------------------------------------------------------
\* When all but a minority of the voters, who know the flags, say the same of
\* a router, then that is what the consensus says of it, whatever the others
\* say and even where they list it differently: descriptor, flags, bandwidth,
\* exit summary and microdescriptor.  (A name is another matter: one voter
\* can give it, or take it away.)
MajorityRules(votes, total, id, honest) ==
  LET e == Entries(votes, id)[CHOOSE v \in honest : TRUE]
      known == votes[CHOOSE v \in honest : TRUE].known
  IN  Method(votes) >= 8 =>
        /\ "Running" \in e.flags <=> Router(votes, total, id) # {}
        /\ \A r \in Router(votes, total, id) :
             /\ r.desc = e.desc /\ r.pub = e.pub /\ r.version = e.version
             /\ r.flags \cap (known \ {"Named", "Unnamed"}) = e.flags \ {"Named", "Unnamed"}
             /\ r.bw \in {e.bw, e.measured} /\ r.summary = e.summary /\ r.micro = e.micro
=============================================================================
