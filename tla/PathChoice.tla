----------------------------- MODULE PathChoice -----------------------------
(***************************************************************************)
(* The relays of a new circuit: the exit, that the waiting streams or the  *)
(* predicted ports want, the entry and the middle, each chosen at random   *)
(* by bandwidth among the relays that the directory, the options and the   *)
(* families of the relays chosen before leave.  A choice is the set of     *)
(* what the random number can make of it.                                  *)
(*                                                                         *)
(* A world w is what the choice depends on: the known relays w.node (a     *)
(* function from their identities), the names the consensus binds          *)
(* (w.named) or knows to be taken (w.taken), this relay (w.me, or none),   *)
(* the options, and the ports that streams wait for and that are           *)
(* predicted.                                                              *)
(***************************************************************************)
EXTENDS Integers, FiniteSets, Sequences, FiniteSetsExt

None == 0
Unnamed == 0        \* the nickname of relays that have none

Known(w) == DOMAIN w.node
Nick(w, n) == w.node[n].nick

HasDescriptor(w, n) == w.node[n].desc

\* A reference to a relay is <<"id", identity>> or <<"name", nickname>>.
ByName(w, ref) ==
  IF ref[1] = "id" THEN {ref[2]} \cap Known(w)
  ELSE IF ref[2] = Unnamed THEN {}
  ELSE IF ref[2] \in DOMAIN w.named THEN {w.named[ref[2]]} \cap Known(w)
  ELSE IF ref[2] \in w.taken THEN {}
  ELSE LET matches == {n \in Known(w) : Nick(w, n) = ref[2]}
       IN  IF matches = {} THEN {} ELSE {Min(matches)}

NicknameMatches(w, n, ref) ==
  ref = <<"id", n>> \/ ref = <<"name", Nick(w, n)>>

\* A set of relays as a user writes it: references and networks.
Contains(w, set, n) ==
  \/ \E ref \in set.refs : NicknameMatches(w, n, ref)
  \/ w.node[n].subnet \in set.nets
AllOf(w, set) ==
  IF set.nets = {} THEN UNION {ByName(w, ref) : ref \in set.refs}
  ELSE {n \in Known(w) : Contains(w, set, n)}

SameSubnet(w, n, m) == w.distinct /\ w.node[n].subnet = w.node[m].subnet

Family(w, n) ==
  LET declared == UNION {ByName(w, ref) : ref \in w.node[n].family}
  IN  {n}
      \cup {m \in Known(w) : SameSubnet(w, n, m)}
      \cup {m \in declared : \E ref \in w.node[m].family : NicknameMatches(w, n, ref)}
      \cup UNION {AllOf(w, set) : set \in {s \in w.families : Contains(w, s, n)}}

SameFamily(w, n, m) ==
  \/ SameSubnet(w, n, m)
  \/ /\ \E ref \in w.node[n].family : NicknameMatches(w, m, ref)
     /\ \E ref \in w.node[m].family : NicknameMatches(w, n, ref)
  \/ \E set \in w.families : Contains(w, set, n) /\ Contains(w, set, m)

-----------------------------------------------------------------------------
(* Bandwidth.  Rates are in kilobytes; what is weighed, in bytes.          *)

CONSTANTS BridgeLeast, BridgeMost, Guess

Total(f) == FoldFunction(+, 0, f)

Believable(bw) == IF bw > BridgeMost THEN BridgeMost ELSE IF bw < BridgeLeast THEN BridgeLeast ELSE bw

\* Those whose share is positive; everyone, if nobody has one.
Drawn(share) ==
  IF Total(share) = 0 THEN DOMAIN share ELSE {n \in DOMAIN share : share[n] > 0}

\* The consensus's weights: exit, guard, both, or neither; and another factor
\* for a relay that is a directory too.
ByWeights(w, sl, weight) ==
  LET kind(n) == LET exit == w.node[n].exit /\ ~w.node[n].badexit
                 IN  IF w.node[n].guard THEN IF exit THEN "d" ELSE "g" ELSE IF exit THEN "e" ELSE "m"
      bw(n) == IF w.node[n].cons THEN w.node[n].bw ELSE Believable(w.node[n].bw)
      share == [n \in sl |-> bw(n) * weight[kind(n)] * (IF w.node[n].dir THEN weight.dir[kind(n)] ELSE weight.scale)]
  IN  IF \/ sl = {} \/ \E k \in {"g", "m", "e", "d"} : weight[k] < 0 \/ weight.dir[k] < 0
         \/ \E n \in sl : w.node[n].cons /\ ~w.node[n].hasbw
      THEN {} ELSE Drawn(share)

\* What each relay counts for when the consensus has no weights.  A relay
\* whose bandwidth nobody knows counts for the mean of the others, but one
\* that is neither fast nor exit nor guard for nothing.
Mean(told, total, fast) ==
  IF total > 0 THEN total \div Cardinality(DOMAIN told) ELSE IF fast THEN 2 * Guess ELSE Guess
Estimate(w, sl, told) ==
  [n \in sl |->
    IF n \in DOMAIN told THEN told[n]
    ELSE IF ~w.node[n].fast /\ ~w.node[n].exit /\ ~w.node[n].guard THEN 0
    ELSE Mean(told, Total(told), w.node[n].fast)]
Guessed(w, sl) ==
  Estimate(w, sl, [n \in {m \in sl : w.node[m].cons => w.node[m].hasbw} |->
                    IF w.node[n].cons THEN w.node[n].bw ELSE Believable(w.node[n].bw)])

\* How much of an exit's (a guard's) bandwidth counts where no exit (guard) is
\* wanted: one less a third of all over theirs, as <<over, under>>.
Discount(all, theirs, wanted) ==
  IF wanted \/ theirs = 0 THEN <<1, 1>>
  ELSE <<IF 3 * theirs > all THEN 3 * theirs - all ELSE 0, 3 * theirs>>

Cut(bw, isexit, e, isguard, g) ==
  (1000 * bw * (IF isexit THEN e[1] ELSE 1) * (IF isguard THEN g[1] ELSE 1))
    \div ((IF isexit THEN e[2] ELSE 1) * (IF isguard THEN g[2] ELSE 1))
Discounted(w, bw, e, g) == [n \in DOMAIN bw |-> Cut(bw[n], w.node[n].exit, e, w.node[n].guard, g)]
OldShare(w, bw, rule) ==
  Discounted(w, bw,
    Discount(Total(bw), SumFunctionOnSet(bw, {n \in DOMAIN bw : w.node[n].exit}), rule = "exit"),
    Discount(Total(bw), SumFunctionOnSet(bw, {n \in DOMAIN bw : w.node[n].guard}), rule = "guard"))

\* crypto_rand_uint64 will not be asked for a number below zero.
Positive(share) == {n \in DOMAIN share : share[n] > 0}
OldDraw(w, bw, rule) == IF Total(bw) = 0 THEN DOMAIN bw ELSE Positive(OldShare(w, bw, rule))
OldChoice(w, sl, rule) == OldDraw(w, Guessed(w, sl), rule)

FirstOf(a, b) == IF a = {} THEN b ELSE a

ChooseByBandwidth(w, sl, rule) == FirstOf(ByWeights(w, sl, w.weights[rule]), OldChoice(w, sl, rule))

-----------------------------------------------------------------------------
(* One relay.                                                              *)

NotUnreliable(w, n, how) ==
  /\ "uptime" \in how => w.node[n].stable
  /\ "capacity" \in how => w.node[n].fast
  /\ "guard" \in how => w.node[n].guard

Running(w, how) ==
  {n \in Known(w) :
    /\ w.node[n].run /\ (w.node[n].valid \/ "invalid" \in how)
    /\ HasDescriptor(w, n) /\ w.node[n].general
    /\ NotUnreliable(w, n, how)}

ChooseOnce(w, excluded, how) ==
  LET single == {n \in Known(w) : w.single /\ w.node[n].onehop}
      mine == IF w.me = None THEN {} ELSE Family(w, w.me)
      left == {n \in Running(w, how) \ (single \cup mine \cup excluded) : ~Contains(w, w.exclude, n)}
  IN  ChooseByBandwidth(w, left, IF "guard" \in how THEN "guard" ELSE "mid")

\* Twice: the second time without the wishes.
ChooseRandom(w, excluded, how) ==
  FirstOf(ChooseOnce(w, excluded, how), ChooseOnce(w, excluded, how \ {"uptime", "capacity", "guard"}))

-----------------------------------------------------------------------------
(* The exit.                                                               *)

MayExit(w, n, how) ==
  /\ n # w.me /\ HasDescriptor(w, n)
  /\ w.node[n].run /\ ~w.node[n].badexit /\ w.node[n].general
  /\ ~Contains(w, w.noexit, n) /\ ~Contains(w, w.exclude, n)
  /\ w.onlyexits # {} => n \in w.onlyexits
  /\ NotUnreliable(w, n, how)
  /\ w.node[n].valid \/ "exit" \in w.invalid
  /\ ~(w.single /\ w.node[n].onehop)
  /\ w.node[n].ports # {}

HandlesSomePort(w, n) == w.node[n].ports \cap w.predicted # {}

\* How many waiting streams can use it.
Support(w, n) == Cardinality(w.node[n].ports \cap w.waiting)

Best(w, able) ==
  Max({-1} \cup {Support(w, n) : n \in {m \in able : w.waiting # {} => Support(w, m) > 0}})
ExitAmong(w, able, best) ==
  IF best > 0 THEN ChooseByBandwidth(w, {n \in able : Support(w, n) = best}, "exit")
  ELSE FirstOf(ChooseByBandwidth(w, {n \in able : HandlesSomePort(w, n)}, "exit"),
               ChooseByBandwidth(w, able, "exit"))

\* Without the wishes, if nobody meets them.
AbleToExit(w, how) == {n \in Known(w) : MayExit(w, n, how)}
Candidates(w, able) == IF Best(w, able) = -1 THEN AbleToExit(w, {}) ELSE able
ExitFrom(w, able) == ExitAmong(w, able, Best(w, able))
GoodExitGeneral(w, how) == ExitFrom(w, Candidates(w, AbleToExit(w, how)))

Allow(w, place) == IF place \in w.invalid THEN {"invalid"} ELSE {}

GoodExit(w, purpose, how, internal) ==
  IF purpose = "rendezvous" THEN ChooseRandom(w, {}, how \cup Allow(w, "rendezvous"))
  ELSE IF internal THEN ChooseRandom(w, {}, how \cup Allow(w, "middle"))
  ELSE GoodExitGeneral(w, how)

-----------------------------------------------------------------------------
(* The path.                                                               *)

Acceptable(w) == {n \in Known(w) : w.node[n].run /\ w.node[n].valid /\ HasDescriptor(w, n)}

\* -1: not enough relays for any circuit.
RouteLen(w, purpose, asked) ==
  LET want == IF asked # None /\ purpose \notin {"testing", "establish_intro"} THEN 4 ELSE 3
      have == Cardinality(Acceptable(w))
  IN  IF have < 2 THEN -1 ELSE IF have < want THEN have ELSE want

\* Forgets the hops before.
GoodMiddle_ExitOnly(w, exit, path, how) ==
  ChooseRandom(w, IF exit \in Known(w) THEN Family(w, exit) ELSE {}, how \cup Allow(w, "middle"))

FamilyOf(w, n) == IF n \in Known(w) THEN Family(w, n) ELSE {}

GoodMiddle(w, exit, path, how) ==
  ChooseRandom(w, FamilyOf(w, exit) \cup UNION {FamilyOf(w, n) : n \in {path[i] : i \in DOMAIN path}},
               how \cup Allow(w, "middle"))

\* With entry guards, one of them; without, any relay that could be one.
GoodEntry(w, exit, how) ==
  IF w.guards # {} THEN w.guards \ FamilyOf(w, exit)
  ELSE ChooseRandom(w, FamilyOf(w, exit) \cup w.unreachable, how \cup {"guard"} \cup Allow(w, "entry"))

\* The hop after a path of cur relays; nobody, when none is left.
ExtendCpath(w, exit, len, path, how) ==
  IF Len(path) = len - 1 THEN {exit}
  ELSE IF path = <<>> THEN GoodEntry(w, exit, how)
  ELSE GoodMiddle(w, exit, path, how)

\* Every path that can come of it; the paths that were given up are missing.
Populate(w, exit, len, how) ==
  LET more(paths) == UNION {{Append(p, n) : n \in ExtendCpath(w, exit, len, p, how)} : p \in paths}
      upto[i \in 0 .. len] == IF i = 0 THEN {<<>>} ELSE more(upto[i - 1])
  IN  upto[len]

Paths(w, purpose, asked, how, internal) ==
  LET len == IF purpose = "onehop" THEN 1 ELSE RouteLen(w, purpose, asked)
      exits == IF asked # None THEN {asked} ELSE GoodExit(w, purpose, how, internal)
  IN  IF len < 1 THEN {} ELSE UNION {Populate(w, e, len, how) : e \in exits}

-----------------------------------------------------------------------------
\* A name means one relay: no two have it, none is bound elsewhere or taken.
NamesClear(w) ==
  /\ \A n, m \in Known(w) : Nick(w, n) = Nick(w, m) => n = m
  /\ \A n \in Known(w) : Nick(w, n) \notin w.taken \cup {Unnamed}
  /\ \A name \in DOMAIN w.named : \A n \in Known(w) : Nick(w, n) = name => w.named[name] = n
  /\ \A n \in Known(w) : \A ref \in w.node[n].family :
       ref[1] = "name" => \E m \in Known(w) : Nick(w, m) = ref[2]

\* What no path may be: no relay twice, none excluded, down or unusable, and,
\* when names are clear, no two of one family; nobody of this relay's own
\* family except as exit.
PathSound(w, path, asked) ==
  LET last == Len(path)
      chosen == {i \in 1 .. last : ~(asked # None /\ i = last)}
      picked == IF w.guards # {} THEN chosen \ {1} ELSE chosen
  IN  /\ \A i, j \in 1 .. last : i # j =>
           /\ path[i] # path[j]
           /\ NamesClear(w) => ~SameFamily(w, path[i], path[j])
      /\ \A i \in picked :
           /\ w.node[path[i]].run /\ w.node[path[i]].desc /\ w.node[path[i]].general
           /\ ~Contains(w, w.exclude, path[i])
           /\ w.node[path[i]].valid \/ w.invalid # {}
           /\ path[i] # w.me
      /\ \A i \in picked \ {last} : w.me # None /\ NamesClear(w) => ~SameFamily(w, path[i], w.me)

\* The two readings of "family" agree, and it is mutual.
FamiliesAgree(w) ==
  NamesClear(w) =>
    \A n, m \in Known(w) : n # m =>
      /\ m \in Family(w, n) <=> SameFamily(w, n, m)
      /\ m \in Family(w, n) <=> n \in Family(w, m)

\* No random number below zero is asked for, and nobody who counts for
\* nothing is chosen while somebody counts for something.
DrawSound(w, sl, rule) ==
  sl # {} =>
    /\ Total(Guessed(w, sl)) > 0 => Total(OldShare(w, Guessed(w, sl), rule)) > 0
    /\ ChooseByBandwidth(w, sl, rule) # {}
    /\ ChooseByBandwidth(w, sl, rule) \subseteq sl
=============================================================================
