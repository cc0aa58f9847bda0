-------------------------- MODULE Streams_proofs --------------------------
(***************************************************************************)
(* For any circuits, streams, introduction and rendezvous points, sizes of *)
(* the lists and numbers of tries: no assertion of the rendezvous code     *)
(* fails, an INTRODUCE_ACK counts for the rendezvous it is about, and one  *)
(* handshake is answered by one circuit.  For any sizes, parameters and    *)
(* times: what a client learns of its circuits' build times stays sound.   *)
(***************************************************************************)
EXTENDS MCStreams, SequenceLemmas

Places == {"idle", "desc", "circ", "attached", "closed"}
CircRec ==
  [p : Intros \cup Rends \cup {"new", "closed"}, open : BOOLEAN, late : BOOLEAN, final : BOOLEAN,
   exit : Points \cup {Nil}, for : Circuits \cup {Nil},
   cell : {"none", "establish", "established", "introduce1", "ack", "nak", "rendezvous2"},
   has : SUBSET AP, waits : BOOLEAN, meet : Answers \cup {Nil}]
AnsRec ==
  [p : {"new", "connect", "sent", "spliced", "closed"}, cookie : Circuits \cup {Nil},
   late : BOOLEAN, again : BOOLEAN, fails : Nat, sent : BOOLEAN]
PointRec == [st : {"new", "building", "sent", "live", "lost", "gone"}, expiring : BOOLEAN, listed : BOOLEAN]
Counts == UNION {[P -> Nat] : P \in SUBSET Points}
Caches == {Nil} \cup [time : Nat, left : Counts]
Posts == {Nil} \cup [time : Nat, points : SUBSET Points]

\* The service's circuits that sent a RENDEZVOUS1 for cookie c.
SentFor(A, c) == {m \in Answers : A[m].cookie = c /\ A[m].sent}

\* What is known of the client's circuit c while T are the cookies that the
\* service was told and A its circuits to rendezvous points.
Right(o, c, T, A) ==
  /\ o.p \in Intros => o.exit \in Points
  /\ o.p = "ackwait" => o.open
  /\ o.p = "acked" => c \in T
  /\ o.cell = "introduce1" => o.exit \in Points /\ o.for \in Circuits
  /\ o.cell = "ack" => o.for \in T
  /\ o.p = "joined" \/ o.cell = "rendezvous2" => o.meet \in SentFor(A, c)

Charts(T, A) == {f \in [Circuits -> CircRec] : \A c \in Circuits : Right(f[c], c, T, A)}

\* The states of the client that the service's state allows.
Worlds(T, A) ==
  [str : [AP -> Places], cache : Caches, asked : SUBSET Dirs, fetches : SUBSET Dirs,
   circ : Charts(T, A), sound : {TRUE}]

\* A cookie is answered at most once: what was answered was seen, and its
\* cpath is not there any more.
AnswersRight ==
  /\ ans \in [Answers -> AnsRec] /\ hop \subseteq seen
  /\ \A m \in Answers :
       /\ ans[m].p \in {"connect", "sent"} => ans[m].cookie \in Circuits
       /\ ans[m].p = "connect" => ans[m].cookie \in seen
       /\ ans[m].p = "sent" => ans[m].sent
       /\ ans[m].p \in {"new", "connect"} => ~ans[m].sent
       /\ ans[m].sent => ans[m].cookie \in seen \ hop
       /\ \A n \in Answers :
            ans[m].sent /\ ans[n].sent /\ ans[m].cookie = ans[n].cookie => m = n

ServiceRight ==
  /\ point \in [Points -> PointRec] /\ posted \in [Dirs -> Posts] /\ posts \in Nat
  /\ inbox \subseteq Points \X Circuits /\ seen \subseteq Circuits /\ told \subseteq Circuits

IInv == Client \in Worlds(told, ans) /\ AnswersRight /\ ServiceRight
-----------------------------------------------------------------------------
\* What the world's fields are.
LEMMA WorldFields ==
  ASSUME NEW T, NEW A, NEW w \in Worlds(T, A)
  PROVE  /\ w.str \in [AP -> Places] /\ w.cache \in Caches /\ w.asked \in SUBSET Dirs
         /\ w.fetches \in SUBSET Dirs /\ w.circ \in Charts(T, A) /\ w.sound = TRUE
  BY DEF Worlds

\* What is known of one circuit.
LEMMA ChartFields ==
  ASSUME NEW T, NEW A, NEW w \in Worlds(T, A), NEW c \in Circuits
  PROVE  w.circ \in [Circuits -> CircRec] /\ w.circ[c] \in CircRec /\ Right(w.circ[c], c, T, A)
<1>1. w.circ \in Charts(T, A)
  BY WorldFields
<1> QED
  BY <1>1 DEF Charts

\* One field of the client changes.
LEMMA StrChanges ==
  ASSUME NEW T, NEW A, NEW w \in Worlds(T, A), NEW x \in [AP -> Places]
  PROVE  [w EXCEPT !.str = x] \in Worlds(T, A)
  BY DEF Worlds

LEMMA CacheChanges ==
  ASSUME NEW T, NEW A, NEW w \in Worlds(T, A), NEW x \in Caches
  PROVE  [w EXCEPT !.cache = x] \in Worlds(T, A)
  BY DEF Worlds

LEMMA AskedChanges ==
  ASSUME NEW T, NEW A, NEW w \in Worlds(T, A), NEW x \in SUBSET Dirs
  PROVE  [w EXCEPT !.asked = x] \in Worlds(T, A)
  BY DEF Worlds

LEMMA FetchesChange ==
  ASSUME NEW T, NEW A, NEW w \in Worlds(T, A), NEW x \in SUBSET Dirs
  PROVE  [w EXCEPT !.fetches = x] \in Worlds(T, A)
  BY DEF Worlds

LEMMA CircChanges ==
  ASSUME NEW T, NEW A, NEW w \in Worlds(T, A), NEW x \in Charts(T, A)
  PROVE  [w EXCEPT !.circ = x] \in Worlds(T, A)
  BY DEF Worlds

\* One circuit changes.
LEMMA OneCircChanges ==
  ASSUME NEW T, NEW A, NEW w \in Worlds(T, A), NEW c \in Circuits,
         NEW o \in CircRec, Right(o, c, T, A)
  PROVE  /\ [w EXCEPT !.circ[c] = o] \in Worlds(T, A)
         /\ [w EXCEPT !.circ[c] = o].circ[c] = o
         /\ [w EXCEPT !.circ[c] = o].cache = w.cache
         /\ \A d \in Circuits : d # c => [w EXCEPT !.circ[c] = o].circ[d] = w.circ[d]
<1> DEFINE x == [w.circ EXCEPT ![c] = o]
<1>1. w.circ \in [Circuits -> CircRec] /\ \A d \in Circuits : Right(w.circ[d], d, T, A)
  BY WorldFields DEF Charts
<1>2. x \in Charts(T, A) /\ x[c] = o /\ \A d \in Circuits : d # c => x[d] = w.circ[d]
  BY <1>1 DEF Charts
<1>3. [w EXCEPT !.circ[c] = o] = [w EXCEPT !.circ = x]
  OBVIOUS
<1> HIDE DEF x
<1>4. [w EXCEPT !.circ = x].circ = x /\ [w EXCEPT !.circ = x].cache = w.cache
  BY DEF Worlds
<1> QED
  BY <1>2, <1>3, <1>4, CircChanges

\* A new circuit, and a closed one, is right.
LEMMA NewCircRight ==
  ASSUME RendAssumption, NEW T, NEW A, NEW c \in Circuits
  PROVE  /\ NewCirc \in CircRec /\ Right(NewCirc, c, T, A)
         /\ [NewCirc EXCEPT !.p = "closed"] \in CircRec
         /\ Right([NewCirc EXCEPT !.p = "closed"], c, T, A)
         /\ [NewCirc EXCEPT !.p = "establish"] \in CircRec
         /\ Right([NewCirc EXCEPT !.p = "establish"], c, T, A)
         /\ \A p \in Points :
              /\ [NewCirc EXCEPT !.p = "introducing", !.exit = p] \in CircRec
              /\ Right([NewCirc EXCEPT !.p = "introducing", !.exit = p], c, T, A)
  BY DEF NewCirc, CircRec, Right, Intros, Rends

\* The points of the cached descriptor.
LEMMA UsablePoints ==
  ASSUME NEW T, NEW A, NEW w \in Worlds(T, A)
  PROVE  /\ Usable(w) \subseteq Points
         /\ Usable(w) # {} => /\ w.cache \in [time : Nat, left : Counts]
                              /\ w.cache.left \in [Usable(w) -> Nat]
<1>1. w.cache \in Caches
  BY WorldFields
<1>2. CASE w.cache = Nil
  BY <1>2 DEF Usable
<1>3. CASE w.cache # Nil
  <2>1. w.cache \in [time : Nat, left : Counts] /\ Usable(w) = DOMAIN w.cache.left
    BY <1>1, <1>3 DEF Caches, Usable
  <2>2. w.cache.left \in Counts
    BY <2>1
  <2>3. PICK P \in SUBSET Points : w.cache.left \in [P -> Nat]
    BY <2>2 DEF Counts
  <2> QED
    BY <2>1, <2>3
<1> QED
  BY <1>2, <1>3
-----------------------------------------------------------------------------
(* The client's operations keep the worlds right. *)

\* An assertion that holds changes nothing.
LEMMA CheckRight ==
  ASSUME NEW T, NEW A, NEW w \in Worlds(T, A), NEW p, p = TRUE
  PROVE  Check(w, p) \in Worlds(T, A) /\ Check(w, p) = w
  BY DEF Check, Worlds

\* Moved leads to what is right.
LEMMA MovedRight ==
  ASSUME NEW T, NEW A, NEW w \in Worlds(T, A), NEW from, NEW to \in Places
  PROVE  Moved(w, from, to) \in Worlds(T, A)
<1> DEFINE x == [s \in AP |-> IF w.str[s] = from THEN to ELSE w.str[s]]
<1>1. x \in [AP -> Places]
  <2>1. w.str \in [AP -> Places]
    BY WorldFields
  <2> QED
    BY <2>1
<1> HIDE DEF x
<1>2. [w EXCEPT !.str = x] \in Worlds(T, A)
  BY <1>1, StrChanges
<1> QED
  BY <1>2 DEF Moved, x

\* GiveUp leads to what is right.
LEMMA GiveUpRight ==
  ASSUME NEW T, NEW A, NEW w \in Worlds(T, A)
  PROVE  GiveUp(w) \in Worlds(T, A)
<1>1. "closed" \in Places
  BY DEF Places
<1>2. Moved(w, "desc", "closed") \in Worlds(T, A)
  BY <1>1, MovedRight
<1>3. [Moved(w, "desc", "closed") EXCEPT !.asked = {}] \in Worlds(T, A)
  BY <1>2, AskedChanges
<1> QED
  BY <1>3 DEF GiveUp

\* Refetch leads to what is right.
LEMMA RefetchRight ==
  ASSUME NEW T, NEW A, NEW w \in Worlds(T, A)
  PROVE  Refetch(w) \in SUBSET Worlds(T, A)
<1>1. ASSUME NEW d \in Dirs
      PROVE  [w EXCEPT !.asked = @ \cup {d}, !.fetches = @ \cup {d}] \in Worlds(T, A)
  <2> DEFINE a == w.asked \cup {d}
             f == w.fetches \cup {d}
             u == [w EXCEPT !.asked = a]
  <2>1. a \in SUBSET Dirs /\ f \in SUBSET Dirs
    <3>1. w.asked \in SUBSET Dirs /\ w.fetches \in SUBSET Dirs
      BY WorldFields
    <3> QED
      BY <3>1
  <2>2. [w EXCEPT !.asked = @ \cup {d}, !.fetches = @ \cup {d}] = [u EXCEPT !.fetches = f]
    OBVIOUS
  <2> HIDE DEF a, f
  <2>3. u \in Worlds(T, A)
    BY <2>1, AskedChanges
  <2> HIDE DEF u
  <2>4. [u EXCEPT !.fetches = f] \in Worlds(T, A)
    BY <2>1, <2>3, FetchesChange
  <2> QED
    BY <2>2, <2>4
<1>2. GiveUp(w) \in Worlds(T, A)
  BY GiveUpRight
<1>3. \A D \in SUBSET Dirs :
        {[w EXCEPT !.asked = @ \cup {d}, !.fetches = @ \cup {d}] : d \in D} \in SUBSET Worlds(T, A)
  BY <1>1
<1>4. Dirs \ w.asked \in SUBSET Dirs
  OBVIOUS
<1> QED
  BY <1>2, <1>3, <1>4 DEF Refetch

\* Report leads to what is right.
LEMMA ReportRight ==
  ASSUME NEW T, NEW A, NEW w \in Worlds(T, A), NEW p \in Points, NEW gone \in BOOLEAN, RendAssumption
  PROVE  Report(w, p, gone) \in SUBSET Worlds(T, A)
<1> DEFINE left == w.cache.left
           out == gone \/ left[p] + 1 >= MaxUnreach
           now == IF p \notin DOMAIN left THEN left
                  ELSE IF out THEN [q \in DOMAIN left \ {p} |-> left[q]]
                  ELSE [left EXCEPT ![p] = @ + 1]
           u == [w EXCEPT !.cache.left = now]
<1>1. CASE Usable(w) = {}
  BY <1>1, RefetchRight DEF Report
<1>2. CASE Usable(w) # {}
  <2>1. w.cache \in [time : Nat, left : Counts] /\ left \in [Usable(w) -> Nat] /\ Usable(w) \subseteq Points
    BY <1>2, UsablePoints
  <2>2. now \in Counts
    <3>1. CASE p \notin DOMAIN left
      BY <3>1, <2>1 DEF Counts
    <3>2. CASE p \in DOMAIN left /\ out
      <4>1. [q \in DOMAIN left \ {p} |-> left[q]] \in [Usable(w) \ {p} -> Nat]
        BY <2>1
      <4> QED
        BY <3>2, <4>1, <2>1 DEF Counts
    <3>3. CASE p \in DOMAIN left /\ ~out
      <4>1. [left EXCEPT ![p] = @ + 1] \in [Usable(w) -> Nat]
        BY <2>1, <3>3
      <4> QED
        BY <3>3, <4>1, <2>1 DEF Counts
    <3> QED
      BY <3>1, <3>2, <3>3
  <2> HIDE DEF now
  <2>3. [w.cache EXCEPT !.left = now] \in Caches
    BY <2>1, <2>2 DEF Caches
  <2>4. u = [w EXCEPT !.cache = [w.cache EXCEPT !.left = now]]
    OBVIOUS
  <2>5. u \in Worlds(T, A)
    BY <2>3, <2>4, CacheChanges
  <2> HIDE DEF u
  <2>6. Refetch(u) \in SUBSET Worlds(T, A) /\ "desc" \in Places
    BY <2>5, RefetchRight DEF Places
  <2>7. {Moved(v, "circ", "desc") : v \in Refetch(u)} \in SUBSET Worlds(T, A)
    BY <2>6, MovedRight
  <2>8. Report(w, p, gone) = IF now # <<>> THEN {u} ELSE {Moved(v, "circ", "desc") : v \in Refetch(u)}
    BY <1>2 DEF Report, u, now
  <2> QED
    BY <2>5, <2>7, <2>8
<1> QED
  BY <1>1, <1>2

\* MarkForClose leads to what is right.
LEMMA MarkForCloseRight ==
  ASSUME RendAssumption, NEW T, NEW A, NEW w \in Worlds(T, A), NEW c \in Circuits
  PROVE  MarkForClose(w, c) \in SUBSET Worlds(T, A)
<1> DEFINE o == w.circ[c]
           x == [NewCirc EXCEPT !.p = "closed"]
           y == [s \in AP |-> IF s \in o.has THEN "closed" ELSE w.str[s]]
           u == [w EXCEPT !.circ[c] = x, !.str = y]
<1>1. o \in CircRec /\ Right(o, c, T, A)
  BY ChartFields
<1>2. x \in CircRec /\ Right(x, c, T, A)
  BY NewCircRight
<1>3. y \in [AP -> Places]
  <2>1. w.str \in [AP -> Places] /\ "closed" \in Places
    BY WorldFields DEF Places
  <2> QED
    BY <2>1
<1> HIDE DEF o, x, y
<1>4. [w EXCEPT !.circ[c] = x] \in Worlds(T, A)
  BY <1>2, OneCircChanges
<1>5. u = [[w EXCEPT !.circ[c] = x] EXCEPT !.str = y]
  OBVIOUS
<1>6. u \in Worlds(T, A)
  BY <1>3, <1>4, <1>5, StrChanges
<1> HIDE DEF u
<1>7. CASE o.p = "ackwait"
  <2>1. o.exit \in Points /\ o.open
    BY <1>1, <1>7 DEF Right, Intros
  <2>2. o.exit # Nil
    BY <2>1, RendAssumption
  <2>3. (o.open /\ o.exit # Nil) = TRUE
    BY <2>1, <2>2, <1>1 DEF CircRec
  <2>4. Check(u, o.open /\ o.exit # Nil) \in Worlds(T, A)
    BY <1>6, <2>3, CheckRight
  <2>5. MarkForClose(w, c) = Report(Check(u, o.open /\ o.exit # Nil), o.exit, TRUE)
    BY <1>7 DEF MarkForClose, o, u, x, y
  <2> QED
    BY <2>1, <2>4, <2>5, ReportRight
<1>8. CASE o.p = "introducing"
  <2>1. o.exit \in Points
    BY <1>1, <1>8 DEF Right, Intros
  <2>2. MarkForClose(w, c) = Report(u, o.exit, FALSE)
    BY <1>8 DEF MarkForClose, o, u, x, y
  <2> QED
    BY <2>1, <2>2, <1>6, ReportRight
<1>9. CASE o.p \notin {"ackwait", "introducing"}
  <2>1. MarkForClose(w, c) = {u}
    BY <1>9 DEF MarkForClose, o, u, x, y
  <2> QED
    BY <2>1, <1>6
<1> QED
  BY <1>7, <1>8, <1>9

\* Close leads to what is right.
LEMMA CloseRight ==
  ASSUME NEW T, NEW A, NEW w \in Worlds(T, A), NEW s \in AP
  PROVE  Close(w, s) \in Worlds(T, A)
  BY DEF Close, Worlds, Places

\* Of a finite set of numbers there is a greatest and a least.
LEMMA MaxIn ==
  ASSUME NEW S, IsFiniteSet(S), S \subseteq Nat, S # {}
  PROVE  Max(S) \in S
<1> DEFINE P == {X \in SUBSET S : X # {} => \E x \in X : \A y \in X : x >= y}
<1>1. {} \in P
  OBVIOUS
<1>2. ASSUME NEW X \in SUBSET S, X # {}, \A x \in X : X \ {x} \in P
      PROVE  X \in P
  <2>1. PICK z \in X : TRUE
    BY <1>2
  <2>2. X \ {z} \in P
    BY <1>2
  <2>3. CASE X \ {z} = {}
    BY <2>1, <2>3
  <2>4. CASE X \ {z} # {}
    <3>1. PICK x \in X \ {z} : \A y \in X \ {z} : x >= y
      BY <2>2, <2>4
    <3>2. x \in Nat /\ z \in Nat /\ \A y \in X : y \in Nat
      BY <2>1
    <3>3. CASE x >= z
      BY <3>1, <3>2, <3>3
    <3>4. CASE ~(x >= z)
      <4>1. \A y \in X : z >= y
        BY <3>1, <3>2, <3>4
      <4> QED
        BY <4>1, <2>1
    <3> QED
      BY <3>3, <3>4
  <2> QED
    BY <2>3, <2>4
<1>3. S \in P
  <2> HIDE DEF P
  <2> QED
    BY <1>1, <1>2, SubsetInduction
<1> QED
  BY <1>3 DEF Max

LEMMA MinIn ==
  ASSUME NEW S, S \subseteq Nat, S # {}
  PROVE  Min(S) \in S
  BY LeastOf DEF Min

\* circuit_get_best returns one of the circuits, or none.
LEMMA BestRight ==
  ASSUME RendAssumption, NEW T, NEW A, NEW w \in Worlds(T, A), NEW purposes, NEW open \in BOOLEAN
  PROVE  /\ Best(w, purposes, open) \in Circuits \cup {Nil}
         /\ Best(w, purposes, open) # Nil =>
              /\ Best(w, purposes, open) \in Circuits
              /\ w.circ[Best(w, purposes, open)].p \in purposes
              /\ ~w.circ[Best(w, purposes, open)].late
              /\ open => w.circ[Best(w, purposes, open)].open
         /\ Best(w, purposes, open) = Nil =>
              \A c \in Circuits : ~ /\ w.circ[c].p \in purposes /\ ~w.circ[c].late
                                    /\ open => w.circ[c].open
<1> DEFINE ok == {c \in Circuits : /\ w.circ[c].p \in purposes /\ ~w.circ[c].late
                                   /\ open => w.circ[c].open}
<1>1. Best(w, purposes, open) = IF ok = {} THEN Nil ELSE Max(ok)
  BY DEF Best
<1>2. ok \in SUBSET Circuits /\ IsFiniteSet(ok) /\ ok \subseteq Nat
  BY FS_Subset, RendAssumption
<1>3. ok # {} => Max(ok) \in ok
  <2> HIDE DEF ok
  <2> QED
    BY <1>2, MaxIn
<1>4. Nil \notin Circuits
  BY RendAssumption
<1>5. CASE ok = {}
  BY <1>1, <1>5, <1>4
<1>6. CASE ok # {}
  <2> DEFINE m == Max(ok)
  <2>1. m \in ok /\ Best(w, purposes, open) = m
    BY <1>1, <1>3, <1>6
  <2> HIDE DEF m
  <2> QED
    BY <2>1, <1>4
<1> QED
  BY <1>5, <1>6

\* A world with the circuit that was found or launched in it, if there is one.
Found(x, T, A) ==
  /\ x = <<x[1], x[2]>> /\ x[1] \in Worlds(T, A) /\ x[2] \in Circuits \cup {Nil}

\* Launch leads to what is right.
LEMMA LaunchRight ==
  ASSUME RendAssumption, NEW T, NEW A, NEW w \in Worlds(T, A), NEW o \in CircRec,
         \A c \in Circuits : Right(o, c, T, A), NEW x \in Launch(w, o)
  PROVE  Found(x, T, A) /\ (x[2] # Nil => x[1].circ[x[2]] = o)
<1> DEFINE fresh == {c \in Circuits : w.circ[c].p = "new"}
<1>1. CASE x = <<w, Nil>>
  BY <1>1 DEF Found
<1>2. CASE x # <<w, Nil>>
  <2> DEFINE m == Min(fresh)
  <2>1. fresh # {} /\ x = <<[w EXCEPT !.circ[m] = o], m>>
    BY <1>2 DEF Launch
  <2>2. m \in fresh
    <3>1. fresh \subseteq Nat
      BY RendAssumption
    <3> HIDE DEF fresh
    <3> QED
      BY <2>1, <3>1, MinIn
  <2> HIDE DEF m
  <2>3. m \in Circuits /\ Right(o, m, T, A)
    BY <2>2
  <2>4. [w EXCEPT !.circ[m] = o] \in Worlds(T, A) /\ [w EXCEPT !.circ[m] = o].circ[m] = o
    BY <2>3, OneCircChanges
  <2> QED
    BY <2>1, <2>3, <2>4 DEF Found
<1> QED
  BY <1>1, <1>2

\* Opened leads to what is right.
LEMMA OpenedRight ==
  ASSUME NEW T, NEW A, NEW o \in CircRec, NEW c \in Circuits, Right(o, c, T, A)
  PROVE  Opened(o) \in CircRec /\ Right(Opened(o), c, T, A) /\ Opened(o).p = o.p
  BY DEF Opened, CircRec, Right, Intros

\* RendCirc leads to what is right.
LEMMA RendCircRight ==
  ASSUME RendAssumption, NEW T, NEW A, NEW w \in Worlds(T, A), NEW x \in RendCirc(w)
  PROVE  Found(x, T, A)
<1> DEFINE best == Best(w, Rends, FALSE)
           new == [NewCirc EXCEPT !.p = "establish"]
<1>1. best \in Circuits \cup {Nil}
  BY BestRight
<1>2. CASE best # Nil
  <2>1. x = <<w, best>>
    BY <1>2 DEF RendCirc
  <2> HIDE DEF best
  <2> QED
    BY <1>1, <2>1 DEF Found
<1>3. CASE best = Nil
  <2>1. new \in CircRec /\ Opened(new) \in CircRec
          /\ \A c \in Circuits : Right(new, c, T, A) /\ Right(Opened(new), c, T, A)
    <3>1. new \in CircRec
      BY DEF NewCirc, CircRec, Rends
    <3>2. \A c \in Circuits : Right(new, c, T, A)
      BY NewCircRight
    <3>3. Opened(new) \in CircRec
      BY <3>1 DEF Opened, CircRec
    <3> HIDE DEF new
    <3> QED
      BY <3>1, <3>2, <3>3, OpenedRight
  <2>2. x \in Launch(w, new) \/ x \in Launch(w, Opened(new))
    BY <1>3 DEF RendCirc
  <2> HIDE DEF new
  <2> QED
    BY <2>1, <2>2, LaunchRight
<1> QED
  BY <1>2, <1>3

\* IntroCirc leads to what is right.
LEMMA IntroCircRight ==
  ASSUME RendAssumption, NEW T, NEW A, NEW w \in Worlds(T, A), NEW s \in AP, NEW x \in IntroCirc(w, s)
  PROVE  /\ Found(x, T, A)
         /\ x[2] # Nil /\ x[1].circ[x[2]].open =>
              x[1] = w /\ w.circ[x[2]].p \in Intros /\ ~w.circ[x[2]].late
<1> DEFINE new(p) == Launch(w, [NewCirc EXCEPT !.p = "introducing", !.exit = p])
           With(b) == IF b # Nil THEN {<<w, b>>}
                      ELSE IF Usable(w) = {} THEN {<<[v EXCEPT !.str[s] = "desc"], Nil>> : v \in Refetch(w)}
                      ELSE UNION {new(p) : p \in Usable(w)}
           newest == Best(w, Intros, FALSE)
           found == {newest} \cup (IF newest \in Slow THEN {Best(w, Intros, TRUE)} ELSE {})
<1>0. PICK best \in found : x \in With(best)
  BY DEF IntroCirc
<1>4. best \in {Best(w, Intros, TRUE), Best(w, Intros, FALSE)}
  OBVIOUS
<1> HIDE DEF found, newest
<1>1. CASE best # Nil
  <2>1. x = <<w, best>>
    BY <1>0, <1>1
  <2>2. best \in Circuits /\ w.circ[best].p \in Intros /\ ~w.circ[best].late
    <3>1. CASE best = Best(w, Intros, TRUE)
      BY <1>1, <3>1, BestRight
    <3>2. CASE best = Best(w, Intros, FALSE)
      BY <1>1, <3>2, BestRight
    <3> QED
      BY <1>4, <3>1, <3>2
  <2> QED
    BY <2>1, <2>2 DEF Found
<1>2. CASE best = Nil /\ Usable(w) = {}
  <2>1. PICK v \in Refetch(w) : x = <<[v EXCEPT !.str[s] = "desc"], Nil>>
    BY <1>0, <1>2
  <2>2. v \in Worlds(T, A)
    BY RefetchRight
  <2>3. [v EXCEPT !.str[s] = "desc"] \in Worlds(T, A)
    <3>1. [v.str EXCEPT ![s] = "desc"] \in [AP -> Places]
      BY <2>2, WorldFields DEF Places
    <3>2. [v EXCEPT !.str[s] = "desc"] = [v EXCEPT !.str = [v.str EXCEPT ![s] = "desc"]]
      OBVIOUS
    <3> QED
      BY <2>2, <3>1, <3>2, StrChanges
  <2> QED
    BY <2>1, <2>3 DEF Found
<1>3. CASE best = Nil /\ Usable(w) # {}
  <2> DEFINE o(p) == [NewCirc EXCEPT !.p = "introducing", !.exit = p]
  <2>1. PICK p \in Usable(w) : x \in Launch(w, o(p))
    BY <1>0, <1>3
  <2>2. p \in Points
    BY UsablePoints
  <2>3. o(p) \in CircRec /\ o(p).open = FALSE
    BY <2>2 DEF NewCirc, CircRec, Intros
  <2>4. \A c \in Circuits : Right(o(p), c, T, A)
    BY <2>2, NewCircRight
  <2> HIDE DEF o
  <2>5. Found(x, T, A) /\ (x[2] # Nil => x[1].circ[x[2]] = o(p))
    BY <2>1, <2>3, <2>4, LaunchRight
  <2> QED
    BY <2>5, <2>3
<1> QED
  BY <1>1, <1>2, <1>3

\* Reextend leads to what is right.
LEMMA ReextendRight ==
  ASSUME RendAssumption, NEW T, NEW A, NEW w \in Worlds(T, A), NEW i \in Circuits
  PROVE  Reextend(w, i) \in SUBSET Worlds(T, A)
<1> DEFINE o(p) == [NewCirc EXCEPT !.p = "introducing", !.exit = p]
<1>1. ASSUME NEW p \in Usable(w)
      PROVE  [w EXCEPT !.circ[i] = o(p)] \in Worlds(T, A)
  <2>1. p \in Points
    BY UsablePoints
  <2>2. o(p) \in CircRec /\ Right(o(p), i, T, A)
    BY <2>1, NewCircRight
  <2> HIDE DEF o
  <2> QED
    BY <2>2, OneCircChanges
<1>2. MarkForClose(w, i) \in SUBSET Worlds(T, A)
  BY MarkForCloseRight
<1> QED
  BY <1>1, <1>2 DEF Reextend

\* SendIntroduction leads to what is right.
LEMMA SendIntroductionRight ==
  ASSUME RendAssumption, NEW T, NEW A, NEW w \in Worlds(T, A), NEW i \in Circuits, NEW r \in Circuits,
         w.circ[i].p = "introducing", w.circ[i].open, w.circ[r].p = "ready"
  PROVE  SendIntroduction(w, i, r) \in SUBSET Worlds(T, A)
<1> DEFINE u == Check(w, /\ w.circ[i].p = "introducing" /\ w.circ[i].open
                         /\ w.circ[r].p = "ready")
           v == [u EXCEPT !.circ[r].final = TRUE, !.circ[i].for = r, !.circ[i].p = "ackwait",
                          !.circ[i].cell = "introduce1"]
<1>1. w.circ[i] \in CircRec /\ Right(w.circ[i], i, T, A) /\ w.circ[r] \in CircRec /\ Right(w.circ[r], r, T, A)
  BY ChartFields
<1>2. u = w
  <2>1. (/\ w.circ[i].p = "introducing" /\ w.circ[i].open /\ w.circ[r].p = "ready") = TRUE
    BY <1>1 DEF CircRec
  <2> QED
    BY <2>1, CheckRight
<1>3. CASE Usable(w) = {}
  <2>1. Refetch(w) \in SUBSET Worlds(T, A) /\ "desc" \in Places
    BY RefetchRight DEF Places
  <2>2. SendIntroduction(w, i, r) = {Moved(x, "circ", "desc") : x \in Refetch(u)}
    BY <1>3 DEF SendIntroduction
  <2> HIDE DEF u
  <2> QED
    BY <1>2, <2>1, <2>2, MovedRight
<1>4. CASE Usable(w) # {} /\ w.circ[i].exit \notin Usable(w)
  <2>1. SendIntroduction(w, i, r) = Reextend(u, i)
    BY <1>4 DEF SendIntroduction
  <2> HIDE DEF u
  <2> QED
    BY <1>2, <2>1, ReextendRight
<1>5. CASE Usable(w) # {} /\ w.circ[i].exit \in Usable(w)
  <2>1. SendIntroduction(w, i, r) = {v}
    BY <1>5 DEF SendIntroduction
  <2> DEFINE a == [w.circ[r] EXCEPT !.final = TRUE]
             b == [w.circ[i] EXCEPT !.for = r, !.p = "ackwait", !.cell = "introduce1"]
  <2>2. a \in CircRec /\ Right(a, r, T, A)
    <3>1. a \in CircRec /\ a.p = w.circ[r].p /\ a.exit = w.circ[r].exit /\ a.open = w.circ[r].open
            /\ a.cell = w.circ[r].cell /\ a.for = w.circ[r].for /\ a.meet = w.circ[r].meet
      BY <1>1 DEF CircRec
    <3> HIDE DEF a
    <3> QED
      BY <1>1, <3>1 DEF Right
  <2>3. b \in CircRec /\ Right(b, i, T, A)
    BY <1>1 DEF CircRec, Right, Intros
  <2>4. i # r
    OBVIOUS
  <2>5. v = [[w EXCEPT !.circ[r] = a] EXCEPT !.circ[i] = b]
    <3> DEFINE g == [[w.circ EXCEPT ![r] = a] EXCEPT ![i] = b]
    <3>1. w.circ \in [Circuits -> CircRec]
      BY ChartFields
    <3>2. [[[[w.circ EXCEPT ![r].final = TRUE] EXCEPT ![i].for = r] EXCEPT ![i].p = "ackwait"]
             EXCEPT ![i].cell = "introduce1"] = g
      BY <3>1, <2>4
    <3>3. [[w EXCEPT !.circ[r] = a] EXCEPT !.circ[i] = b] = [w EXCEPT !.circ = g]
      BY DEF Worlds
    <3>4. v = [w EXCEPT !.circ = [[[[w.circ EXCEPT ![r].final = TRUE] EXCEPT ![i].for = r] EXCEPT ![i].p = "ackwait"]
             EXCEPT ![i].cell = "introduce1"]]
      <4>1. v = [w EXCEPT !.circ[r].final = TRUE, !.circ[i].for = r, !.circ[i].p = "ackwait",
                          !.circ[i].cell = "introduce1"]
        <5> HIDE DEF u
        <5> QED
          BY <1>2
      <4> HIDE DEF v
      <4>2. [w EXCEPT !.circ[r].final = TRUE, !.circ[i].for = r, !.circ[i].p = "ackwait",
                      !.circ[i].cell = "introduce1"]
              = [w EXCEPT !.circ = [[[[w.circ EXCEPT ![r].final = TRUE] EXCEPT ![i].for = r] EXCEPT ![i].p = "ackwait"]
                    EXCEPT ![i].cell = "introduce1"]]
        BY DEF Worlds
      <4> QED
        BY <4>1, <4>2
    <3> QED
      BY <3>2, <3>3, <3>4
  <2> HIDE DEF a, b, v
  <2>6. [w EXCEPT !.circ[r] = a] \in Worlds(T, A)
    BY <2>2, OneCircChanges
  <2>7. [[w EXCEPT !.circ[r] = a] EXCEPT !.circ[i] = b] \in Worlds(T, A)
    BY <2>6, <2>3, OneCircChanges
  <2> QED
    BY <2>1, <2>5, <2>7
<1> QED
  BY <1>3, <1>4, <1>5

\* CloseAll leads to what is right.
LEMMA CloseAllRight ==
  ASSUME RendAssumption, NEW T, NEW A, NEW w \in Worlds(T, A), NEW Gone \in SUBSET Circuits
  PROVE  CloseAll(w, Gone) \in SUBSET Worlds(T, A)
<1> DEFINE X == SUBSET Worlds(T, A)
           S == Gone
           b == {w}
           op(c, ws) == UNION {MarkForClose(u, c) : u \in ws}
           D == [p \in S \X X |-> op(p[1], p[2])]
           pick == [U \in SUBSET S |-> CHOOSE x \in U : TRUE]
           it == CHOOSE f : f = [U \in SUBSET S |->
                   IF U = {} THEN b ELSE op(CHOOSE x \in U : TRUE, f[U \ {CHOOSE x \in U : TRUE}])]
<1>1. CloseAll(w, Gone) = it[S]
  BY DEF CloseAll, FoldSet, MapThenFoldSet, Each
<1>2. \A c \in S, ws \in X : op(c, ws) \in X
  BY MarkForCloseRight
<1>3. IsFiniteSet(S)
  BY FS_Subset, RendAssumption
<1>4. b \in X
  BY MarkForCloseRight
<1> HIDE DEF b, S
<1>5. \A U \in SUBSET S : U # {} => pick[U] \in U
  OBVIOUS
<1>6. D \in [S \X X -> X]
  BY <1>2
<1>7. PICK f : Folds(f, S, X, b, pick, D)
  <2> HIDE DEF D, pick, X
  <2> QED
    BY <1>3, <1>4, <1>5, <1>6, FoldExists
<1> HIDE DEF op
<1>8. ASSUME NEW U \in SUBSET S, U # {}
      PROVE  f[U] = op(CHOOSE x \in U : TRUE, f[U \ {CHOOSE x \in U : TRUE}])
  <2>1. pick[U] = CHOOSE x \in U : TRUE
    OBVIOUS
  <2>2. pick[U] \in S
    BY <1>5, <1>8
  <2>3. \A c \in S, ws \in X : D[<<c, ws>>] = op(c, ws)
    OBVIOUS
  <2> HIDE DEF pick, D, X
  <2>4. f[U] = D[<<pick[U], f[U \ {pick[U]}]>>] /\ f[U \ {pick[U]}] \in X
    BY <1>7, <1>8 DEF Folds
  <2>5. f[U] = op(pick[U], f[U \ {pick[U]}])
    BY <2>2, <2>3, <2>4
  <2> QED
    BY <2>1, <2>5
<1>9. it = [U \in SUBSET S |->
              IF U = {} THEN b ELSE op(CHOOSE x \in U : TRUE, it[U \ {CHOOSE x \in U : TRUE}])]
  <2>1. f = [U \in SUBSET S |->
               IF U = {} THEN b ELSE op(CHOOSE x \in U : TRUE, f[U \ {CHOOSE x \in U : TRUE}])]
    BY <1>7, <1>8 DEF Folds
  <2> QED
    BY <2>1
<1> HIDE DEF it
<1> DEFINE P == {U \in SUBSET S : it[U] \in X}
<1>10. {} \in P
  BY <1>9, <1>4
<1>11. ASSUME NEW U \in SUBSET S, U # {}, \A x \in U : U \ {x} \in P PROVE U \in P
  <2>1. PICK x \in U : x = CHOOSE y \in U : TRUE
    BY <1>11
  <2>2. it[U] = op(x, it[U \ {x}]) /\ it[U \ {x}] \in X /\ x \in S
    BY <1>9, <1>11, <2>1
  <2>3. op(x, it[U \ {x}]) \in X
    BY <2>2, <1>2
  <2> QED
    BY <2>2, <2>3
<1>12. S \in P
  <2> HIDE DEF P
  <2> QED
    BY <1>3, <1>10, <1>11, SubsetInduction
<1> QED
  BY <1>1, <1>12

\* Attach leads to what is right.
LEMMA AttachRight ==
  ASSUME RendAssumption, NEW T, NEW A, NEW w \in Worlds(T, A), NEW s \in AP
  PROVE  Attach(w, s) \in SUBSET Worlds(T, A)
<1> DEFINE joined == Best(w, {"joined"}, TRUE)
           Introduce(u, r) ==
             IF r # Nil /\ u.circ[r].p = "acked" THEN {u}
             ELSE IF Best(u, {"ackwait"}, TRUE) # Nil
               THEN CloseAll(u, {c \in Circuits : u.circ[c].p = "introducing"})
             ELSE UNION {IF r # Nil /\ y[2] # Nil /\ y[1].circ[r].p = "ready" /\ y[1].circ[y[2]].open
                           THEN SendIntroduction(y[1], y[2], r) ELSE {y[1]} : y \in IntroCirc(u, s)}
<1>1. CASE joined # Nil
  <2>1. Attach(w, s) = {[w EXCEPT !.str[s] = "attached", !.circ[joined].has = @ \cup {s}, !.asked = {}]}
    BY <1>1 DEF Attach
  <2>2. joined \in Circuits
    BY <1>1, BestRight
  <2> HIDE DEF joined
  <2> DEFINE o == w.circ[joined]
             q == [o EXCEPT !.has = @ \cup {s}]
             z == [w.str EXCEPT ![s] = "attached"]
  <2>3. o \in CircRec /\ Right(o, joined, T, A)
    BY <2>2, ChartFields
  <2>4. q \in CircRec /\ Right(q, joined, T, A)
    <3>1. /\ q \in CircRec /\ q.p = o.p /\ q.exit = o.exit /\ q.open = o.open
          /\ q.cell = o.cell /\ q.for = o.for /\ q.meet = o.meet
      BY <2>3 DEF CircRec
    <3> HIDE DEF q, o
    <3> QED
      BY <2>3, <3>1 DEF Right
  <2>5. z \in [AP -> Places]
    <3>1. w.str \in [AP -> Places] /\ "attached" \in Places
      BY WorldFields DEF Places
    <3> QED
      BY <3>1
  <2>6. [w EXCEPT !.str[s] = "attached", !.circ[joined].has = @ \cup {s}, !.asked = {}]
          = [[[w EXCEPT !.str = z] EXCEPT !.circ[joined] = q] EXCEPT !.asked = {}]
    BY DEF Worlds
  <2> HIDE DEF q, z, o
  <2>7. [w EXCEPT !.str = z] \in Worlds(T, A)
    BY <2>5, StrChanges
  <2>8. [[w EXCEPT !.str = z] EXCEPT !.circ[joined] = q] \in Worlds(T, A)
    BY <2>7, <2>2, <2>4, OneCircChanges
  <2>9. [[[w EXCEPT !.str = z] EXCEPT !.circ[joined] = q] EXCEPT !.asked = {}] \in Worlds(T, A)
    BY <2>8, AskedChanges
  <2> QED
    BY <2>1, <2>6, <2>9
<1>2. CASE joined = Nil
  <2>1. Attach(w, s) = UNION {Introduce(x[1], x[2]) : x \in RendCirc(w)}
    BY <1>2 DEF Attach, Each
  <2>2. ASSUME NEW u \in Worlds(T, A), NEW r \in Circuits \cup {Nil}
        PROVE  Introduce(u, r) \in SUBSET Worlds(T, A)
    <3>1. CASE r # Nil /\ u.circ[r].p = "acked"
      BY <3>1
    <3>2. CASE ~(r # Nil /\ u.circ[r].p = "acked") /\ Best(u, {"ackwait"}, TRUE) # Nil
      <4>1. CloseAll(u, {c \in Circuits : u.circ[c].p = "introducing"}) \in SUBSET Worlds(T, A)
        BY CloseAllRight
      <4> QED
        BY <3>2, <4>1
    <3>3. CASE ~(r # Nil /\ u.circ[r].p = "acked") /\ Best(u, {"ackwait"}, TRUE) = Nil
      <4>1. ASSUME NEW y \in IntroCirc(u, s)
            PROVE  (IF r # Nil /\ y[2] # Nil /\ y[1].circ[r].p = "ready" /\ y[1].circ[y[2]].open
                      THEN SendIntroduction(y[1], y[2], r) ELSE {y[1]}) \in SUBSET Worlds(T, A)
        <5>1. /\ Found(y, T, A)
              /\ y[2] # Nil /\ y[1].circ[y[2]].open =>
                   y[1] = u /\ u.circ[y[2]].p \in Intros /\ ~u.circ[y[2]].late
          BY IntroCircRight
        <5>2. y[1] \in Worlds(T, A) /\ y[2] \in Circuits \cup {Nil}
          BY <5>1 DEF Found
        <5>3. CASE r # Nil /\ y[2] # Nil /\ y[1].circ[r].p = "ready" /\ y[1].circ[y[2]].open
          <6>1. y[2] \in Circuits /\ r \in Circuits /\ y[1] = u
            BY <5>1, <5>2, <5>3
          <6>2. ~(u.circ[y[2]].p \in {"ackwait"} /\ ~u.circ[y[2]].late /\ (TRUE => u.circ[y[2]].open))
            BY <3>3, <6>1, BestRight
          <6>3. u.circ[y[2]].p = "introducing"
            BY <5>1, <5>3, <6>1, <6>2 DEF Intros
          <6>4. SendIntroduction(y[1], y[2], r) \in SUBSET Worlds(T, A)
            BY <5>3, <6>1, <6>3, SendIntroductionRight
          <6> QED
            BY <5>3, <6>4
        <5>4. CASE ~(r # Nil /\ y[2] # Nil /\ y[1].circ[r].p = "ready" /\ y[1].circ[y[2]].open)
          BY <5>2, <5>4
        <5> QED
          BY <5>3, <5>4
      <4> QED
        BY <3>3, <4>1
    <3> QED
      BY <3>1, <3>2, <3>3
  <2>3. ASSUME NEW x \in RendCirc(w) PROVE x[1] \in Worlds(T, A) /\ x[2] \in Circuits \cup {Nil}
    BY RendCircRight DEF Found
  <2> HIDE DEF Introduce
  <2> QED
    BY <2>1, <2>2, <2>3
<1> QED
  BY <1>1, <1>2

\* A stream's place in the list.
LEMMA StreamsRight ==
  ASSUME RendAssumption
  PROVE  IsFiniteSet(DOMAIN Streams) /\ \A c \in DOMAIN Streams : Streams[c] \in AP
<1>1. Streams \in Seq(AP) /\ DOMAIN Streams = 1 .. Len(Streams) /\ Len(Streams) \in Nat
  BY RendAssumption
<1> QED
  BY <1>1, FS_Interval

\* connection_ap_attach_pending goes through the pending streams.
LEMMA AttachPendingRight ==
  ASSUME RendAssumption, NEW T, NEW A, NEW worlds \in SUBSET Worlds(T, A)
  PROVE  AttachPending(worlds) \in SUBSET Worlds(T, A)
<1> DEFINE X == SUBSET Worlds(T, A)
           S == DOMAIN Streams
           b == worlds
           op(c, ws) == UNION {IF w.str[Streams[c]] = "circ" THEN Attach(w, Streams[c]) ELSE {w} : w \in ws}
           D == [p \in S \X X |-> op(p[1], p[2])]
           pick == [U \in SUBSET S |-> CHOOSE x \in U : TRUE]
           it == CHOOSE f : f = [U \in SUBSET S |->
                   IF U = {} THEN b ELSE op(CHOOSE x \in U : TRUE, f[U \ {CHOOSE x \in U : TRUE}])]
<1>1. AttachPending(worlds) = it[S]
  BY DEF AttachPending, FoldSeq, FoldFunction, FoldFunctionOnSet, MapThenFoldSet, Each
<1>2. \A c \in S, ws \in X : op(c, ws) \in X
  <2>1. ASSUME NEW c \in S, NEW w \in Worlds(T, A)
        PROVE  (IF w.str[Streams[c]] = "circ" THEN Attach(w, Streams[c]) ELSE {w}) \in SUBSET Worlds(T, A)
    <3>1. Streams[c] \in AP
      BY StreamsRight
    <3> QED
      BY <3>1, AttachRight
  <2> QED
    BY <2>1
<1>3. IsFiniteSet(S)
  BY StreamsRight
<1>4. b \in X
  BY StreamsRight
<1> HIDE DEF b, S
<1>5. \A U \in SUBSET S : U # {} => pick[U] \in U
  OBVIOUS
<1>6. D \in [S \X X -> X]
  BY <1>2
<1>7. PICK f : Folds(f, S, X, b, pick, D)
  <2> HIDE DEF D, pick, X
  <2> QED
    BY <1>3, <1>4, <1>5, <1>6, FoldExists
<1> HIDE DEF op
<1>8. ASSUME NEW U \in SUBSET S, U # {}
      PROVE  f[U] = op(CHOOSE x \in U : TRUE, f[U \ {CHOOSE x \in U : TRUE}])
  <2>1. pick[U] = CHOOSE x \in U : TRUE
    OBVIOUS
  <2>2. pick[U] \in S
    BY <1>5, <1>8
  <2>3. \A c \in S, ws \in X : D[<<c, ws>>] = op(c, ws)
    OBVIOUS
  <2> HIDE DEF pick, D, X
  <2>4. f[U] = D[<<pick[U], f[U \ {pick[U]}]>>] /\ f[U \ {pick[U]}] \in X
    BY <1>7, <1>8 DEF Folds
  <2>5. f[U] = op(pick[U], f[U \ {pick[U]}])
    BY <2>2, <2>3, <2>4
  <2> QED
    BY <2>1, <2>5
<1>9. it = [U \in SUBSET S |->
              IF U = {} THEN b ELSE op(CHOOSE x \in U : TRUE, it[U \ {CHOOSE x \in U : TRUE}])]
  <2>1. f = [U \in SUBSET S |->
               IF U = {} THEN b ELSE op(CHOOSE x \in U : TRUE, f[U \ {CHOOSE x \in U : TRUE}])]
    BY <1>7, <1>8 DEF Folds
  <2> QED
    BY <2>1
<1> HIDE DEF it
<1> DEFINE P == {U \in SUBSET S : it[U] \in X}
<1>10. {} \in P
  BY <1>9, <1>4
<1>11. ASSUME NEW U \in SUBSET S, U # {}, \A x \in U : U \ {x} \in P PROVE U \in P
  <2>1. PICK x \in U : x = CHOOSE y \in U : TRUE
    BY <1>11
  <2>2. it[U] = op(x, it[U \ {x}]) /\ it[U \ {x}] \in X /\ x \in S
    BY <1>9, <1>11, <2>1
  <2>3. op(x, it[U \ {x}]) \in X
    BY <2>2, <1>2
  <2> QED
    BY <2>2, <2>3
<1>12. S \in P
  <2> HIDE DEF P
  <2> QED
    BY <1>3, <1>10, <1>11, SubsetInduction
<1> QED
  BY <1>1, <1>12

\* One stream moves.
LEMMA OneStrChanges ==
  ASSUME NEW T, NEW A, NEW w \in Worlds(T, A), NEW s \in AP, NEW to \in Places
  PROVE  [w EXCEPT !.str[s] = to] \in Worlds(T, A)
<1>1. [w.str EXCEPT ![s] = to] \in [AP -> Places]
  BY WorldFields
<1>2. [w EXCEPT !.str[s] = to] = [w EXCEPT !.str = [w.str EXCEPT ![s] = to]]
  OBVIOUS
<1> QED
  BY <1>1, <1>2, StrChanges

\* rend_client_desc_trynow goes through the streams one after another.
LEMMA TryNowFolds ==
  ASSUME RendAssumption, NEW T, NEW A, NEW w \in Worlds(T, A), Usable(w) # {}
  PROVE  TryNow(w) \in SUBSET Worlds(T, A)
<1> DEFINE X == SUBSET Worlds(T, A)
           S == DOMAIN Streams
           b == {w}
           op(c, ws) == UNION {IF u.str[Streams[c]] = "desc" THEN Attach([u EXCEPT !.str[Streams[c]] = "circ"], Streams[c]) ELSE {u} : u \in ws}
           D == [p \in S \X X |-> op(p[1], p[2])]
           pick == [U \in SUBSET S |-> CHOOSE x \in U : TRUE]
           it == CHOOSE f : f = [U \in SUBSET S |->
                   IF U = {} THEN b ELSE op(CHOOSE x \in U : TRUE, f[U \ {CHOOSE x \in U : TRUE}])]
<1>1. TryNow(w) = it[S]
  BY DEF TryNow, FoldSeq, FoldFunction, FoldFunctionOnSet, MapThenFoldSet, Each
<1>2. \A c \in S, ws \in X : op(c, ws) \in X
  <2>1. ASSUME NEW c \in S, NEW u \in Worlds(T, A)
        PROVE  (IF u.str[Streams[c]] = "desc" THEN Attach([u EXCEPT !.str[Streams[c]] = "circ"], Streams[c])
                ELSE {u}) \in SUBSET Worlds(T, A)
    <3>1. Streams[c] \in AP
      BY StreamsRight
    <3>2. [u EXCEPT !.str[Streams[c]] = "circ"] \in Worlds(T, A)
      BY <3>1, OneStrChanges DEF Places
    <3> QED
      BY <3>1, <3>2, AttachRight
  <2> QED
    BY <2>1
<1>3. IsFiniteSet(S)
  BY StreamsRight
<1>4. b \in X
  BY StreamsRight
<1> HIDE DEF b, S
<1>5. \A U \in SUBSET S : U # {} => pick[U] \in U
  OBVIOUS
<1>6. D \in [S \X X -> X]
  BY <1>2
<1>7. PICK f : Folds(f, S, X, b, pick, D)
  <2> HIDE DEF D, pick, X
  <2> QED
    BY <1>3, <1>4, <1>5, <1>6, FoldExists
<1> HIDE DEF op
<1>8. ASSUME NEW U \in SUBSET S, U # {}
      PROVE  f[U] = op(CHOOSE x \in U : TRUE, f[U \ {CHOOSE x \in U : TRUE}])
  <2>1. pick[U] = CHOOSE x \in U : TRUE
    OBVIOUS
  <2>2. pick[U] \in S
    BY <1>5, <1>8
  <2>3. \A c \in S, ws \in X : D[<<c, ws>>] = op(c, ws)
    OBVIOUS
  <2> HIDE DEF pick, D, X
  <2>4. f[U] = D[<<pick[U], f[U \ {pick[U]}]>>] /\ f[U \ {pick[U]}] \in X
    BY <1>7, <1>8 DEF Folds
  <2>5. f[U] = op(pick[U], f[U \ {pick[U]}])
    BY <2>2, <2>3, <2>4
  <2> QED
    BY <2>1, <2>5
<1>9. it = [U \in SUBSET S |->
              IF U = {} THEN b ELSE op(CHOOSE x \in U : TRUE, it[U \ {CHOOSE x \in U : TRUE}])]
  <2>1. f = [U \in SUBSET S |->
               IF U = {} THEN b ELSE op(CHOOSE x \in U : TRUE, f[U \ {CHOOSE x \in U : TRUE}])]
    BY <1>7, <1>8 DEF Folds
  <2> QED
    BY <2>1
<1> HIDE DEF it
<1> DEFINE P == {U \in SUBSET S : it[U] \in X}
<1>10. {} \in P
  BY <1>9, <1>4
<1>11. ASSUME NEW U \in SUBSET S, U # {}, \A x \in U : U \ {x} \in P PROVE U \in P
  <2>1. PICK x \in U : x = CHOOSE y \in U : TRUE
    BY <1>11
  <2>2. it[U] = op(x, it[U \ {x}]) /\ it[U \ {x}] \in X /\ x \in S
    BY <1>9, <1>11, <2>1
  <2>3. op(x, it[U \ {x}]) \in X
    BY <2>2, <1>2
  <2> QED
    BY <2>2, <2>3
<1>12. S \in P
  <2> HIDE DEF P
  <2> QED
    BY <1>3, <1>10, <1>11, SubsetInduction
<1> QED
  BY <1>1, <1>12

\* TryNow leads to what is right.
LEMMA TryNowRight ==
  ASSUME RendAssumption, NEW T, NEW A, NEW w \in Worlds(T, A)
  PROVE  TryNow(w) \in SUBSET Worlds(T, A)
<1>1. CASE Usable(w) = {}
  <2>1. TryNow(w) = {GiveUp(w)}
    BY <1>1 DEF TryNow
  <2> QED
    BY <2>1, GiveUpRight
<1> QED
  BY <1>1, TryNowFolds

-----------------------------------------------------------------------------
(* The client's steps. *)

\* A step of the client into a right world keeps the invariant.
LEMMA BecomesIInv ==
  ASSUME IInv, NEW W \in SUBSET Worlds(told, ans), Becomes(W), UNCHANGED service
  PROVE  IInv'
<1>1. PICK w \in W : /\ str' = w.str /\ cache' = w.cache /\ asked' = w.asked /\ fetches' = w.fetches
                     /\ circ' = w.circ /\ sound' = w.sound
  BY DEF Becomes
<1>2. Client' \in Worlds(told, ans)
  BY <1>1, WorldFields DEF Client, Worlds
<1>3. /\ point' = point /\ posted' = posted /\ posts' = posts /\ inbox' = inbox /\ seen' = seen
      /\ hop' = hop /\ ans' = ans /\ told' = told
  BY DEF service
<1>4. Worlds(told, ans)' = Worlds(told, ans)
  BY <1>3 DEF Worlds, Charts, Right, SentFor
<1>5. AnswersRight'
  BY <1>3 DEF IInv, AnswersRight
<1>6. ServiceRight'
  BY <1>3 DEF IInv, ServiceRight
<1> QED
  BY <1>2, <1>4, <1>5, <1>6 DEF IInv

\* The step Request keeps the invariant.
LEMMA RequestIInv ==
  ASSUME RendAssumption, IInv, NEW s \in AP, Request(s)
  PROVE  IInv'
<1>1. Client \in Worlds(told, ans)
  BY DEF IInv
<1>2. [Client EXCEPT !.str[s] = "desc"] \in Worlds(told, ans)
        /\ [Client EXCEPT !.str[s] = "circ"] \in Worlds(told, ans)
  BY <1>1, OneStrChanges DEF Places
<1> DEFINE W == IF Usable(Client) = {} THEN Refetch([Client EXCEPT !.str[s] = "desc"])
                ELSE Attach([Client EXCEPT !.str[s] = "circ"], s)
<1>3. W \in SUBSET Worlds(told, ans)
  BY <1>2, RefetchRight, AttachRight
<1>4. Becomes(W) /\ UNCHANGED service
  BY DEF Request
<1> HIDE DEF W
<1> QED
  BY <1>3, <1>4, BecomesIInv

\* The step EverySecond keeps the invariant.
LEMMA EverySecondIInv ==
  ASSUME RendAssumption, IInv, EverySecond
  PROVE  IInv'
<1>1. AttachPending({Client}) \in SUBSET Worlds(told, ans)
  <2>1. {Client} \in SUBSET Worlds(told, ans)
    BY DEF IInv
  <2> QED
    BY <2>1, AttachPendingRight
<1>2. Becomes(AttachPending({Client})) /\ UNCHANGED service
  BY DEF EverySecond
<1> QED
  BY <1>1, <1>2, BecomesIInv

\* The step TimesOut keeps the invariant.
LEMMA TimesOutIInv ==
  ASSUME RendAssumption, IInv, NEW s \in AP, TimesOut(s)
  PROVE  IInv'
<1>1. {Close(Client, s)} \in SUBSET Worlds(told, ans)
  BY CloseRight DEF IInv
<1>2. Becomes({Close(Client, s)}) /\ UNCHANGED service
  BY DEF TimesOut
<1> QED
  BY <1>1, <1>2, BecomesIInv

\* The step Fetched keeps the invariant.
LEMMA FetchedIInv ==
  ASSUME RendAssumption, IInv, NEW d \in Dirs, Fetched(d)
  PROVE  IInv'
<1> DEFINE new == posted[d]
           u == [Client EXCEPT !.fetches = @ \ {d}]
           left == [p \in new.points |-> 0]
           v == [u EXCEPT !.cache = [time |-> new.time, left |-> left]]
           W == TryNow(IF cache # Nil /\ cache.time >= new.time THEN u ELSE v)
<1>1. new \in [time : Nat, points : SUBSET Points]
  <2>1. new \in Posts /\ new # Nil
    BY DEF IInv, ServiceRight, Fetched
  <2> QED
    BY <2>1 DEF Posts
<1>2. Client \in Worlds(told, ans)
  BY DEF IInv
<1>3. u \in Worlds(told, ans)
  <2>1. Client.fetches \ {d} \in SUBSET Dirs
    BY <1>2, WorldFields
  <2> QED
    BY <1>2, <2>1, FetchesChange
<1>4. [time |-> new.time, left |-> left] \in Caches
  <2>1. left \in [new.points -> Nat] /\ new.points \in SUBSET Points /\ new.time \in Nat
    BY <1>1
  <2>2. left \in Counts
    BY <2>1 DEF Counts
  <2> HIDE DEF left, new
  <2>3. [time |-> new.time, left |-> left] \in [time : Nat, left : Counts]
    BY <2>1, <2>2
  <2> QED
    BY <2>3 DEF Caches
<1> HIDE DEF left, u
<1>5. v \in Worlds(told, ans)
  BY <1>3, <1>4, CacheChanges
<1> HIDE DEF v
<1>6. W \in SUBSET Worlds(told, ans)
  BY <1>3, <1>5, TryNowRight
<1>7. Becomes(W) /\ UNCHANGED service
  BY DEF Fetched, v, u, left
<1> HIDE DEF W
<1> QED
  BY <1>6, <1>7, BecomesIInv

\* The step FetchFails keeps the invariant.
LEMMA FetchFailsIInv ==
  ASSUME RendAssumption, IInv, NEW d \in Dirs, FetchFails(d)
  PROVE  IInv'
<1> DEFINE u == [Client EXCEPT !.fetches = @ \ {d}]
<1>2. Client \in Worlds(told, ans)
  BY DEF IInv
<1>3. u \in Worlds(told, ans)
  <2>1. Client.fetches \ {d} \in SUBSET Dirs
    BY <1>2, WorldFields
  <2> QED
    BY <1>2, <2>1, FetchesChange
<1>4. Refetch(u) \in SUBSET Worlds(told, ans)
  BY <1>3, RefetchRight
<1>5. Becomes(Refetch(u)) /\ UNCHANGED service
  BY DEF FetchFails
<1> HIDE DEF u
<1> QED
  BY <1>4, <1>5, BecomesIInv

\* The step Built keeps the invariant.
LEMMA BuiltIInv ==
  ASSUME RendAssumption, IInv, NEW c \in Circuits, Built(c)
  PROVE  IInv'
<1> DEFINE o == Client.circ[c]
           u == [Client EXCEPT !.circ[c] = Opened(o)]
           W == AttachPending({u})
<1>1. Client \in Worlds(told, ans)
  BY DEF IInv
<1>2. o \in CircRec /\ Right(o, c, told, ans)
  BY <1>1, ChartFields
<1> HIDE DEF o
<1>3. Opened(o) \in CircRec /\ Right(Opened(o), c, told, ans)
  BY <1>2, OpenedRight
<1>4. u \in Worlds(told, ans)
  BY <1>1, <1>3, OneCircChanges
<1>5. Becomes(W) /\ UNCHANGED service
  BY DEF Built, o
<1> HIDE DEF u
<1>6. W \in SUBSET Worlds(told, ans)
  BY <1>4, AttachPendingRight
<1> HIDE DEF W
<1> QED
  BY <1>5, <1>6, BecomesIInv

\* The cell on a circuit was read.
LEMMA CellRead ==
  ASSUME NEW T, NEW A, NEW w \in Worlds(T, A), NEW c \in Circuits
  PROVE  LET o == [w.circ[c] EXCEPT !.cell = "none"]
             u == [w EXCEPT !.circ[c].cell = "none"]
         IN  /\ u \in Worlds(T, A) /\ u.circ[c] = o
             /\ o \in CircRec /\ Right(o, c, T, A)
             /\ u.cache = w.cache
             /\ \A d \in Circuits : d # c => u.circ[d] = w.circ[d]
<1> DEFINE o == [w.circ[c] EXCEPT !.cell = "none"]
<1>1. w.circ[c] \in CircRec /\ Right(w.circ[c], c, T, A)
  BY ChartFields
<1>2. o \in CircRec /\ o.p = w.circ[c].p /\ o.exit = w.circ[c].exit /\ o.open = w.circ[c].open
        /\ o.cell = "none" /\ o.for = w.circ[c].for /\ o.meet = w.circ[c].meet
  BY <1>1 DEF CircRec
<1>3. [w EXCEPT !.circ[c].cell = "none"] = [w EXCEPT !.circ[c] = o]
  OBVIOUS
<1> HIDE DEF o
<1>4. Right(o, c, T, A)
  BY <1>1, <1>2 DEF Right
<1>5. /\ [w EXCEPT !.circ[c] = o] \in Worlds(T, A) /\ [w EXCEPT !.circ[c] = o].circ[c] = o
      /\ [w EXCEPT !.circ[c] = o].cache = w.cache
      /\ \A d \in Circuits : d # c => [w EXCEPT !.circ[c] = o].circ[d] = w.circ[d]
  BY <1>2, <1>4, OneCircChanges
<1> QED
  BY <1>2, <1>3, <1>4, <1>5 DEF o

\* The step RendAcked keeps the invariant.
LEMMA RendAckedIInv ==
  ASSUME RendAssumption, IInv, NEW c \in Circuits, RendAcked(c)
  PROVE  IInv'
<1> DEFINE u == [Client EXCEPT !.circ[c].cell = "none"]
           o == [u.circ[c] EXCEPT !.p = "ready"]
           v == [u EXCEPT !.circ[c].p = "ready"]
           W == IF circ[c].p # "establish" THEN MarkForClose(u, c) ELSE AttachPending({v})
<1>1. Client \in Worlds(told, ans)
  BY DEF IInv
<1>2. u \in Worlds(told, ans) /\ u.circ[c].cell = "none" /\ u.circ[c] \in CircRec
        /\ Right(u.circ[c], c, told, ans)
  <2>1. u \in Worlds(told, ans)
    BY <1>1, CellRead
  <2>2. u.circ[c] = [Client.circ[c] EXCEPT !.cell = "none"] /\ Client.circ[c] \in CircRec
    BY <1>1, CellRead, ChartFields
  <2> HIDE DEF u
  <2> QED
    BY <2>1, <2>2, ChartFields DEF CircRec
<1>3. Becomes(W) /\ UNCHANGED service
  BY DEF RendAcked
<1> HIDE DEF u
<1>4. o \in CircRec /\ o.p = "ready" /\ o.cell = "none"
  BY <1>2 DEF CircRec, Rends
<1>5. Right(o, c, told, ans)
  <2> HIDE DEF o
  <2> QED
    BY <1>4 DEF Right, Intros
<1>6. v = [u EXCEPT !.circ[c] = o]
  OBVIOUS
<1> HIDE DEF o
<1>7. v \in Worlds(told, ans)
  BY <1>2, <1>4, <1>5, <1>6, OneCircChanges
<1> HIDE DEF v
<1>8. W \in SUBSET Worlds(told, ans)
  BY <1>2, <1>7, MarkForCloseRight, AttachPendingRight
<1> HIDE DEF W
<1> QED
  BY <1>3, <1>8, BecomesIInv

\* The step IntroAcked keeps the invariant.
LEMMA IntroAckedIInv ==
  ASSUME RendAssumption, IInv, NEW i \in Circuits, IntroAcked(i)
  PROVE  IInv'
<1> DEFINE w == [Client EXCEPT !.circ[i].cell = "none"]
           g == [c \in Circuits |-> IF c \in Ready(w, i) THEN [w.circ[c] EXCEPT !.p = "acked"] ELSE w.circ[c]]
           u == [w EXCEPT !.circ = g]
           x == [NewCirc EXCEPT !.p = "closed"]
           q == [w.circ[i] EXCEPT !.p = "introducing"]
           nak == [w EXCEPT !.circ[i].p = "introducing"]
           W == IF circ[i].p # "ackwait" THEN MarkForClose(w, i)
                ELSE IF circ[i].cell = "ack" THEN {[u EXCEPT !.circ[i] = x]}
                ELSE UNION {IF Usable(nak) # {} /\ Usable(v) # {} THEN Reextend(v, i) ELSE {v}
                             : v \in Report(nak, circ[i].exit, TRUE)}
<1>1. Client \in Worlds(told, ans) /\ Client.circ = circ
  BY DEF IInv, Client
<1>2. circ[i] \in CircRec /\ Right(circ[i], i, told, ans)
  BY <1>1, ChartFields
<1>3. w \in Worlds(told, ans) /\ w.circ[i] = [circ[i] EXCEPT !.cell = "none"]
  <2>1. w.circ[i] = [Client.circ[i] EXCEPT !.cell = "none"]
    <3>1. Client \in Worlds(told, ans) /\ Client.circ \in [Circuits -> CircRec]
      BY <1>1, ChartFields
    <3> QED
      BY <3>1 DEF Worlds
  <2>2. w \in Worlds(told, ans)
    BY <1>1, CellRead
  <2> HIDE DEF w
  <2> QED
    BY <1>1, <2>1, <2>2
<1>4. Becomes(W) /\ UNCHANGED service
  BY DEF IntroAcked, Each
<1> HIDE DEF w
<1>5. w.circ[i] \in CircRec /\ w.circ[i].p = circ[i].p /\ w.circ[i].exit = circ[i].exit
        /\ w.circ[i].for = circ[i].for /\ w.circ[i].open = circ[i].open /\ w.circ[i].cell = "none"
  BY <1>2, <1>3 DEF CircRec
<1>6. CASE circ[i].p # "ackwait"
  <2>1. MarkForClose(w, i) \in SUBSET Worlds(told, ans)
    BY <1>3, MarkForCloseRight
  <2>2. W = MarkForClose(w, i)
    BY <1>6
  <2> HIDE DEF W
  <2> QED
    BY <2>1, <2>2, <1>4, BecomesIInv
<1>7. CASE circ[i].p = "ackwait" /\ circ[i].cell = "ack"
  <2>1. circ[i].for \in told
    BY <1>2, <1>7 DEF Right
  <2>2. ASSUME NEW c \in Circuits PROVE g[c] \in CircRec /\ Right(g[c], c, told, ans)
    <3>1. w.circ[c] \in CircRec /\ Right(w.circ[c], c, told, ans)
      BY <1>3, ChartFields
    <3>2. CASE c \in Ready(w, i)
      <4> DEFINE o == w.circ[c]
                 a == [o EXCEPT !.p = "acked"]
      <4>1. c \in told
        BY <2>1, <1>5, <3>2 DEF Ready
      <4>2. o \in CircRec
        BY <3>1
      <4>3. Right(o, c, told, ans)
        BY <3>1
      <4>4. g[c] = a
        BY <3>2
      <4> HIDE DEF o
      <4>5. a \in CircRec /\ a.p = "acked" /\ a.exit = o.exit /\ a.open = o.open
              /\ a.cell = o.cell /\ a.for = o.for /\ a.meet = o.meet
        BY <4>2 DEF CircRec, Rends
      <4> HIDE DEF a
      <4>6. Right(a, c, told, ans)
        BY <4>1, <4>3, <4>5 DEF Right, Intros
      <4> QED
        BY <4>4, <4>5, <4>6
    <3> QED
      BY <3>1, <3>2
  <2>3. g \in Charts(told, ans)
    <3>1. g \in [Circuits -> CircRec]
      BY <2>2
    <3> QED
      BY <2>2, <3>1 DEF Charts
  <2> HIDE DEF g
  <2>4. u \in Worlds(told, ans)
    BY <1>3, <2>3, CircChanges
  <2> HIDE DEF u
  <2>5. x \in CircRec /\ Right(x, i, told, ans)
    BY NewCircRight
  <2> HIDE DEF x
  <2>6. [u EXCEPT !.circ[i] = x] \in Worlds(told, ans)
    BY <2>4, <2>5, OneCircChanges
  <2>7. W = {[u EXCEPT !.circ[i] = x]}
    BY <1>7
  <2> HIDE DEF W
  <2> QED
    BY <2>6, <2>7, <1>4, BecomesIInv
<1>8. CASE circ[i].p = "ackwait" /\ circ[i].cell # "ack"
  <2>1. circ[i].exit \in Points
    BY <1>2, <1>8 DEF Right, Intros
  <2>2. q \in CircRec /\ q.p = "introducing" /\ q.cell = "none" /\ q.exit \in Points
    BY <1>5, <2>1 DEF CircRec, Intros
  <2>3. nak = [w EXCEPT !.circ[i] = q]
    OBVIOUS
  <2> HIDE DEF q
  <2>4. Right(q, i, told, ans)
    BY <2>2 DEF Right
  <2>5. nak \in Worlds(told, ans)
    BY <2>2, <2>3, <2>4, <1>3, OneCircChanges
  <2> HIDE DEF nak
  <2>6. Report(nak, circ[i].exit, TRUE) \in SUBSET Worlds(told, ans)
    BY <2>1, <2>5, ReportRight
  <2>7. W = UNION {IF Usable(nak) # {} /\ Usable(v) # {} THEN Reextend(v, i) ELSE {v}
                    : v \in Report(nak, circ[i].exit, TRUE)}
    BY <1>8
  <2> HIDE DEF W
  <2>8. W \in SUBSET Worlds(told, ans)
    <3>1. ASSUME NEW v \in Report(nak, circ[i].exit, TRUE)
          PROVE  (IF Usable(nak) # {} /\ Usable(v) # {} THEN Reextend(v, i) ELSE {v}) \in SUBSET Worlds(told, ans)
      <4>1. v \in Worlds(told, ans)
        BY <2>6
      <4>2. Reextend(v, i) \in SUBSET Worlds(told, ans)
        BY <4>1, ReextendRight
      <4> QED
        BY <4>1, <4>2
    <3> QED
      BY <2>7, <3>1
  <2> QED
    BY <2>8, <1>4, BecomesIInv
<1> QED
  BY <1>6, <1>7, <1>8

\* The step Joins keeps the invariant.
LEMMA JoinsIInv ==
  ASSUME RendAssumption, IInv, NEW c \in Circuits, Joins(c)
  PROVE  IInv'
<1> DEFINE u == [Client EXCEPT !.circ[c].cell = "none"]
           o == [u.circ[c] EXCEPT !.p = "joined", !.late = FALSE]
           v == [u EXCEPT !.circ[c].p = "joined", !.circ[c].late = FALSE]
           W == IF circ[c].p \notin {"ready", "acked"} \/ ~circ[c].final THEN MarkForClose(u, c)
                ELSE AttachPending({v})
<1>1. Client \in Worlds(told, ans) /\ Client.circ = circ
  BY DEF IInv, Client
<1>2. circ[c].meet \in SentFor(ans, c)
  <2>1. Right(circ[c], c, told, ans)
    BY <1>1, ChartFields
  <2> QED
    BY <2>1 DEF Joins, Right
<1>3. u \in Worlds(told, ans) /\ u.circ[c].cell = "none" /\ u.circ[c] \in CircRec
        /\ u.circ[c].meet = circ[c].meet
  <2>1. u \in Worlds(told, ans)
    BY <1>1, CellRead
  <2>2. u.circ[c] = [Client.circ[c] EXCEPT !.cell = "none"] /\ Client.circ[c] \in CircRec
    BY <1>1, CellRead, ChartFields
  <2> HIDE DEF u
  <2> QED
    BY <1>1, <2>1, <2>2 DEF CircRec
<1>4. Becomes(W) /\ UNCHANGED service
  BY DEF Joins
<1>5. v = [u EXCEPT !.circ[c] = o]
  <2> HIDE DEF u
  <2>1. u.circ \in [Circuits -> CircRec]
    BY <1>3, ChartFields
  <2>2. [[u.circ EXCEPT ![c].p = "joined"] EXCEPT ![c].late = FALSE] = [u.circ EXCEPT ![c] = o]
    BY <2>1
  <2>3. v = [u EXCEPT !.circ = [[u.circ EXCEPT ![c].p = "joined"] EXCEPT ![c].late = FALSE]]
    BY <1>3 DEF Worlds
  <2> QED
    BY <2>2, <2>3
<1> HIDE DEF u
<1>6. o \in CircRec /\ o.p = "joined" /\ o.cell = "none" /\ o.meet = circ[c].meet
  BY <1>3 DEF CircRec, Rends
<1> HIDE DEF o
<1>7. Right(o, c, told, ans)
  BY <1>2, <1>6 DEF Right, Intros
<1> HIDE DEF v
<1>8. v \in Worlds(told, ans)
  <2>1. [u EXCEPT !.circ[c] = o] \in Worlds(told, ans)
    BY <1>3, <1>6, <1>7, OneCircChanges
  <2> QED
    BY <2>1, <1>5
<1>9. W \in SUBSET Worlds(told, ans)
  BY <1>3, <1>8, MarkForCloseRight, AttachPendingRight
<1> HIDE DEF W
<1> QED
  BY <1>4, <1>9, BecomesIInv

\* The step ExpireBuilding keeps the invariant.
LEMMA ExpireBuildingIInv ==
  ASSUME RendAssumption, IInv, NEW c \in Circuits, ExpireBuilding(c)
  PROVE  IInv'
<1> DEFINE o == [Client.circ[c] EXCEPT !.late = TRUE]
           v == [Client EXCEPT !.circ[c].late = TRUE]
           W == IF circ[c].p \in {"acked", "ackwait"} /\ ~circ[c].late THEN {v} ELSE MarkForClose(Client, c)
<1>1. Client \in Worlds(told, ans)
  BY DEF IInv
<1>2. Client.circ[c] \in CircRec /\ Right(Client.circ[c], c, told, ans)
  BY <1>1, ChartFields
<1>3. /\ o \in CircRec /\ o.p = Client.circ[c].p /\ o.exit = Client.circ[c].exit
      /\ o.open = Client.circ[c].open /\ o.cell = Client.circ[c].cell
      /\ o.for = Client.circ[c].for /\ o.meet = Client.circ[c].meet
  BY <1>2 DEF CircRec
<1>4. v = [Client EXCEPT !.circ[c] = o]
  OBVIOUS
<1>5. Becomes(W) /\ UNCHANGED service
  BY DEF ExpireBuilding
<1> HIDE DEF o
<1>6. Right(o, c, told, ans)
  BY <1>2, <1>3 DEF Right
<1>7. v \in Worlds(told, ans)
  BY <1>1, <1>3, <1>4, <1>6, OneCircChanges
<1> HIDE DEF v
<1>8. W \in SUBSET Worlds(told, ans)
  BY <1>1, <1>7, MarkForCloseRight
<1> HIDE DEF W
<1> QED
  BY <1>5, <1>8, BecomesIInv

\* The step Lost keeps the invariant.
LEMMA LostIInv ==
  ASSUME RendAssumption, IInv, NEW c \in Circuits, Lost(c)
  PROVE  IInv'
<1>1. MarkForClose(Client, c) \in SUBSET Worlds(told, ans)
  BY MarkForCloseRight DEF IInv
<1>2. Becomes(MarkForClose(Client, c)) /\ UNCHANGED service
  BY DEF Lost
<1> QED
  BY <1>1, <1>2, BecomesIInv

-----------------------------------------------------------------------------
(* The relays and the service. *)

\* The more the service was told and has sent, the more is right of a client.
LEMMA WorldsGrow ==
  ASSUME NEW T, NEW A, NEW T2, NEW A2, T \subseteq T2,
         \A c \in Circuits : SentFor(A, c) \subseteq SentFor(A2, c)
  PROVE  Worlds(T, A) \subseteq Worlds(T2, A2)
<1>1. ASSUME NEW c \in Circuits, NEW o, Right(o, c, T, A) PROVE Right(o, c, T2, A2)
  <2>1. SentFor(A, c) \subseteq SentFor(A2, c)
    OBVIOUS
  <2> HIDE DEF SentFor
  <2> QED
    BY <1>1, <2>1 DEF Right
<1>2. Charts(T, A) \subseteq Charts(T2, A2)
  BY <1>1 DEF Charts
<1> HIDE DEF Charts
<1> QED
  BY <1>2 DEF Worlds

\* The client itself does not move while the service does.
LEMMA ServiceMoves ==
  ASSUME IInv, UNCHANGED client, told \subseteq told',
         \A c \in Circuits : SentFor(ans, c) \subseteq SentFor(ans', c)
  PROVE  Client' \in Worlds(told, ans)'
<1>1. Client' = Client
  BY DEF client, Client
<1>2. Client \in Worlds(told', ans')
  BY WorldsGrow DEF IInv
<1> QED
  BY <1>1, <1>2

\* A circuit of the client's gets another cell, or meets another circuit.
LEMMA CircMoves ==
  ASSUME IInv, UNCHANGED <<str, cache, asked, fetches, sound>>, told \subseteq told', NEW c \in Circuits,
         \A d \in Circuits : SentFor(ans, d) \subseteq SentFor(ans', d),
         NEW o \in CircRec, Right(o, c, told', ans'), circ' = [circ EXCEPT ![c] = o]
  PROVE  Client' \in Worlds(told, ans)'
<1>1. Client \in Worlds(told', ans')
  BY WorldsGrow DEF IInv
<1>2. [Client EXCEPT !.circ[c] = o] \in Worlds(told', ans')
  BY <1>1, OneCircChanges
<1>3. Client' = [Client EXCEPT !.circ[c] = o]
  BY DEF Client
<1> QED
  BY <1>2, <1>3

\* The step MidEstablish keeps the invariant.
LEMMA MidEstablishIInv ==
  ASSUME RendAssumption, IInv, NEW c \in Circuits, MidEstablish(c)
  PROVE  IInv'
<1> DEFINE o == [circ[c] EXCEPT !.cell = "established", !.waits = TRUE]
<1>1. circ \in [Circuits -> CircRec] /\ circ[c] \in CircRec /\ Right(circ[c], c, told, ans)
  BY ChartFields DEF IInv, Client
<1>2. /\ o \in CircRec /\ o.p = circ[c].p /\ o.exit = circ[c].exit /\ o.open = circ[c].open
      /\ o.cell = "established" /\ o.for = circ[c].for /\ o.meet = circ[c].meet
  BY <1>1 DEF CircRec
<1>3. /\ circ' = [circ EXCEPT ![c] = o] /\ UNCHANGED <<str, cache, asked, fetches, sound>>
      /\ point' = point /\ posted' = posted /\ posts' = posts /\ inbox' = inbox /\ seen' = seen
      /\ hop' = hop /\ ans' = ans /\ told' = told
  BY <1>1 DEF MidEstablish, service
<1> HIDE DEF o
<1>4. Right(o, c, told', ans')
  BY <1>1, <1>2, <1>3 DEF Right
<1>5. Client' \in Worlds(told, ans)'
  BY <1>2, <1>3, <1>4, CircMoves
<1>6. AnswersRight' /\ ServiceRight'
  BY <1>3 DEF IInv, AnswersRight, ServiceRight
<1> QED
  BY <1>5, <1>6 DEF IInv

\* The step MidIntroduce keeps the invariant.
LEMMA MidIntroduceIInv ==
  ASSUME RendAssumption, IInv, NEW i \in Circuits, MidIntroduce(i)
  PROVE  IInv'
<1> DEFINE known == point[circ[i].exit].st = "live"
           o == [circ[i] EXCEPT !.cell = IF known THEN "ack" ELSE "nak"]
<1>1. circ \in [Circuits -> CircRec] /\ circ[i] \in CircRec /\ Right(circ[i], i, told, ans)
  BY ChartFields DEF IInv, Client
<1>2. circ[i].exit \in Points /\ circ[i].for \in Circuits
  BY <1>1 DEF Right, MidIntroduce
<1>3. /\ o \in CircRec /\ o.p = circ[i].p /\ o.exit = circ[i].exit /\ o.open = circ[i].open
      /\ o.cell = IF known THEN "ack" ELSE "nak"
      /\ o.for = circ[i].for /\ o.meet = circ[i].meet
  <2>1. (IF known THEN "ack" ELSE "nak") \in {"ack", "nak"}
    OBVIOUS
  <2> HIDE DEF known
  <2> QED
    BY <1>1, <2>1 DEF CircRec
<1>4. /\ circ' = [circ EXCEPT ![i] = o] /\ UNCHANGED <<str, cache, asked, fetches, sound>>
      /\ inbox' = IF known THEN inbox \cup {<<circ[i].exit, circ[i].for>>} ELSE inbox
      /\ told' = IF known THEN told \cup {circ[i].for} ELSE told
      /\ point' = point /\ posted' = posted /\ posts' = posts /\ seen' = seen /\ hop' = hop /\ ans' = ans
  BY <1>1 DEF MidIntroduce
<1> HIDE DEF o, known
<1>5. Right(o, i, told', ans')
  BY <1>1, <1>2, <1>3, <1>4 DEF Right
<1>6. told \subseteq told'
  BY <1>4
<1>7. Client' \in Worlds(told, ans)'
  BY <1>3, <1>4, <1>5, <1>6, CircMoves
<1>8. AnswersRight'
  BY <1>4 DEF IInv, AnswersRight
<1>9. ServiceRight'
  <2>1. ServiceRight
    BY DEF IInv
  <2>2. inbox' \subseteq Points \X Circuits
    <3>1. <<circ[i].exit, circ[i].for>> \in Points \X Circuits
      BY <1>2
    <3> QED
      BY <2>1, <3>1, <1>4 DEF ServiceRight
  <2>3. told' \subseteq Circuits
    BY <2>1, <1>2, <1>4 DEF ServiceRight
  <2> QED
    BY <2>1, <2>2, <2>3, <1>4 DEF ServiceRight
<1> QED
  BY <1>7, <1>8, <1>9 DEF IInv

\* The step MidRendezvous keeps the invariant.
LEMMA MidRendezvousIInv ==
  ASSUME RendAssumption, IInv, NEW m \in Answers, MidRendezvous(m)
  PROVE  IInv'
<1> DEFINE c == ans[m].cookie
           spliced == circ[c].waits
           o == [circ[c] EXCEPT !.cell = "rendezvous2", !.waits = FALSE, !.meet = m]
           a == [ans[m] EXCEPT !.p = IF spliced THEN "spliced" ELSE "closed"]
<1>1. AnswersRight /\ ServiceRight
  BY DEF IInv
<1>2. ans \in [Answers -> AnsRec] /\ c \in Circuits /\ ans[m].sent
  BY <1>1 DEF AnswersRight, MidRendezvous
<1>3. circ \in [Circuits -> CircRec] /\ circ[c] \in CircRec /\ Right(circ[c], c, told, ans)
  <2>1. Client \in Worlds(told, ans) /\ Client.circ = circ
    BY DEF IInv, Client
  <2> HIDE DEF c
  <2> QED
    BY <2>1, <1>2, ChartFields
<1>4. a \in AnsRec /\ a.cookie = ans[m].cookie /\ a.sent = ans[m].sent /\ a.p \in {"spliced", "closed"}
  <2>1. (IF spliced THEN "spliced" ELSE "closed") \in {"spliced", "closed"}
    OBVIOUS
  <2> HIDE DEF spliced
  <2> QED
    BY <1>2, <2>1 DEF AnsRec
<1>5. ans' = [ans EXCEPT ![m] = a]
  BY DEF MidRendezvous
<1> HIDE DEF a
<1>6. ans' \in [Answers -> AnsRec] /\ ans'[m] = a /\ \A n \in Answers : n # m => ans'[n] = ans[n]
  BY <1>2, <1>4, <1>5
<1>7. \A n \in Answers : ans'[n].cookie = ans[n].cookie /\ ans'[n].sent = ans[n].sent
                          /\ (ans'[n].p = ans[n].p \/ ans'[n].p \in {"spliced", "closed"})
  BY <1>4, <1>6
<1>8. \A d \in Circuits : SentFor(ans, d) \subseteq SentFor(ans', d)
  BY <1>7 DEF SentFor
<1>9. UNCHANGED <<str, cache, asked, fetches, sound, point, posted, posts, inbox, seen, hop, told>>
  BY DEF MidRendezvous
<1>10. AnswersRight'
  BY <1>1, <1>6, <1>7, <1>9 DEF AnswersRight
<1>11. ServiceRight'
  BY <1>1, <1>9 DEF ServiceRight
<1>12. Client' \in Worlds(told, ans)'
  <2>1. CASE spliced
    <3>1. circ' = [circ EXCEPT ![c] = o]
      BY <2>1, <1>3 DEF MidRendezvous
    <3>2. /\ o \in CircRec /\ o.p = circ[c].p /\ o.exit = circ[c].exit /\ o.open = circ[c].open
          /\ o.cell = "rendezvous2" /\ o.for = circ[c].for /\ o.meet = m
      BY <1>3 DEF CircRec
    <3> HIDE DEF o
    <3>3. m \in SentFor(ans', c)
      BY <1>2, <1>7 DEF SentFor
    <3> HIDE DEF c
    <3>4. Right(o, c, told', ans')
      <4>1. told' = told
        BY <1>9
      <4> QED
        BY <1>3, <3>2, <3>3, <4>1 DEF Right
    <3> QED
      BY <1>2, <1>8, <1>9, <3>1, <3>2, <3>4, CircMoves
  <2>2. CASE ~spliced
    <3>1. circ' = circ
      BY <2>2 DEF MidRendezvous
    <3> QED
      BY <3>1, <1>8, <1>9, ServiceMoves DEF client
  <2> QED
    BY <2>1, <2>2
<1> QED
  BY <1>10, <1>11, <1>12 DEF IInv

\* A step that leaves the client and the answers alone.
LEMMA PointsMove ==
  ASSUME IInv, UNCHANGED <<client, ans, hop, seen, told>>, ServiceRight'
  PROVE  IInv'
<1>1. Client' \in Worlds(told, ans)'
  <2>1. \A c \in Circuits : SentFor(ans, c) \subseteq SentFor(ans', c)
    BY DEF SentFor
  <2> QED
    BY <2>1, ServiceMoves
<1>2. AnswersRight'
  BY DEF IInv, AnswersRight
<1> QED
  BY <1>1, <1>2 DEF IInv

\* The step ServicesIntroduce keeps the invariant.
LEMMA ServicesIntroduceIInv ==
  ASSUME RendAssumption, IInv, NEW expire \in SUBSET Points, ServicesIntroduce(expire)
  PROVE  IInv'
<1> DEFINE out == {p \in Nodes : point[p].expiring \/ point[p].st = "lost"}
<1>1. point \in [Points -> PointRec] /\ ServiceRight
  BY DEF IInv, ServiceRight
<1>2. /\ UNCHANGED <<client, posted, posts, seen, hop, ans, told>>
      /\ inbox' = {x \in inbox : x[1] \notin out}
  BY DEF ServicesIntroduce
<1>3. PICK new : point' = [p \in Points |->
             IF p \in out THEN [st |-> "gone", expiring |-> FALSE, listed |-> FALSE]
             ELSE IF p \in new THEN [point[p] EXCEPT !.st = "building"]
             ELSE [point[p] EXCEPT !.expiring = p \in expire]]
  BY DEF ServicesIntroduce
<1>4. ASSUME NEW p \in Points PROVE point'[p] \in PointRec
  <2>1. point[p] \in PointRec /\ (p \in expire) \in BOOLEAN
    BY <1>1
  <2>2. [point[p] EXCEPT !.st = "building"] \in PointRec
    BY <2>1 DEF PointRec
  <2>3. [point[p] EXCEPT !.expiring = p \in expire] \in PointRec
    BY <2>1 DEF PointRec
  <2>4. [st |-> "gone", expiring |-> FALSE, listed |-> FALSE] \in PointRec
    BY DEF PointRec
  <2> HIDE DEF out
  <2> QED
    BY <1>3, <2>2, <2>3, <2>4
<1> HIDE DEF out
<1>5. point' \in [Points -> PointRec]
  BY <1>3, <1>4
<1>6. inbox' \subseteq inbox
  BY <1>2
<1>7. ServiceRight'
  BY <1>1, <1>2, <1>5, <1>6 DEF ServiceRight
<1> QED
  BY <1>2, <1>7, PointsMove

\* The step IntroSteps keeps the invariant.
LEMMA IntroStepsIInv ==
  ASSUME RendAssumption, IInv, NEW p \in Points, IntroOpens(p) \/ IntroEstablished(p) \/ IntroLost(p)
  PROVE  IInv'
<1>1. point \in [Points -> PointRec] /\ ServiceRight
  BY DEF IInv, ServiceRight
<1>2. /\ UNCHANGED <<client, posted, posts, seen, hop, ans, told>>
      /\ inbox' \subseteq inbox
  BY DEF IntroOpens, IntroEstablished, IntroLost
<1>3. PICK st \in {"lost", "sent", "live"} : point' = [point EXCEPT ![p].st = st]
  BY DEF IntroOpens, IntroEstablished, IntroLost
<1>4. [point[p] EXCEPT !.st = st] \in PointRec
  BY <1>1 DEF PointRec
<1>5. point' \in [Points -> PointRec]
  BY <1>1, <1>3, <1>4
<1>6. ServiceRight'
  BY <1>1, <1>2, <1>5 DEF ServiceRight
<1> QED
  BY <1>2, <1>6, PointsMove

\* The step Upload keeps the invariant.
LEMMA UploadIInv ==
  ASSUME RendAssumption, IInv, NEW dirs \in SUBSET Dirs, Upload(dirs)
  PROVE  IInv'
<1> DEFINE listed == {p \in Nodes : point[p].st = "live" /\ ~point[p].expiring}
<1>1. point \in [Points -> PointRec] /\ ServiceRight
  BY DEF IInv, ServiceRight
<1>2. /\ UNCHANGED <<client, inbox, seen, hop, ans, told>>
      /\ posts' = posts + 1
      /\ point' = [p \in Points |-> [point[p] EXCEPT !.listed = p \in listed]]
      /\ posted' = [d \in Dirs |-> IF d \in dirs THEN [time |-> posts + 1, points |-> listed] ELSE posted[d]]
  BY DEF Upload
<1>3. listed \in SUBSET Points
  BY DEF Nodes
<1> HIDE DEF listed
<1>4. point' \in [Points -> PointRec]
  <2>1. ASSUME NEW p \in Points PROVE [point[p] EXCEPT !.listed = p \in listed] \in PointRec
    <3>1. point[p] \in PointRec /\ (p \in listed) \in BOOLEAN
      BY <1>1
    <3> QED
      BY <3>1 DEF PointRec
  <2> QED
    BY <1>2, <2>1
<1>5. posts \in Nat /\ posts' \in Nat
  BY <1>1, <1>2 DEF ServiceRight
<1>6. [time |-> posts + 1, points |-> listed] \in Posts
  BY <1>3, <1>5 DEF Posts
<1>7. posted' \in [Dirs -> Posts]
  BY <1>1, <1>2, <1>6 DEF ServiceRight
<1>8. ServiceRight'
  BY <1>1, <1>2, <1>4, <1>5, <1>7 DEF ServiceRight
<1> QED
  BY <1>2, <1>8, PointsMove

\* One circuit of the service's is made or fails, or a fresh one takes over.
LEMMA AnswersMove ==
  ASSUME IInv, UNCHANGED <<client, point, posted, posts, told>>,
         inbox' \subseteq inbox, seen' \subseteq Circuits, AnswersRight',
         \A c \in Circuits : SentFor(ans, c) \subseteq SentFor(ans', c)
  PROVE  IInv'
<1>1. Client' \in Worlds(told, ans)'
  BY ServiceMoves
<1>2. ServiceRight'
  BY DEF IInv, ServiceRight
<1> QED
  BY <1>1, <1>2 DEF IInv

\* Connecting leads to what is right.
LEMMA ConnectingRight ==
  ASSUME NEW c \in Circuits \cup {Nil}, NEW n \in Nat
  PROVE  /\ Connecting(c, n) \in AnsRec /\ Connecting(c, n).p = "connect"
         /\ Connecting(c, n).cookie = c /\ ~Connecting(c, n).sent
  BY DEF Connecting, NewAnswer, AnsRec

\* The step Introduce2 keeps the invariant.
LEMMA Introduce2IInv ==
  ASSUME RendAssumption, IInv, NEW p \in Points, NEW c \in Circuits, Introduce2(p, c)
  PROVE  IInv'
<1>1. AnswersRight /\ ServiceRight
  BY DEF IInv
<1>2. /\ UNCHANGED <<client, point, posted, posts, told>>
      /\ inbox' \subseteq inbox /\ seen' = seen \cup {c}
  BY DEF Introduce2
<1>3. seen' \subseteq Circuits
  BY <1>1, <1>2 DEF ServiceRight
<1>4. CASE UNCHANGED <<hop, ans>>
  <2>1. AnswersRight'
    BY <1>1, <1>2, <1>4 DEF AnswersRight
  <2>2. \A d \in Circuits : SentFor(ans, d) \subseteq SentFor(ans', d)
    BY <1>4 DEF SentFor
  <2> QED
    BY <2>1, <2>2, <1>2, <1>3, AnswersMove
<1>5. CASE c \notin seen /\ \E m \in FreshAnswer : ans' = [ans EXCEPT ![m] = Connecting(c, 0)]
                         /\ hop' = hop \cup {c}
  <2>1. PICK m \in Answers : /\ ans[m].p = "new" /\ ans' = [ans EXCEPT ![m] = Connecting(c, 0)]
                             /\ hop' = hop \cup {c}
    BY <1>5 DEF FreshAnswer
  <2>2. /\ Connecting(c, 0) \in AnsRec /\ Connecting(c, 0).p = "connect"
        /\ Connecting(c, 0).cookie = c /\ ~Connecting(c, 0).sent
    BY ConnectingRight
  <2>3. ans \in [Answers -> AnsRec]
    BY <1>1 DEF AnswersRight
  <2>4. ans' \in [Answers -> AnsRec] /\ ans'[m] = Connecting(c, 0)
          /\ \A n \in Answers : n # m => ans'[n] = ans[n]
    BY <2>1, <2>2, <2>3
  <2>5. ~ans[m].sent
    BY <1>1, <2>1 DEF AnswersRight
  <2>6. AnswersRight'
    BY <1>1, <1>2, <1>5, <2>1, <2>2, <2>4 DEF AnswersRight
  <2>7. \A d \in Circuits : SentFor(ans, d) \subseteq SentFor(ans', d)
    BY <2>4, <2>5 DEF SentFor
  <2> QED
    BY <2>6, <2>7, <1>2, <1>3, AnswersMove
<1> QED
  BY <1>4, <1>5 DEF Introduce2

\* The step AnswerFails keeps the invariant.
LEMMA AnswerFailsIInv ==
  ASSUME RendAssumption, IInv, NEW m \in Answers, NEW expires \in BOOLEAN, AnswerFails(m, expires)
  PROVE  IInv'
<1> DEFINE o == IF expires /\ ~ans[m].late THEN [ans[m] EXCEPT !.late = TRUE]
                ELSE [ans[m] EXCEPT !.p = "closed", !.late = FALSE]
           k == [o EXCEPT !.again = TRUE]
           kept == [ans EXCEPT ![m] = k]
<1>1. AnswersRight /\ ServiceRight
  BY DEF IInv
<1>2. /\ UNCHANGED <<client, point, posted, posts, inbox, seen, hop, told>>
      /\ ans[m].p = "connect" /\ ans' \in Relaunched(m, o)
  BY DEF AnswerFails
<1>3. seen' \subseteq Circuits
  BY <1>1, <1>2 DEF ServiceRight
<1>4. /\ ans \in [Answers -> AnsRec] /\ ans[m] \in AnsRec
      /\ ans[m].cookie \in seen /\ ans[m].cookie \in Circuits /\ ~ans[m].sent
  BY <1>1, <1>2 DEF AnswersRight
<1>5. o \in AnsRec /\ o.p \in {"connect", "closed"} /\ o.cookie = ans[m].cookie /\ o.sent = ans[m].sent
  <2>1. CASE expires /\ ~ans[m].late
    BY <1>2, <1>4, <2>1 DEF AnsRec
  <2>2. CASE ~(expires /\ ~ans[m].late)
    BY <1>2, <1>4, <2>2 DEF AnsRec
  <2> QED
    BY <2>1, <2>2
<1> HIDE DEF o
<1>6. k \in AnsRec /\ k.p \in {"connect", "closed"} /\ k.cookie = ans[m].cookie /\ k.sent = ans[m].sent
  BY <1>5 DEF AnsRec
<1>7. \/ ans' = [ans EXCEPT ![m] = o] \/ ans' = kept
      \/ \E n \in FreshAnswer : ans' = [kept EXCEPT ![n] = Connecting(o.cookie, o.fails + 1)]
  BY <1>2 DEF Relaunched
<1> HIDE DEF k
<1>8. ASSUME NEW a \in AnsRec, a.p \in {"connect", "closed"}, a.cookie = ans[m].cookie, a.sent = ans[m].sent,
             ans' = [ans EXCEPT ![m] = a]
      PROVE  AnswersRight' /\ \A d \in Circuits : SentFor(ans, d) \subseteq SentFor(ans', d)
  <2>1. ans' \in [Answers -> AnsRec] /\ ans'[m] = a /\ \A n \in Answers : n # m => ans'[n] = ans[n]
    BY <1>4, <1>8
  <2>2. AnswersRight'
    BY <1>1, <1>2, <1>4, <1>8, <2>1 DEF AnswersRight
  <2> QED
    BY <2>1, <2>2, <1>8 DEF SentFor
<1>9. CASE ans' = [ans EXCEPT ![m] = o]
  BY <1>2, <1>3, <1>5, <1>8, <1>9, AnswersMove
<1>10. CASE ans' = kept
  BY <1>2, <1>3, <1>6, <1>8, <1>10, AnswersMove
<1>11. CASE \E n \in FreshAnswer : ans' = [kept EXCEPT ![n] = Connecting(o.cookie, o.fails + 1)]
  <2>1. PICK n \in Answers : ans[n].p = "new" /\ ans' = [kept EXCEPT ![n] = Connecting(o.cookie, o.fails + 1)]
    BY <1>11 DEF FreshAnswer
  <2> DEFINE q == Connecting(o.cookie, o.fails + 1)
  <2>2. q \in AnsRec /\ q.p = "connect" /\ q.cookie = ans[m].cookie /\ ~q.sent
    <3>1. o.cookie \in Circuits \cup {Nil} /\ o.fails + 1 \in Nat /\ o.cookie = ans[m].cookie
      BY <1>5 DEF AnsRec
    <3> QED
      BY <3>1, ConnectingRight
  <2> HIDE DEF q
  <2>3. n # m /\ ~ans[n].sent
    BY <1>1, <1>2, <2>1 DEF AnswersRight
  <2>4. ans' \in [Answers -> AnsRec] /\ ans'[m] = k /\ ans'[n] = q
          /\ \A i \in Answers : i # m /\ i # n => ans'[i] = ans[i]
    BY <1>4, <1>6, <2>1, <2>2, <2>3 DEF q
  <2>5. AnswersRight'
    BY <1>1, <1>2, <1>4, <1>6, <2>2, <2>3, <2>4 DEF AnswersRight
  <2>6. \A d \in Circuits : SentFor(ans, d) \subseteq SentFor(ans', d)
    BY <1>6, <2>2, <2>3, <2>4 DEF SentFor
  <2> QED
    BY <2>5, <2>6, <1>2, <1>3, AnswersMove
<1> QED
  BY <1>7, <1>9, <1>10, <1>11

\* The step AnswerOpens keeps the invariant.
LEMMA AnswerOpensIInv ==
  ASSUME RendAssumption, IInv, NEW m \in Answers, AnswerOpens(m)
  PROVE  IInv'
<1> DEFINE takes == ans[m].cookie \in hop
           a == [ans[m] EXCEPT !.p = IF takes THEN "sent" ELSE "closed", !.sent = takes]
<1>1. AnswersRight /\ ServiceRight
  BY DEF IInv
<1>2. /\ UNCHANGED <<client, point, posted, posts, inbox, seen, told>>
      /\ ans[m].p = "connect" /\ hop' = hop \ {ans[m].cookie}
  BY DEF AnswerOpens
<1>3. seen' \subseteq Circuits
  BY <1>1, <1>2 DEF ServiceRight
<1>4. /\ ans \in [Answers -> AnsRec] /\ ans[m] \in AnsRec /\ hop \subseteq seen
      /\ ans[m].cookie \in seen /\ ans[m].cookie \in Circuits /\ ~ans[m].sent
  BY <1>1, <1>2 DEF AnswersRight
<1>5. a \in AnsRec /\ a.p = (IF takes THEN "sent" ELSE "closed") /\ a.cookie = ans[m].cookie /\ a.sent = takes
  <2>1. (IF takes THEN "sent" ELSE "closed") \in {"sent", "closed"} /\ takes \in BOOLEAN
    OBVIOUS
  <2> HIDE DEF takes
  <2> QED
    BY <1>4, <2>1 DEF AnsRec
<1>6. ans' = [ans EXCEPT ![m] = a]
  BY <1>4 DEF AnswerOpens
<1> HIDE DEF a
<1>7. ans' \in [Answers -> AnsRec] /\ ans'[m] = a /\ \A n \in Answers : n # m => ans'[n] = ans[n]
  BY <1>4, <1>5, <1>6
<1>8. AnswersRight'
  <2>1. hop' \subseteq seen' /\ seen' = seen
    BY <1>2, <1>4
  <2>2. ASSUME NEW n \in Answers
        PROVE  /\ ans'[n].p \in {"connect", "sent"} => ans'[n].cookie \in Circuits
               /\ ans'[n].p = "connect" => ans'[n].cookie \in seen'
               /\ ans'[n].p = "sent" => ans'[n].sent
               /\ ans'[n].p \in {"new", "connect"} => ~ans'[n].sent
               /\ ans'[n].sent => ans'[n].cookie \in seen' \ hop'
    <3>1. CASE n = m
      BY <3>1, <1>2, <1>4, <1>5, <1>7, <2>1
    <3>2. CASE n # m
      BY <3>2, <1>1, <1>2, <1>7, <2>1 DEF AnswersRight
    <3> QED
      BY <3>1, <3>2
  <2>3. ASSUME NEW n \in Answers, NEW i \in Answers, ans'[n].sent, ans'[i].sent, ans'[n].cookie = ans'[i].cookie
        PROVE  n = i
    <3>1. CASE n # m /\ i # m
      BY <3>1, <2>3, <1>1, <1>7 DEF AnswersRight
    <3>2. ASSUME NEW j \in Answers, j # m, ans'[j].sent, takes PROVE ans'[j].cookie # ans[m].cookie
      BY <3>2, <1>1, <1>7 DEF AnswersRight
    <3>3. CASE n = m \/ i = m
      BY <3>2, <3>3, <2>3, <1>5, <1>7
    <3> QED
      BY <3>1, <3>3
  <2> QED
    BY <1>7, <2>1, <2>2, <2>3 DEF AnswersRight
<1>9. \A d \in Circuits : SentFor(ans, d) \subseteq SentFor(ans', d)
  BY <1>4, <1>7 DEF SentFor
<1> QED
  BY <1>2, <1>3, <1>8, <1>9, AnswersMove
-----------------------------------------------------------------------------
\* The initial states.
LEMMA InitIInv ==
  ASSUME RendAssumption, Init
  PROVE  IInv
<1>1. Client \in Worlds(told, ans)
  <2>1. circ \in Charts(told, ans)
    <3>1. \A c \in Circuits : NewCirc \in CircRec /\ Right(NewCirc, c, told, ans)
      BY NewCircRight
    <3>2. circ \in [Circuits -> CircRec]
      BY <3>1 DEF Init
    <3>3. \A c \in Circuits : Right(circ[c], c, told, ans)
      BY <3>1 DEF Init
    <3> QED
      BY <3>2, <3>3 DEF Charts
  <2>2. str \in [AP -> Places] /\ cache \in Caches /\ asked \in SUBSET Dirs /\ fetches \in SUBSET Dirs
          /\ sound \in {TRUE}
    BY DEF Init, Places, Caches
  <2> QED
    BY <2>1, <2>2 DEF Client, Worlds
<1>2. AnswersRight
  <2>1. NewAnswer \in AnsRec /\ NewAnswer.p = "new" /\ NewAnswer.sent = FALSE
    BY DEF NewAnswer, AnsRec
  <2>2. ans \in [Answers -> AnsRec] /\ \A m \in Answers : ans[m] = NewAnswer
    BY <2>1 DEF Init
  <2> QED
    BY <2>1, <2>2 DEF AnswersRight, Init
<1>3. ServiceRight
  <2>1. [st |-> "new", expiring |-> FALSE, listed |-> FALSE] \in PointRec
    BY DEF PointRec
  <2> QED
    BY <2>1 DEF Init, ServiceRight, Posts
<1> QED
  BY <1>1, <1>2, <1>3 DEF IInv

\* Every step keeps the invariant.
LEMMA StepIInv ==
  ASSUME RendAssumption, IInv, [Next]_vars
  PROVE  IInv'
<1>1. CASE UNCHANGED vars
  <2>1. UNCHANGED <<client, service>>
    BY <1>1 DEF vars
  <2>2. ServiceRight'
    BY <2>1 DEF IInv, ServiceRight, service
  <2> QED
    BY <2>1, <2>2, PointsMove DEF service
<1>2. ASSUME NEW s \in AP, Request(s) \/ TimesOut(s) PROVE IInv'
  BY <1>2, RequestIInv, TimesOutIInv
<1>3. CASE EverySecond
  BY <1>3, EverySecondIInv
<1>4. ASSUME NEW d \in Dirs, Fetched(d) \/ FetchFails(d) PROVE IInv'
  BY <1>4, FetchedIInv, FetchFailsIInv
<1>5. ASSUME NEW c \in Circuits,
             \/ Built(c) \/ RendAcked(c) \/ IntroAcked(c) \/ Joins(c)
             \/ ExpireBuilding(c) \/ Lost(c) \/ MidEstablish(c) \/ MidIntroduce(c)
      PROVE  IInv'
  BY <1>5, BuiltIInv, RendAckedIInv, IntroAckedIInv, JoinsIInv, ExpireBuildingIInv, LostIInv,
     MidEstablishIInv, MidIntroduceIInv
<1>6. ASSUME NEW m \in Answers,
             MidRendezvous(m) \/ AnswerOpens(m) \/ \E e \in BOOLEAN : AnswerFails(m, e)
      PROVE  IInv'
  BY <1>6, MidRendezvousIInv, AnswerOpensIInv, AnswerFailsIInv
<1>7. ASSUME NEW X \in SUBSET Points, ServicesIntroduce(X) PROVE IInv'
  BY <1>7, ServicesIntroduceIInv
<1>8. ASSUME NEW p \in Points, \/ IntroOpens(p) \/ IntroEstablished(p) \/ IntroLost(p)
                               \/ \E c \in Circuits : Introduce2(p, c)
      PROVE  IInv'
  BY <1>8, IntroStepsIInv, Introduce2IInv
<1>9. ASSUME NEW D \in SUBSET Dirs, Upload(D) PROVE IInv'
  BY <1>9, UploadIInv
<1> QED
  BY <1>1, <1>2, <1>3, <1>4, <1>5, <1>6, <1>7, <1>8, <1>9 DEF Next

\* The inductive invariant holds in every reachable state.
LEMMA AlwaysIInv ==
  ASSUME RendAssumption
  PROVE  Spec => []IInv
<1>1. Init => IInv
  BY InitIInv
<1>2. IInv /\ [Next]_vars => IInv'
  BY StepIInv
<1> QED
  BY <1>1, <1>2, PTL DEF Spec

\* The client, the relays and the service of a rendezvous, for any number of
\* streams, circuits, introduction points and directories.
THEOREM TypeCorrect == Spec => []TypeOK
<1>1. ASSUME IInv PROVE TypeOK
  <2>1. Client \in Worlds(told, ans)
    BY <1>1 DEF IInv
  <2>2. str \in [AP -> Places] /\ asked \in SUBSET Dirs /\ fetches \in SUBSET Dirs
    <3>1. Client.str = str /\ Client.asked = asked /\ Client.fetches = fetches
      BY DEF Client
    <3> QED
      BY <2>1, <3>1, WorldFields
  <2>3. \A c \in Circuits : circ[c] \in CircRec
    BY <2>1, ChartFields DEF Client
  <2>4. hop \subseteq Circuits /\ ServiceRight
    BY <1>1 DEF IInv, AnswersRight, ServiceRight
  <2> QED
    BY <2>2, <2>3, <2>4 DEF TypeOK, Places, CircRec, ServiceRight
<1>2. Spec => []IInv
  BY RendAssumption, AlwaysIInv
<1> QED
  BY <1>1, <1>2, PTL

\* No assertion of rendclient.c fails, a circuit counts as introduced only when
\* the service was told its own cookie, and a cookie is answered once, on the
\* circuit that the client joins.
THEOREM AlwaysIntroduced == Spec => []Introduced
<1>1. ASSUME IInv PROVE Introduced
  <2>1. Client \in Worlds(told, ans)
    BY <1>1 DEF IInv
  <2>2. NoAssertFails
    <3>1. Client.sound = sound
      BY DEF Client
    <3> QED
      BY <2>1, <3>1, WorldFields DEF NoAssertFails
  <2>3. \A c \in Circuits : Right(circ[c], c, told, ans)
    BY <2>1, ChartFields DEF Client
  <2>4. AckedRight
    BY <2>3 DEF AckedRight, Right
  <2>5. OneAnswer
    <3>1. SUFFICES ASSUME NEW c \in Circuits
                   PROVE  /\ Cardinality(SentFor(ans, c)) <= 1
                          /\ circ[c].p = "joined" => circ[c].meet \in SentFor(ans, c)
      BY DEF OneAnswer, SentFor
    <3>2. circ[c].p = "joined" => circ[c].meet \in SentFor(ans, c)
      BY <2>3 DEF Right
    <3>3. \A m, n \in SentFor(ans, c) : m = n
      BY <1>1 DEF IInv, AnswersRight, SentFor
    <3> HIDE DEF SentFor
    <3>4. SentFor(ans, c) = {} \/ \E m : SentFor(ans, c) = {m}
      BY <3>3
    <3>5. Cardinality(SentFor(ans, c)) \in {0, 1}
      BY <3>4, FS_EmptySet, FS_Singleton
    <3> QED
      BY <3>2, <3>5
  <2> QED
    BY <2>2, <2>4, <2>5 DEF Introduced
<1>2. Spec => []IInv
  BY RendAssumption, AlwaysIInv
<1> QED
  BY <1>1, <1>2, PTL
-----------------------------------------------------------------------------
(* Circuit build times: the inductive invariant. *)

\* What a slot of the history may hold: a time, as it was or as the state file
\* gave it back, or that a circuit was abandoned, or nothing.
Observed == 1 .. MaxTime \cup {B!Midpoint(t) : t \in 1 .. MaxTime}
Histories ==
  [times : [B!Slots -> Observed \cup {0, B!Abandoned}], total : 0 .. N, idx : B!Slots,
   timeout : Nat, close : Nat]

InPlace(h) ==
  /\ \A i \in B!Slots : h.times[i] # 0 <=> i < h.total
  /\ h.total < N => h.idx = h.total
Ordered(h) == MinTimeout <= h.timeout /\ h.timeout <= h.close
SomeBuilt(h) == h.total >= MinCircs => B!Built(h.times) # {}
GoodHistory(h) == h \in Histories /\ InPlace(h) /\ Ordered(h) /\ SomeBuilt(h)

Marked(r) == {i \in DOMAIN r : r[i]}
Building == [building : BOOLEAN, first : BOOLEAN, quiet : BOOLEAN, measured : BOOLEAN]

\* A mark is a strike, and no circuit has made a hop since a time when nothing was heard.
Struck ==
  /\ recent \in Seq(BOOLEAN) /\ strikes \in 0 .. MaxTimeouts
  /\ Cardinality(Marked(recent)) <= strikes
Hears ==
  /\ build \in [Builds -> Building] /\ nonlive \in BOOLEAN
  /\ \A c \in Builds : build[c].first => ~build[c].quiet
RingInPlace == at \in Nat /\ freed \in Nat /\ (at < Len(recent) \/ at < freed \/ at = 0)

TimesInv == GoodHistory(B!Now) /\ Struck /\ Hears /\ RingInPlace /\ faults = {}
-----------------------------------------------------------------------------
(* Numbers. *)

LEMMA SameCounting == \A S : B!Cardinality(S) = Cardinality(S)
BY DEF B!Cardinality, Cardinality

LEMMA TimesConstants ==
  ASSUME B!TimesAssumption
  PROVE  /\ N \in Nat /\ N > 0 /\ BinWidth \in Nat /\ BinWidth >= 2
         /\ MinCircs \in Nat /\ MinCircs > 0 /\ MaxTimeouts \in Nat /\ MaxTimeouts > 0
         /\ DefaultRecent \in Nat /\ DefaultRecent > 0
         /\ MaxTime \in Nat /\ IntMax \in Nat /\ InitialTimeout \in Nat /\ MinTimeout \in Nat
         /\ MaxTime + BinWidth <= IntMax /\ MinTimeout <= InitialTimeout
         /\ B!Abandoned \in Nat /\ B!Abandoned = IntMax + 1
         /\ \A num \in RecentCounts : num \in Nat /\ num > 0
BY DEF B!TimesAssumption, B!Abandoned

LEMMA Turns ==
  ASSUME B!TimesAssumption, NEW a \in Nat
  PROVE  /\ a % N \in B!Slots
         /\ a < N => a % N = a
<1>1. N \in Nat /\ N > 0
  BY TimesConstants
<1> QED
  BY <1>1 DEF B!Slots

\* A bin's midpoint is in the bin, and is no 0.
LEMMA Midpoints ==
  ASSUME B!TimesAssumption, NEW t \in Nat
  PROVE  /\ B!Midpoint(t) \in Nat /\ B!Midpoint(t) > 0 /\ B!Midpoint(t) <= t + BinWidth
         /\ B!Midpoint(B!Midpoint(t)) = B!Midpoint(t)
<1>1. BinWidth \in Nat /\ BinWidth >= 2
  BY TimesConstants
<1>. DEFINE q == t \div BinWidth
            r == BinWidth \div 2
            m == q * BinWidth
<1>2. q \in Nat /\ m \in Nat /\ m <= t
  BY <1>1
<1>3. r \in Nat /\ r > 0 /\ r < BinWidth
  BY <1>1
<1>4. B!Midpoint(t) = m + r
  BY DEF B!Midpoint
<1>5. (m + r) \div BinWidth = q
  BY <1>1, <1>2, <1>3
<1>6. B!Midpoint(m + r) = m + r
  BY <1>5 DEF B!Midpoint
<1>. HIDE DEF m, r, q
<1> QED
  BY <1>1, <1>2, <1>3, <1>4, <1>6
-----------------------------------------------------------------------------
(* The history. *)

\* What was observed is a time, and so is the midpoint of its bin.
LEMMA ObservedAre ==
  ASSUME B!TimesAssumption
  PROVE  /\ Observed \subseteq 1 .. IntMax
         /\ \A t \in Observed : B!Midpoint(t) \in Observed
         /\ 0 \notin Observed /\ B!Abandoned \notin Observed /\ B!Abandoned > 0
<1>1. /\ MaxTime \in Nat /\ IntMax \in Nat /\ BinWidth \in Nat /\ MaxTime + BinWidth <= IntMax
      /\ BinWidth >= 2 /\ B!Abandoned = IntMax + 1
  BY TimesConstants
<1>2. ASSUME NEW t \in 1 .. MaxTime
      PROVE  /\ t \in 1 .. IntMax /\ B!Midpoint(t) \in 1 .. IntMax
             /\ B!Midpoint(t) \in Observed /\ B!Midpoint(B!Midpoint(t)) \in Observed
  <2>1. /\ B!Midpoint(t) \in Nat /\ B!Midpoint(t) > 0 /\ B!Midpoint(t) <= t + BinWidth
        /\ B!Midpoint(B!Midpoint(t)) = B!Midpoint(t)
    BY <1>1, Midpoints
  <2> QED
    BY <1>1, <2>1 DEF Observed
<1>3. Observed \subseteq 1 .. IntMax
  BY <1>2 DEF Observed
<1>4. ASSUME NEW t \in Observed PROVE B!Midpoint(t) \in Observed
  BY <1>2 DEF Observed
<1> QED
  BY <1>1, <1>3, <1>4

\* What is built of a history, and how many of its slots are used.
LEMMA HistoryIs ==
  ASSUME B!TimesAssumption, NEW h \in Histories
  PROVE  /\ B!Built(h.times) \subseteq Observed
         /\ IsFiniteSet(B!Built(h.times)) /\ IsFiniteSet(B!Slots)
         /\ \A i \in B!Slots : h.times[i] \in Observed => h.times[i] \in B!Built(h.times)
         /\ \A i \in B!Slots : h.times[i] = 0 \/ h.times[i] = B!Abandoned \/ h.times[i] \in B!Built(h.times)
<1>1. h.times \in [B!Slots -> Observed \cup {0, B!Abandoned}]
  BY DEF Histories
<1>2. N \in Nat
  BY TimesConstants
<1>3. IsFiniteSet(B!Slots)
  <2>1. 0 \in Int /\ N - 1 \in Int
    BY <1>2
  <2> QED
    BY <2>1, FS_Interval DEF B!Slots
<1>4. IsFiniteSet({h.times[i] : i \in B!Slots})
  BY <1>1, <1>3, FiniteImage
<1>5. B!Built(h.times) \subseteq {h.times[i] : i \in B!Slots}
  BY DEF B!Built
<1>6. IsFiniteSet(B!Built(h.times))
  BY <1>4, <1>5, FS_Subset
<1> QED
  BY <1>1, <1>3, <1>6, ObservedAre DEF B!Built

LEMMA UsedSlots ==
  ASSUME B!TimesAssumption, NEW h \in Histories, InPlace(h)
  PROVE  Cardinality({i \in B!Slots : h.times[i] # 0}) = h.total
<1>. DEFINE n == h.total
<1>1. N \in Nat /\ n \in Nat /\ n <= N
  BY TimesConstants DEF Histories
<1>2. {i \in B!Slots : h.times[i] # 0} = 0 .. n - 1
  <2>1. \A i \in B!Slots : h.times[i] # 0 <=> i < n
    BY DEF InPlace
  <2>. HIDE DEF n
  <2> QED
    BY <1>1, <2>1 DEF B!Slots
<1>. HIDE DEF n
<1>3. Cardinality(0 .. n - 1) = n
  <2>1. 0 \in Int /\ n - 1 \in Int
    BY <1>1
  <2>2. Cardinality(0 .. n - 1) = (IF 0 > n - 1 THEN 0 ELSE n - 1 - 0 + 1)
    BY <2>1, FS_Interval
  <2> QED
    BY <1>1, <2>2
<1> QED
  BY <1>2, <1>3 DEF n

\* The least and the greatest time.
LEMMA LeastIs ==
  ASSUME NEW S \in SUBSET Nat, S # {}
  PROVE  B!Least(S) \in S /\ \A y \in S : B!Least(S) <= y
<1>1. \E x \in S : \A y \in S : x <= y
  BY LeastOf
<1> QED
  BY <1>1 DEF B!Least

LEMMA MostIs ==
  ASSUME NEW n \in Nat, NEW S \in SUBSET (0 .. n), S # {}
  PROVE  B!Most(S) \in S /\ \A y \in S : y <= B!Most(S)
<1>. DEFINE T == {n - x : x \in S}
<1>1. T \in SUBSET Nat /\ T # {}
  <2>1. \A x \in S : n - x \in Nat
    OBVIOUS
  <2> QED
    BY <2>1
<1>2. PICK z \in T : \A y \in T : z <= y
  BY <1>1, LeastOf
<1>3. PICK x \in S : z = n - x
  OBVIOUS
<1>4. \A y \in S : y <= x
  <2> TAKE y \in S
  <2>1. n - y \in T
    OBVIOUS
  <2>2. n - x <= n - y
    BY <1>2, <1>3, <2>1
  <2> QED
    BY <2>2
<1> QED
  BY <1>4 DEF B!Most

\* The midpoints that xm lies between, and the longest time, are times.
LEMMA TimesBetween ==
  ASSUME B!TimesAssumption, NEW h \in Histories, B!Built(h.times) # {}
  PROVE  /\ B!Longest(h.times) \in Nat
         /\ \A t \in B!Built(h.times) : t \in Nat /\ t <= B!Longest(h.times)
         /\ \A xm \in B!Xms(h.times) : xm \in Nat
         /\ (\A t \in B!Built(h.times) : B!Midpoint(t) = t) =>
              \A xm \in B!Xms(h.times) :
                /\ \E t \in B!Built(h.times) : t >= xm
                /\ \E t \in B!Built(h.times) : t <= xm
<1>. DEFINE S == B!Built(h.times)
            M == {B!Midpoint(t) : t \in S}
<1>1. IntMax \in Nat
  BY TimesConstants
<1>2. S \subseteq Observed /\ Observed \subseteq 1 .. IntMax /\ \A t \in Observed : B!Midpoint(t) \in Observed
  BY HistoryIs, ObservedAre
<1>3. S \cup {0} \in SUBSET (0 .. IntMax) /\ S \cup {0} # {}
  <2>1. \A t \in S : t \in 1 .. IntMax
    BY <1>2
  <2>. HIDE DEF S
  <2>2. \A t \in S : t \in 0 .. IntMax
    BY <1>1, <2>1
  <2>3. 0 \in 0 .. IntMax
    BY <1>1
  <2> QED
    BY <2>2, <2>3
<1>4. B!Longest(h.times) \in S \cup {0} /\ \A t \in S \cup {0} : t <= B!Longest(h.times)
  BY <1>1, <1>3, MostIs DEF B!Longest
<1>5. M \subseteq Observed /\ M # {}
  BY <1>2
<1>6. M \in SUBSET Nat /\ M \in SUBSET (0 .. IntMax)
  <2>1. \A t \in M : t \in 1 .. IntMax
    BY <1>2, <1>5
  <2>. HIDE DEF M
  <2>2. \A t \in M : t \in Nat /\ t \in 0 .. IntMax
    BY <1>1, <2>1
  <2> QED
    BY <2>2
<1>7. B!Least(M) \in M /\ B!Least(M) \in Nat
  BY <1>5, <1>6, LeastIs
<1>8. B!Most(M) \in M /\ B!Most(M) \in Nat
  BY <1>1, <1>5, <1>6, MostIs
<1>9. B!Xms(h.times) = B!Least(M) .. B!Most(M)
  BY DEF B!Xms
<1>10. \A t \in S : t \in Nat
  <2>1. \A t \in S : t \in 1 .. IntMax
    BY <1>2
  <2>. HIDE DEF S
  <2> QED
    BY <1>1, <2>1
<1>11. ASSUME \A t \in S : B!Midpoint(t) = t PROVE M = S
  BY <1>11
<1>. HIDE DEF S, M
<1>12. B!Longest(h.times) \in Nat
  BY <1>4, <1>10
<1>13. \A xm \in B!Xms(h.times) : xm \in Nat /\ B!Least(M) <= xm /\ xm <= B!Most(M)
  BY <1>7, <1>8, <1>9
<1> QED
  BY <1>4, <1>7, <1>8, <1>10, <1>11, <1>12, <1>13 DEF S

\* Two timeouts in order stay so when they are capped by the longest time, and
\* floored by the parameter.
LEMMA CappedIs ==
  ASSUME B!TimesAssumption, NEW h \in Histories, NEW q \in Nat, NEW c \in Nat, q <= c,
         NEW g, g = B!Floored(B!Capped(h, q, c)), NEW b \in Nat, b <= c, b <= B!Longest(h.times),
         B!Longest(h.times) \in Nat
  PROVE  /\ g \in Histories /\ g.times = h.times /\ g.total = h.total /\ g.idx = h.idx
         /\ Ordered(g) /\ b <= g.close
<1>. DEFINE longest == B!Longest(h.times)
            wide == B!Larger(c, InitialTimeout)
            to == B!Smaller(q, longest)
            cl == IF longest < IntMax \div 2 THEN B!Smaller(wide, 2 * longest) ELSE wide
<1>1. IntMax \in Nat /\ InitialTimeout \in Nat /\ MinTimeout \in Nat /\ MinTimeout <= InitialTimeout
  BY TimesConstants
<1>2. wide \in Nat /\ c <= wide
  BY <1>1 DEF B!Larger
<1>3. to \in Nat /\ to <= q /\ to <= longest
  BY DEF B!Smaller
<1>4. cl \in Nat /\ to <= cl /\ b <= cl
  <2>1. 2 * longest \in Nat /\ longest <= 2 * longest
    OBVIOUS
  <2>. HIDE DEF longest, wide, to
  <2>2. longest \in Nat /\ b <= longest
    BY DEF longest
  <2> QED
    BY <1>1, <1>2, <1>3, <2>1, <2>2 DEF B!Smaller
<1>5. B!Capped(h, q, c) = [h EXCEPT !.timeout = to, !.close = cl]
  BY DEF B!Capped
<1>. HIDE DEF to, cl
<1>. DEFINE k == [h EXCEPT !.timeout = to, !.close = cl]
<1>6. /\ k \in Histories /\ k.times = h.times /\ k.total = h.total /\ k.idx = h.idx
      /\ k.timeout = to /\ k.close = cl
  BY <1>3, <1>4 DEF Histories
<1>7. g = B!Floored(k)
  BY <1>5
<1>. HIDE DEF k
<1>8. CASE k.timeout >= MinTimeout
  <2>1. g = k
    BY <1>7, <1>8 DEF B!Floored
  <2> QED
    BY <1>1, <1>3, <1>4, <1>6, <1>8, <2>1 DEF Ordered
<1>9. CASE ~(k.timeout >= MinTimeout)
  <2>. DEFINE cf == IF cl < MinTimeout THEN InitialTimeout ELSE cl
  <2>1. cf \in Nat /\ MinTimeout <= cf /\ b <= cf
    BY <1>1, <1>4
  <2>2. g = [k EXCEPT !.timeout = MinTimeout, !.close = cf]
    BY <1>6, <1>7, <1>9 DEF B!Floored
  <2>. HIDE DEF cf
  <2>3. /\ g \in Histories /\ g.times = h.times /\ g.total = h.total /\ g.idx = h.idx
        /\ g.timeout = MinTimeout /\ g.close = cf
    BY <1>1, <1>6, <2>1, <2>2 DEF Histories
  <2> QED
    BY <1>1, <2>1, <2>3 DEF Ordered
<1> QED
  BY <1>8, <1>9

\* Estimating the timeouts of a good history fails no assertion and changes
\* nothing but them; if the history came from a file, some time is in the new
\* close timeout.
LEMMA EstimatesGood ==
  ASSUME B!TimesAssumption, NEW h, GoodHistory(h), NEW e \in B!Estimates(h)
  PROVE  /\ GoodHistory(e.h) /\ e.fault = {} /\ e.h.times = h.times /\ e.h.total = h.total
         /\ h.total >= MinCircs /\ (\A t \in B!Built(h.times) : B!Midpoint(t) = t) =>
              \E t \in B!Built(h.times) : t <= e.h.close
<1>1. h \in Histories /\ InPlace(h) /\ Ordered(h) /\ SomeBuilt(h)
  BY DEF GoodHistory
<1>. DEFINE used == Cardinality({i \in B!Slots : h.times[i] # 0})
            above(xm) == {t \in B!Built(h.times) : t >= xm}
            guesses(xm) == {q \in (xm .. IntMax) \X (xm .. IntMax) : q[1] <= q[2]}
            fixed == \A t \in B!Built(h.times) : B!Midpoint(t) = t
<1>2. used = h.total
  BY <1>1, UsedSlots
<1>3. h.total \in Nat /\ MinCircs \in Nat /\ IntMax \in Nat
  BY <1>1, TimesConstants DEF Histories
<1>4. CASE h.total < MinCircs
  <2>1. e = [h |-> h, fault |-> {}]
    BY <1>4 DEF B!Estimates
  <2> QED
    BY <1>3, <1>4, <2>1
<1>5. CASE ~(h.total < MinCircs)
  <2>1. B!Built(h.times) # {}
    BY <1>1, <1>3, <1>5 DEF SomeBuilt
  <2>2. PICK xm \in B!Xms(h.times) :
          e \in IF above(xm) = {} THEN {[h |-> h, fault |-> {}]}
                ELSE {[h |-> B!Floored(B!Capped(h, q[1], q[2])), fault |-> {}] : q \in guesses(xm)}
    BY <1>2, <1>5, <2>1, SameCounting DEF B!Estimates
  <2>3. /\ xm \in Nat /\ B!Longest(h.times) \in Nat
        /\ \A t \in B!Built(h.times) : t \in Nat /\ t <= B!Longest(h.times)
        /\ fixed => (\E t \in B!Built(h.times) : t >= xm) /\ (\E t \in B!Built(h.times) : t <= xm)
    BY <1>1, <2>1, TimesBetween
  <2>4. CASE above(xm) = {}
    <3>1. e.h = h /\ e.fault = {}
      BY <2>2, <2>4
    <3>2. ~fixed
      BY <2>3, <2>4
    <3> QED
      BY <3>1, <3>2
  <2>5. CASE above(xm) # {}
    <3>1. PICK q \in guesses(xm) : e = [h |-> B!Floored(B!Capped(h, q[1], q[2])), fault |-> {}]
      BY <2>2, <2>5
    <3>2. q[1] \in Nat /\ q[2] \in Nat /\ q[1] <= q[2] /\ xm <= q[2]
      BY <1>3, <2>3
    <3>. DEFINE a == q[1]
                c == q[2]
                g == B!Floored(B!Capped(h, a, c))
    <3>3. e.h = g /\ e.fault = {}
      BY <3>1
    <3>. HIDE DEF a, c, g
    <3>4. a \in Nat /\ c \in Nat /\ a <= c /\ xm <= c
      BY <3>2 DEF a, c
    <3>5. /\ g \in Histories /\ g.times = h.times /\ g.total = h.total /\ g.idx = h.idx /\ Ordered(g)
          /\ \A b \in Nat : b <= c /\ b <= B!Longest(h.times) => b <= g.close
      <4>1. ASSUME NEW b \in Nat, b <= c, b <= B!Longest(h.times)
            PROVE  /\ g \in Histories /\ g.times = h.times /\ g.total = h.total /\ g.idx = h.idx
                   /\ Ordered(g) /\ b <= g.close
        BY <1>1, <2>3, <3>4, <4>1, CappedIs DEF g
      <4>2. 0 \in Nat /\ 0 <= c /\ 0 <= B!Longest(h.times)
        BY <2>3, <3>4
      <4> QED
        BY <4>1, <4>2
    <3>6. GoodHistory(g)
      BY <1>1, <3>5 DEF GoodHistory, InPlace, SomeBuilt
    <3>7. fixed => \E t \in B!Built(h.times) : t <= g.close
      <4>1. ASSUME fixed PROVE \E t \in B!Built(h.times) : t <= g.close
        <5>1. PICK t \in B!Built(h.times) : t <= xm
          BY <2>3, <4>1
        <5>2. t \in Nat /\ t <= c /\ t <= B!Longest(h.times)
          BY <2>3, <3>4, <5>1
        <5> QED
          BY <3>5, <5>2
      <4> QED
        BY <4>1
    <3> QED
      BY <3>3, <3>5, <3>6, <3>7
  <2> QED
    BY <2>4, <2>5
<1> QED
  BY <1>4, <1>5
-----------------------------------------------------------------------------
(* The state file. *)

LEMMA CountIs ==
  ASSUME B!TimesAssumption, NEW P
  PROVE  /\ B!Count(P) \in Nat
         /\ B!Count(P) = 0 <=> \A i \in B!Slots : ~P[i]
<1>. DEFINE S == {i \in B!Slots : P[i]}
<1>1. IsFiniteSet(B!Slots)
  <2>1. N \in Nat
    BY TimesConstants
  <2>2. 0 \in Int /\ N - 1 \in Int
    BY <2>1
  <2> QED
    BY <2>2, FS_Interval DEF B!Slots
<1>2. IsFiniteSet(S)
  BY <1>1, FS_Subset
<1> QED
  BY <1>2, FS_CardinalityType, FS_EmptySet, SameCounting DEF B!Count

LEMMA SameCount ==
  ASSUME NEW P, NEW Q, \A i \in B!Slots : P[i] <=> Q[i]
  PROVE  B!Count(P) = B!Count(Q)
<1>1. {i \in B!Slots : P[i]} = {i \in B!Slots : Q[i]}
  OBVIOUS
<1> QED
  BY <1>1 DEF B!Count

\* A history from a file that was written of a good one is good; its times are
\* midpoints, and there is a time in it if there was one.
LEMMA LoadedGood ==
  ASSUME B!TimesAssumption, GoodHistory(B!Now), NEW h \in B!Loaded(B!Saved)
  PROVE  GoodHistory(h) /\ \A t \in B!Built(h.times) : B!Midpoint(t) = t
<1>. DEFINE D == {B!Midpoint(t) : t \in B!Built(times)}
            bins == [b \in D |-> B!Count([i \in B!Slots |-> times[i] \in B!Built(times) /\ B!Midpoint(times[i]) = b])]
            gone == B!Count([i \in B!Slots |-> times[i] = B!Abandoned])
<1>1. /\ B!Now \in Histories /\ InPlace(B!Now) /\ Ordered(B!Now) /\ SomeBuilt(B!Now)
      /\ B!Now.times = times /\ B!Now.total = total
  BY DEF GoodHistory, B!Now
<1>2. /\ total \in 0 .. N /\ N \in Nat /\ N > 0 /\ InitialTimeout \in Nat /\ MinTimeout \in Nat
      /\ MinTimeout <= InitialTimeout /\ MinCircs \in Nat
  BY <1>1, TimesConstants DEF Histories
<1>3. B!Built(times) \subseteq Observed
  BY <1>1, HistoryIs
<1>4. D \subseteq Observed /\ \A b \in D : B!Midpoint(b) = b
  <2>1. \A t \in B!Built(times) : t \in Nat
    BY <1>3, ObservedAre, TimesConstants
  <2> QED
    BY <1>3, <2>1, ObservedAre, Midpoints
<1>5. DOMAIN B!Saved.bins = D /\ B!Saved.total = total /\ \A b \in D : B!Saved.bins[b] = bins[b]
  BY DEF B!Saved
<1>6. PICK ts \in [B!Slots -> D \cup {0, B!Abandoned}] :
        /\ \A i \in B!Slots : (ts[i] # 0) = (i < total)
        /\ \A b \in D : B!Count([i \in B!Slots |-> ts[i] = b]) = bins[b]
        /\ h = [times |-> ts, total |-> total, idx |-> total % N,
                timeout |-> InitialTimeout, close |-> InitialTimeout]
  BY <1>5 DEF B!Loaded
<1>7. total % N \in B!Slots /\ (total < N => total % N = total)
  BY <1>2, Turns
<1>. HIDE DEF bins
<1>8. ts \in [B!Slots -> Observed \cup {0, B!Abandoned}]
  <2>. HIDE DEF D
  <2> QED
    BY <1>4, <1>6
<1>9. h \in Histories
  BY <1>2, <1>6, <1>7, <1>8 DEF Histories
<1>10. /\ h.times = ts /\ h.total = total /\ h.idx = total % N
       /\ h.timeout = InitialTimeout /\ h.close = InitialTimeout
  BY <1>6
<1>11. InPlace(h) /\ Ordered(h)
  BY <1>2, <1>6, <1>7, <1>10 DEF InPlace, Ordered
<1>12. B!Built(ts) \subseteq D
  <2>. HIDE DEF D
  <2> QED
    BY <1>6 DEF B!Built
<1>13. SomeBuilt(h)
  <2>1. SUFFICES ASSUME total >= MinCircs PROVE B!Built(ts) # {}
    BY <1>10 DEF SomeBuilt
  <2>2. PICK t \in B!Built(times) : TRUE
    BY <1>1, <2>1 DEF SomeBuilt
  <2>. DEFINE b == B!Midpoint(t)
  <2>3. b \in D
    OBVIOUS
  <2>4. PICK j \in B!Slots : times[j] = t
    BY DEF B!Built
  <2>5. bins[b] # 0
    <3>. DEFINE P == [i \in B!Slots |-> times[i] \in B!Built(times) /\ B!Midpoint(times[i]) = b]
    <3>1. P[j] /\ bins[b] = B!Count(P)
      BY <2>3, <2>4 DEF bins
    <3>. HIDE DEF P
    <3> QED
      BY <3>1, CountIs
  <2>6. PICK k \in B!Slots : ts[k] = b
    <3>. DEFINE P == [i \in B!Slots |-> ts[i] = b]
    <3>1. B!Count(P) # 0
      BY <1>6, <2>3, <2>5
    <3>2. \E k \in B!Slots : P[k]
      <4>. HIDE DEF P
      <4> QED
        BY <3>1, CountIs
    <3> QED
      BY <3>2
  <2>7. b \in Observed
    BY <1>4, <2>3
  <2> QED
    BY <2>6, <2>7, ObservedAre DEF B!Built
<1> QED
  BY <1>4, <1>9, <1>10, <1>11, <1>12, <1>13 DEF GoodHistory

\* What was written can be read.
LEMMA FileRead ==
  ASSUME B!TimesAssumption, GoodHistory(B!Now)
  PROVE  B!FileSound
<1>. DEFINE D == {B!Midpoint(t) : t \in B!Built(times)}
            ts == [i \in B!Slots |-> IF times[i] \in B!Built(times) THEN B!Midpoint(times[i]) ELSE times[i]]
            in(t) == B!Count([i \in B!Slots |-> ts[i] = t])
<1>1. B!Now \in Histories /\ InPlace(B!Now) /\ B!Now.times = times /\ B!Now.total = total
  BY DEF GoodHistory, B!Now
<1>2. /\ B!Built(times) \subseteq Observed
      /\ \A i \in B!Slots : times[i] = 0 \/ times[i] = B!Abandoned \/ times[i] \in B!Built(times)
  BY <1>1, HistoryIs
<1>3. /\ \A t \in B!Built(times) : B!Midpoint(t) \in Observed
      /\ \A b \in D : b # 0 /\ b # B!Abandoned
      /\ 0 \notin B!Built(times) /\ B!Abandoned \notin B!Built(times) /\ B!Abandoned # 0
  BY <1>2, ObservedAre
<1>4. ts \in [B!Slots -> D \cup {0, B!Abandoned}]
  BY <1>2
<1>5. \A i \in B!Slots : (ts[i] # 0) = (i < total)
  <2>1. \A i \in B!Slots : ts[i] # 0 <=> times[i] # 0
    BY <1>2, <1>3, ObservedAre
  <2>. HIDE DEF ts
  <2> QED
    BY <1>1, <2>1 DEF InPlace
<1>6. ASSUME NEW b \in D
      PROVE  in(b) = B!Count([i \in B!Slots |-> times[i] \in B!Built(times) /\ B!Midpoint(times[i]) = b])
  <2>1. \A i \in B!Slots : ts[i] = b <=> times[i] \in B!Built(times) /\ B!Midpoint(times[i]) = b
    BY <1>2, <1>3
  <2>. DEFINE P == [i \in B!Slots |-> ts[i] = b]
              Q == [i \in B!Slots |-> times[i] \in B!Built(times) /\ B!Midpoint(times[i]) = b]
  <2>. HIDE DEF ts
  <2>2. \A i \in B!Slots : P[i] <=> Q[i]
    BY <2>1
  <2>. HIDE DEF P, Q
  <2>3. B!Count(P) = B!Count(Q)
    BY <2>2, SameCount
  <2> QED
    BY <2>3 DEF P, Q
<1>7. in(B!Abandoned) = B!Count([i \in B!Slots |-> times[i] = B!Abandoned])
  <2>1. \A i \in B!Slots : ts[i] = B!Abandoned <=> times[i] = B!Abandoned
    BY <1>2, <1>3, ObservedAre
  <2>. DEFINE P == [i \in B!Slots |-> ts[i] = B!Abandoned]
              Q == [i \in B!Slots |-> times[i] = B!Abandoned]
  <2>. HIDE DEF ts
  <2>2. \A i \in B!Slots : P[i] <=> Q[i]
    BY <2>1
  <2>. HIDE DEF P, Q
  <2>3. B!Count(P) = B!Count(Q)
    BY <2>2, SameCount
  <2> QED
    BY <2>3 DEF P, Q
<1>8. /\ DOMAIN B!Saved.bins = D /\ B!Saved.total = total
      /\ \A b \in D : B!Saved.bins[b] = B!Count([i \in B!Slots |-> times[i] \in B!Built(times) /\ B!Midpoint(times[i]) = b])
      /\ B!Saved.abandoned = B!Count([i \in B!Slots |-> times[i] = B!Abandoned])
  BY DEF B!Saved
<1>. HIDE DEF ts, D
<1>9. [times |-> ts, total |-> total, idx |-> total % N,
       timeout |-> InitialTimeout, close |-> InitialTimeout] \in B!Loaded(B!Saved)
  BY <1>4, <1>5, <1>6, <1>7, <1>8 DEF B!Loaded
<1> QED
  BY <1>9 DEF B!FileSound

\* Taking the times beyond the timeout for abandoned leaves one, when the
\* timeout was estimated from midpoints.
LEMMA FilteredGood ==
  ASSUME B!TimesAssumption, NEW h, GoodHistory(h),
         h.total >= MinCircs => \E t \in B!Built(h.times) : t <= h.close
  PROVE  GoodHistory(B!Filtered(h))
<1>. DEFINE ts == [i \in B!Slots |-> IF h.times[i] > h.close THEN B!Abandoned ELSE h.times[i]]
            g == [h EXCEPT !.times = ts]
<1>1. h \in Histories /\ InPlace(h) /\ Ordered(h) /\ SomeBuilt(h)
  BY DEF GoodHistory
<1>2. /\ h.times \in [B!Slots -> Observed \cup {0, B!Abandoned}] /\ h.close \in Nat
      /\ \A t \in Observed : t \in Nat /\ t # 0 /\ t # B!Abandoned
  BY <1>1, ObservedAre, TimesConstants DEF Histories
<1>3. B!Abandoned # 0 /\ B!Abandoned \in Nat
  BY TimesConstants, ObservedAre
<1>4. ts \in [B!Slots -> Observed \cup {0, B!Abandoned}]
  BY <1>2
<1>5. \A i \in B!Slots : ts[i] # 0 <=> h.times[i] # 0
  BY <1>2, <1>3
<1>6. \A t \in B!Built(h.times) : t <= h.close => t \in B!Built(ts)
  <2> TAKE t \in B!Built(h.times)
  <2> HAVE t <= h.close
  <2>1. PICK i \in B!Slots : h.times[i] = t
    BY DEF B!Built
  <2>2. t \in Nat
    BY <1>1, <1>2, HistoryIs
  <2>3. ts[i] = t
    BY <1>2, <2>1, <2>2
  <2> QED
    BY <2>1, <2>3 DEF B!Built
<1>. HIDE DEF ts
<1>7. /\ g \in Histories /\ g.times = ts /\ g.total = h.total /\ g.idx = h.idx
      /\ g.timeout = h.timeout /\ g.close = h.close
  BY <1>1, <1>4 DEF Histories
<1>. HIDE DEF g
<1>8. GoodHistory(g)
  BY <1>1, <1>5, <1>6, <1>7 DEF GoodHistory, InPlace, Ordered, SomeBuilt
<1> QED
  BY <1>8 DEF B!Filtered, g, ts
-----------------------------------------------------------------------------
(* What the steps are made of. *)

LEMMA BecomesGood ==
  ASSUME NEW h, GoodHistory(h), B!Becomes(h)
  PROVE  GoodHistory(B!Now)'
<1>1. h \in Histories
  BY DEF GoodHistory
<1>2. h = [times |-> h.times, total |-> h.total, idx |-> h.idx, timeout |-> h.timeout, close |-> h.close]
  BY <1>1 DEF Histories
<1>3. B!Now' = h
  BY <1>2 DEF B!Becomes, B!Now
<1> QED
  BY <1>3 DEF GoodHistory, Histories, InPlace, Ordered, SomeBuilt

LEMMA KeptGood ==
  ASSUME GoodHistory(B!Now), UNCHANGED B!learnt
  PROVE  GoodHistory(B!Now)'
BY DEF GoodHistory, Histories, InPlace, Ordered, SomeBuilt, B!Now, B!learnt

\* A time or an abandoned circuit that is added keeps the history in order, if
\* some time stays in it.
LEMMA AddedGood ==
  ASSUME B!TimesAssumption, NEW h, GoodHistory(h), NEW t \in (0 .. MaxTime) \cup {B!Abandoned},
         t = B!Abandoned => B!Built([h.times EXCEPT ![h.idx] = 0]) # {}
  PROVE  GoodHistory(B!Added(h, t))
<1>. DEFINE ts == [h.times EXCEPT ![h.idx] = t]
            next == (h.idx + 1) % N
            sum == B!Smaller(h.total + 1, N)
            g == [h EXCEPT !.times = ts, !.idx = next, !.total = sum]
<1>1. h \in Histories /\ InPlace(h) /\ Ordered(h)
  BY DEF GoodHistory
<1>2. N \in Nat /\ N > 0 /\ MaxTime \in Nat /\ MinCircs \in Nat
  BY TimesConstants
<1>3. CASE t = 0
  BY <1>3 DEF B!Added
<1>4. CASE t # 0
  <2>1. /\ h.times \in [B!Slots -> Observed \cup {0, B!Abandoned}] /\ h.idx \in B!Slots
        /\ h.total \in 0 .. N /\ h.idx \in Nat /\ h.total \in Nat
    BY <1>1, <1>2 DEF Histories, B!Slots
  <2>2. t = B!Abandoned \/ t \in Observed
    BY <1>2, <1>4 DEF Observed
  <2>3. ts \in [B!Slots -> Observed \cup {0, B!Abandoned}]
    BY <2>1, <2>2
  <2>4. next \in B!Slots /\ (h.idx + 1 < N => next = h.idx + 1)
    BY <1>2, <2>1, Turns
  <2>5. sum \in 0 .. N /\ (h.total < N => sum = h.total + 1) /\ (h.total = N => sum = N)
    BY <1>2, <2>1 DEF B!Smaller
  <2>6. \A i \in B!Slots : ts[i] # 0 <=> i = h.idx \/ h.times[i] # 0
    BY <1>4, <2>1
  <2>7. B!Built(ts) # {}
    <3>1. CASE t = B!Abandoned
      <4>. DEFINE zs == [h.times EXCEPT ![h.idx] = 0]
      <4>1. PICK x \in B!Built(zs) : TRUE
        BY <3>1
      <4>2. PICK i \in B!Slots : zs[i] = x /\ x # 0 /\ x # B!Abandoned
        BY DEF B!Built
      <4>3. ts[i] = x
        BY <2>1, <4>2
      <4>. HIDE DEF ts
      <4> QED
        BY <4>2, <4>3 DEF B!Built
    <3>2. CASE t # B!Abandoned
      <4>1. ts[h.idx] = t
        BY <2>1
      <4>. HIDE DEF ts
      <4> QED
        BY <1>4, <2>1, <3>2, <4>1 DEF B!Built
    <3> QED
      BY <3>1, <3>2
  <2>8. B!Added(h, t) = g
    BY <1>4 DEF B!Added
  <2>. HIDE DEF ts, next, sum
  <2>9. /\ g \in Histories /\ g.times = ts /\ g.total = sum /\ g.idx = next
        /\ g.timeout = h.timeout /\ g.close = h.close
    BY <1>1, <2>3, <2>4, <2>5 DEF Histories
  <2>10. /\ \A i \in B!Slots : i \in Nat /\ i < N
         /\ \A i \in B!Slots : h.times[i] # 0 <=> i < h.total
         /\ h.total < N => h.idx = h.total
    BY <1>1, <1>2 DEF InPlace, B!Slots
  <2>11. InPlace(g)
    <3>1. \A i \in B!Slots : ts[i] # 0 <=> i < sum
      <4> TAKE i \in B!Slots
      <4>1. CASE h.total < N
        <5>1. h.idx = h.total /\ sum = h.total + 1
          BY <2>5, <2>10, <4>1
        <5>2. i \in Nat /\ (h.times[i] # 0 <=> i < h.total) /\ (ts[i] # 0 <=> i = h.idx \/ h.times[i] # 0)
          BY <2>6, <2>10
        <5> QED
          BY <2>1, <5>1, <5>2
      <4>2. CASE ~(h.total < N)
        <5>1. h.total = N /\ sum = N
          BY <1>2, <2>1, <2>5, <4>2
        <5> QED
          BY <1>2, <2>6, <2>10, <5>1
      <4> QED
        BY <4>1, <4>2
    <3>2. sum < N => next = sum
      BY <1>2, <2>1, <2>4, <2>5, <2>10
    <3> QED
      BY <2>9, <3>1, <3>2 DEF InPlace
  <2>12. Ordered(g) /\ SomeBuilt(g)
    BY <1>1, <2>7, <2>9 DEF Ordered, SomeBuilt
  <2> QED
    BY <2>8, <2>9, <2>11, <2>12 DEF GoodHistory
<1> QED
  BY <1>3, <1>4

LEMMA LearnGood ==
  ASSUME B!TimesAssumption, NEW h, GoodHistory(h), B!Learn(h), faults = {}
  PROVE  GoodHistory(B!Now)' /\ faults' = {}
<1>1. PICK e \in IF B!Disabled THEN {[h |-> h, fault |-> {}]} ELSE B!Estimates(h) :
        B!Becomes(e.h) /\ faults' = faults \cup e.fault
  BY DEF B!Learn
<1>2. GoodHistory(e.h) /\ e.fault = {}
  BY <1>1, EstimatesGood
<1>3. GoodHistory(B!Now)'
  BY <1>1, <1>2, BecomesGood
<1> QED
  BY <1>1, <1>2, <1>3

\* The history keeps its order when the timeouts are set anew.
LEMMA SetAnewGood ==
  ASSUME GoodHistory(B!Now), UNCHANGED <<times, idx, total>>,
         timeout' \in Nat, close' \in Nat, MinTimeout <= timeout', timeout' <= close'
  PROVE  GoodHistory(B!Now)'
<1>. DEFINE h == B!Now
            g == B!Now'
<1>1. /\ h \in Histories /\ InPlace(h) /\ SomeBuilt(h)
      /\ h.times = times /\ h.idx = idx /\ h.total = total
  BY DEF GoodHistory, B!Now
<1>2. /\ g.times = times /\ g.idx = idx /\ g.total = total /\ g.timeout = timeout' /\ g.close = close'
      /\ g = [times |-> times, total |-> total, idx |-> idx, timeout |-> timeout', close |-> close']
  BY DEF B!Now
<1>3. g \in Histories
  BY <1>1, <1>2 DEF Histories
<1>4. InPlace(g) /\ Ordered(g) /\ SomeBuilt(g)
  BY <1>1, <1>2 DEF InPlace, Ordered, SomeBuilt
<1> QED
  BY <1>3, <1>4 DEF GoodHistory, Histories, InPlace, Ordered, SomeBuilt

LEMMA ForgottenGood ==
  ASSUME B!TimesAssumption, times' = B!NoTimes, idx' = 0, total' = 0,
         timeout' \in Nat, close' \in Nat, MinTimeout <= timeout', timeout' <= close'
  PROVE  GoodHistory(B!Now)'
<1>. DEFINE g == B!Now'
<1>1. N \in Nat /\ N > 0 /\ MinCircs \in Nat /\ MinCircs > 0
  BY TimesConstants
<1>2. 0 \in B!Slots /\ 0 \in 0 .. N /\ \A i \in B!Slots : i \in Nat
  BY <1>1 DEF B!Slots
<1>3. g.times = B!NoTimes /\ g.idx = 0 /\ g.total = 0 /\ g.timeout = timeout' /\ g.close = close'
  BY DEF B!Now
<1>4. g = [times |-> B!NoTimes, total |-> 0, idx |-> 0, timeout |-> timeout', close |-> close']
  BY DEF B!Now
<1>5. g \in Histories
  BY <1>2, <1>4 DEF Histories, B!NoTimes
<1>6. InPlace(g) /\ Ordered(g) /\ SomeBuilt(g)
  BY <1>1, <1>2, <1>3 DEF InPlace, Ordered, SomeBuilt, B!NoTimes
<1> QED
  BY <1>5, <1>6 DEF GoodHistory, Histories, InPlace, Ordered, SomeBuilt

LEMMA LongerOrdered ==
  ASSUME B!TimesAssumption, GoodHistory(B!Now), B!Longer
  PROVE  timeout' \in Nat /\ close' \in Nat /\ MinTimeout <= timeout' /\ timeout' <= close'
<1>1. timeout \in Nat /\ close \in Nat /\ MinTimeout <= timeout /\ timeout <= close
  BY DEF GoodHistory, Histories, Ordered, B!Now
<1>2. MinTimeout \in Nat /\ InitialTimeout \in Nat /\ IntMax \in Nat /\ MinTimeout <= InitialTimeout
  BY TimesConstants
<1> QED
  BY <1>1, <1>2 DEF B!Longer

LEMMA InitiallyGood ==
  ASSUME B!TimesAssumption, GoodHistory(B!Now), B!Initially
  PROVE  GoodHistory(B!Now)'
<1>1. MinTimeout \in Nat /\ InitialTimeout \in Nat /\ MinTimeout <= InitialTimeout
  BY TimesConstants
<1> QED
  BY <1>1, SetAnewGood DEF B!Initially
-----------------------------------------------------------------------------
(* The marks of recent timeouts. *)

LEMMA MarksCount ==
  ASSUME NEW r \in Seq(BOOLEAN)
  PROVE  /\ DOMAIN r = 1 .. Len(r) /\ Len(r) \in Nat
         /\ \A i \in DOMAIN r : r[i] \in BOOLEAN
         /\ IsFiniteSet(Marked(r)) /\ Cardinality(Marked(r)) \in Nat
<1>1. DOMAIN r = 1 .. Len(r) /\ Len(r) \in Nat /\ \A i \in DOMAIN r : r[i] \in BOOLEAN
  BY LenProperties, ElementOfSeq
<1>2. IsFiniteSet(DOMAIN r)
  <2>1. 1 \in Int /\ Len(r) \in Int
    BY <1>1
  <2> QED
    BY <1>1, <2>1, FS_Interval
<1>3. Marked(r) \in SUBSET (DOMAIN r)
  BY DEF Marked
<1>4. IsFiniteSet(Marked(r))
  BY <1>2, <1>3, FS_Subset
<1>5. Cardinality(Marked(r)) \in Nat
  BY <1>4, FS_CardinalityType
<1> QED
  BY <1>1, <1>4, <1>5

\* Marks that no other slot has make no more of them, and one slot more makes
\* one more at most.
LEMMA MoreMarks ==
  ASSUME NEW r \in Seq(BOOLEAN), NEW s \in Seq(BOOLEAN), NEW k,
         Marked(s) \subseteq Marked(r) \cup {k}
  PROVE  /\ Cardinality(Marked(s)) <= Cardinality(Marked(r)) + 1
         /\ Marked(s) \subseteq Marked(r) => Cardinality(Marked(s)) <= Cardinality(Marked(r))
<1>. DEFINE R == Marked(r)
            S == Marked(s)
<1>1. IsFiniteSet(R) /\ Cardinality(R) \in Nat /\ IsFiniteSet(S) /\ Cardinality(S) \in Nat
  BY MarksCount
<1>2. S \subseteq R \cup {k}
  OBVIOUS
<1>. HIDE DEF R, S
<1>3. IsFiniteSet(R \cup {k}) /\ Cardinality(R \cup {k}) <= Cardinality(R) + 1
  <2>. DEFINE m == Cardinality(R)
              p == Cardinality(R \cup {k})
  <2>1. IsFiniteSet(R \cup {k}) /\ p = (IF k \in R THEN m ELSE m + 1) /\ m \in Nat
    BY <1>1, FS_AddElement
  <2>. HIDE DEF m, p
  <2>2. p <= m + 1
    BY <2>1
  <2> QED
    BY <2>1, <2>2 DEF m, p
<1>4. Cardinality(S) <= Cardinality(R \cup {k})
  BY <1>2, <1>3, FS_Subset
<1>5. Cardinality(R \cup {k}) \in Nat
  BY <1>3, FS_CardinalityType
<1>6. S \subseteq R => Cardinality(S) <= Cardinality(R)
  BY <1>1, FS_Subset
<1> QED
  BY <1>1, <1>3, <1>4, <1>5, <1>6 DEF R, S

LEMMA FewerMarks ==
  ASSUME Struck, recent' \in Seq(BOOLEAN), Marked(recent') \subseteq Marked(recent), UNCHANGED strikes
  PROVE  Struck'
<1>1. recent \in Seq(BOOLEAN) /\ strikes \in 0 .. MaxTimeouts /\ Cardinality(Marked(recent)) <= strikes
  BY DEF Struck
<1>2. Cardinality(Marked(recent')) <= Cardinality(Marked(recent))
  BY <1>1, MoreMarks
<1>3. Cardinality(Marked(recent')) \in Nat /\ Cardinality(Marked(recent)) \in Nat
  BY <1>1, MarksCount
<1>4. Cardinality(Marked(recent')) <= strikes
  BY <1>1, <1>2, <1>3
<1> QED
  BY <1>1, <1>4 DEF Struck, Marked

LEMMA NotedRing ==
  ASSUME Struck, RingInPlace, NEW mark \in BOOLEAN, B!Noted(mark), UNCHANGED freed
  PROVE  /\ RingInPlace' /\ recent' \in Seq(BOOLEAN)
         /\ mark = FALSE => Marked(recent') \subseteq Marked(recent)
<1>1. recent \in Seq(BOOLEAN) /\ at \in Nat /\ freed \in Nat
  BY DEF Struck, RingInPlace
<1>2. CASE recent = <<>>
  BY <1>1, <1>2 DEF B!Noted, RingInPlace
<1>3. CASE recent # <<>>
  <2>. DEFINE r == [i \in DOMAIN recent |-> IF i = at + 1 THEN mark ELSE recent[i]]
              n == Len(recent)
  <2>1. /\ DOMAIN recent = 1 .. n /\ n \in Nat /\ \A i \in DOMAIN recent : recent[i] \in BOOLEAN
    BY <1>1, MarksCount
  <2>2. n > 0
    BY <1>1, <1>3, <2>1, EmptySeq
  <2>3. recent' = r /\ at' = (at + 1) % n
    BY <1>3 DEF B!Noted
  <2>4. r \in Seq(BOOLEAN) /\ Len(r) = n
    <3>1. r \in [1 .. n -> BOOLEAN]
      BY <2>1
    <3>. HIDE DEF r
    <3> QED
      BY <2>1, <3>1, LenProperties
  <2>5. mark = FALSE => Marked(r) \subseteq Marked(recent)
    BY <2>1 DEF Marked
  <2>. HIDE DEF r, n
  <2>6. (at + 1) % n \in Nat /\ (at + 1) % n < n
    BY <1>1, <2>1, <2>2
  <2>7. RingInPlace'
    BY <1>1, <2>3, <2>4, <2>6 DEF RingInPlace
  <2> QED
    BY <2>3, <2>4, <2>5, <2>7
<1> QED
  BY <1>2, <1>3

LEMMA KeptMarks ==
  ASSUME Struck, RingInPlace, UNCHANGED <<recent, at, freed, strikes>>
  PROVE  Struck' /\ RingInPlace'
BY DEF Struck, RingInPlace, Marked

LEMMA ClearedMarks ==
  ASSUME B!TimesAssumption, NEW D, NEW n \in Nat, D = 1 .. n
  PROVE  /\ [i \in D |-> FALSE] \in Seq(BOOLEAN)
         /\ Marked([i \in D |-> FALSE]) = {} /\ Cardinality(Marked([i \in D |-> FALSE])) = 0
<1>1. Marked([i \in D |-> FALSE]) = {}
  BY DEF Marked
<1>. DEFINE s == [i \in D |-> FALSE]
<1>2. s \in [1 .. n -> BOOLEAN]
  OBVIOUS
<1>. HIDE DEF s
<1>3. s \in Seq(BOOLEAN)
  BY <1>2
<1>4. Cardinality(Marked(s)) = 0
  BY <1>1, FS_EmptySet DEF s
<1> QED
  BY <1>1, <1>3, <1>4 DEF s

LEMMA NoMarks ==
  ASSUME B!TimesAssumption, strikes' = 0, NEW n \in Nat, NEW D, D = 1 .. n,
         recent' = [i \in D |-> FALSE]
  PROVE  Struck'
<1>1. MaxTimeouts \in Nat
  BY TimesConstants
<1>2. recent' \in Seq(BOOLEAN) /\ Cardinality(Marked(recent')) = 0
  BY ClearedMarks
<1> QED
  BY <1>1, <1>2 DEF Struck, Marked
-----------------------------------------------------------------------------
(* The steps. *)

LEMMA TimesParts ==
  ASSUME TimesInv
  PROVE  GoodHistory(B!Now) /\ Struck /\ Hears /\ RingInPlace /\ faults = {}
BY DEF TimesInv

LEMMA HistoryKept ==
  ASSUME TimesInv, UNCHANGED B!learnt
  PROVE  GoodHistory(B!Now)'
BY KeptGood DEF TimesInv

LEMMA TimesInit ==
  ASSUME B!TimesAssumption, B!Init
  PROVE  TimesInv
<1>1. /\ N \in Nat /\ N > 0 /\ InitialTimeout \in Nat /\ MinTimeout \in Nat /\ MinTimeout <= InitialTimeout
      /\ MaxTimeouts \in Nat /\ DefaultRecent \in Nat /\ MinCircs \in Nat /\ MinCircs > 0
  BY TimesConstants
<1>2. 0 \in B!Slots /\ 0 \in 0 .. N /\ \A i \in B!Slots : i \in Nat
  BY <1>1 DEF B!Slots
<1>3. GoodHistory(B!Now)
  <2>1. B!Now = [times |-> B!NoTimes, total |-> 0, idx |-> 0, timeout |-> InitialTimeout, close |-> InitialTimeout]
    BY DEF B!Init, B!Now
  <2>2. B!Now \in Histories
    BY <1>1, <1>2, <2>1 DEF Histories, B!NoTimes
  <2> QED
    BY <1>1, <1>2, <2>1, <2>2 DEF GoodHistory, InPlace, Ordered, SomeBuilt, B!NoTimes
<1>4. Struck
  <2>1. recent \in Seq(BOOLEAN) /\ Cardinality(Marked(recent)) = 0
    BY <1>1, ClearedMarks DEF B!Init, B!Cleared
  <2> QED
    BY <1>1, <2>1 DEF Struck, B!Init
<1> QED
  BY <1>3, <1>4 DEF TimesInv, B!Init, Hears, RingInPlace, Building, B!NoCircuit

LEMMA LiveHeard ==
  ASSUME NEW cs \in [Builds -> Building], B!IsLive(cs)
  PROVE  Hears'
BY DEF Hears, B!IsLive, Building

LEMMA StepLaunch ==
  ASSUME B!TimesAssumption, TimesInv, NEW c \in Builds, B!Launch(c)
  PROVE  TimesInv'
<1>1. GoodHistory(B!Now)' /\ Struck' /\ RingInPlace'
  BY HistoryKept, KeptMarks, TimesParts DEF B!Launch
<1>2. Hears'
  BY TimesParts DEF B!Launch, Hears, Building, B!NoCircuit
<1> QED
  BY <1>1, <1>2 DEF TimesInv, B!Launch

LEMMA StepAlive ==
  ASSUME B!TimesAssumption, TimesInv, B!Alive
  PROVE  TimesInv'
<1>1. GoodHistory(B!Now)' /\ Struck' /\ RingInPlace'
  BY HistoryKept, KeptMarks, TimesParts DEF B!Alive
<1>2. Hears'
  BY TimesParts, LiveHeard DEF B!Alive, Hears
<1> QED
  BY <1>1, <1>2 DEF TimesInv, B!Alive

LEMMA StepFirstHop ==
  ASSUME B!TimesAssumption, TimesInv, NEW c \in Builds, B!FirstHop(c)
  PROVE  TimesInv'
<1>1. GoodHistory(B!Now)' /\ Struck' /\ RingInPlace'
  BY HistoryKept, KeptMarks, TimesParts DEF B!FirstHop
<1>2. [build EXCEPT ![c].first = TRUE] \in [Builds -> Building]
  BY TimesParts DEF Hears, Building
<1>3. Hears'
  BY <1>2, LiveHeard DEF B!FirstHop
<1> QED
  BY <1>1, <1>3 DEF TimesInv, B!FirstHop

LEMMA StepComplete ==
  ASSUME B!TimesAssumption, TimesInv, NEW c \in Builds, NEW t \in 0 .. MaxTime, B!Complete(c, t)
  PROVE  TimesInv'
<1>1. [build EXCEPT ![c] = B!NoCircuit] \in [Builds -> Building]
  BY TimesParts DEF Hears, Building, B!NoCircuit
<1>2. Hears'
  BY <1>1, LiveHeard DEF B!Complete
<1>3. CASE t > 2 * close + 1 \/ B!Disabled
  <2>1. UNCHANGED <<B!learnt, recent, at, faults, freed, strikes>>
    BY <1>3 DEF B!Complete
  <2>2. GoodHistory(B!Now)' /\ Struck' /\ RingInPlace'
    BY <2>1, HistoryKept, KeptMarks, TimesParts
  <2> QED
    BY <1>2, <2>1, <2>2 DEF TimesInv
<1>4. CASE ~(t > 2 * close + 1 \/ B!Disabled)
  <2>1. B!Learn(B!Added(B!Now, t)) /\ (IF build[c].measured THEN UNCHANGED <<recent, at>> ELSE B!Noted(FALSE))
    BY <1>4 DEF B!Complete
  <2>2. UNCHANGED <<freed, strikes>>
    BY DEF B!Complete
  <2>3. t # B!Abandoned
    BY TimesConstants
  <2>4. GoodHistory(B!Added(B!Now, t))
    BY <2>3, AddedGood, TimesParts
  <2>5. GoodHistory(B!Now)' /\ faults' = {}
    BY <2>1, <2>4, LearnGood, TimesParts
  <2>6. Struck' /\ RingInPlace'
    <3>1. CASE build[c].measured
      BY <2>1, <2>2, <3>1, KeptMarks, TimesParts
    <3>2. CASE ~build[c].measured
      <4>1. B!Noted(FALSE)
        BY <2>1, <3>2
      <4>2. RingInPlace' /\ recent' \in Seq(BOOLEAN) /\ Marked(recent') \subseteq Marked(recent)
        BY <2>2, <4>1, NotedRing, TimesParts
      <4> QED
        BY <2>2, <4>2, FewerMarks, TimesParts
    <3> QED
      BY <3>1, <3>2
  <2> QED
    BY <1>2, <2>5, <2>6 DEF TimesInv
<1> QED
  BY <1>3, <1>4

\* A circuit that is given up made no hop since a time when nothing was heard.
LEMMA GivenUp ==
  ASSUME Hears, NEW c \in Builds, B!GiveUp(c), nonlive' \in BOOLEAN
  PROVE  Hears'
BY DEF Hears, B!GiveUp, Building, B!NoCircuit

\* The strikes are at least the marks, with the one that is about to be made.
LEMMA MarksStruck ==
  ASSUME B!TimesAssumption, Struck, RingInPlace, NEW first \in BOOLEAN,
         NEW r, r = IF first THEN [i \in DOMAIN recent |-> i = at + 1 \/ recent[i]] ELSE recent,
         NEW n, n = strikes + IF first /\ recent # <<>> THEN 1 ELSE 0
  PROVE  /\ r \in Seq(BOOLEAN) /\ Cardinality(Marked(r)) \in Nat /\ n \in Nat /\ Cardinality(Marked(r)) <= n
         /\ DOMAIN r = 1 .. Len(recent) /\ Len(recent) \in Nat
<1>1. /\ recent \in Seq(BOOLEAN) /\ strikes \in Nat /\ Cardinality(Marked(recent)) <= strikes
      /\ Cardinality(Marked(recent)) \in Nat /\ DOMAIN recent = 1 .. Len(recent) /\ Len(recent) \in Nat
      /\ \A i \in DOMAIN recent : recent[i] \in BOOLEAN
  BY TimesConstants, MarksCount DEF Struck
<1>2. CASE ~first
  BY <1>1, <1>2
<1>3. CASE first /\ recent = <<>>
  <2>1. r = recent
    BY <1>3
  <2> QED
    BY <1>1, <1>3, <2>1
<1>4. CASE first /\ recent # <<>>
  <2>1. r = [i \in DOMAIN recent |-> i = at + 1 \/ recent[i]] /\ n = strikes + 1
    BY <1>1, <1>4
  <2>2. r \in Seq(BOOLEAN) /\ DOMAIN r = DOMAIN recent
    <3>1. r \in [1 .. Len(recent) -> BOOLEAN]
      BY <1>1, <2>1
    <3> QED
      BY <1>1, <3>1
  <2>3. Marked(r) \subseteq Marked(recent) \cup {at + 1}
    BY <2>1 DEF Marked
  <2>4. Cardinality(Marked(r)) <= Cardinality(Marked(recent)) + 1 /\ Cardinality(Marked(r)) \in Nat
    BY <1>1, <2>2, <2>3, MoreMarks, MarksCount
  <2> QED
    BY <1>1, <2>1, <2>2, <2>4
<1> QED
  BY <1>2, <1>3, <1>4

LEMMA StepTooSlow ==
  ASSUME B!TimesAssumption, TimesInv, NEW c \in Builds, B!TooSlow(c)
  PROVE  TimesInv'
<1>. DEFINE first == build[c].first
            r == IF first THEN [i \in DOMAIN recent |-> i = at + 1 \/ recent[i]] ELSE recent
            n == strikes + IF first /\ recent # <<>> THEN 1 ELSE 0
<1>1. /\ IF B!Disabled THEN B!Initially /\ UNCHANGED <<recent, at, strikes, faults>>
         ELSE IF Cardinality(Marked(r)) >= MaxTimeouts THEN B!Forget(r, n)
         ELSE /\ IF first THEN B!Noted(TRUE) ELSE UNCHANGED <<recent, at>>
              /\ strikes' = B!Smaller(n, MaxTimeouts) /\ UNCHANGED <<B!learnt, faults>>
      /\ UNCHANGED <<nonlive, freed>> /\ build' = [build EXCEPT ![c].measured = TRUE]
  BY SameCounting DEF B!TooSlow, Marked
<1>2. Hears'
  BY <1>1, TimesParts DEF Hears, Building
<1>3. MaxTimeouts \in Nat /\ MaxTimeouts > 0
  BY TimesConstants
<1>4. first \in BOOLEAN
  BY TimesParts DEF Hears, Building
<1>5. /\ r \in Seq(BOOLEAN) /\ Cardinality(Marked(r)) \in Nat /\ n \in Nat /\ Cardinality(Marked(r)) <= n
      /\ DOMAIN r = 1 .. Len(recent) /\ Len(recent) \in Nat
  <2>. HIDE DEF first
  <2> QED
    BY <1>4, MarksStruck, TimesParts
<1>6. CASE B!Disabled
  <2>1. GoodHistory(B!Now)'
    BY <1>1, <1>6, InitiallyGood, TimesParts
  <2>2. UNCHANGED <<recent, at, freed, strikes, faults>>
    BY <1>1, <1>6
  <2>3. Struck' /\ RingInPlace'
    BY <2>2, KeptMarks, TimesParts
  <2> QED
    BY <1>2, <2>1, <2>2, <2>3 DEF TimesInv
<1>7. CASE ~B!Disabled /\ Cardinality(Marked(r)) >= MaxTimeouts
  <2>. HIDE DEF r, n
  <2>1. B!Forget(r, n)
    BY <1>1, <1>7
  <2>2. ~(n < MaxTimeouts)
    BY <1>3, <1>5, <1>7
  <2>3. faults' = {}
    BY <2>1, <2>2, TimesParts DEF B!Forget
  <2>4. timeout' \in Nat /\ close' \in Nat /\ MinTimeout <= timeout' /\ timeout' <= close'
    BY <2>1, LongerOrdered, TimesParts DEF B!Forget
  <2>5. GoodHistory(B!Now)'
    BY <2>1, <2>4, ForgottenGood DEF B!Forget
  <2>6. Struck'
    BY <1>5, <2>1, NoMarks DEF B!Forget
  <2>7. RingInPlace'
    BY <1>1, <2>1, TimesParts DEF B!Forget, RingInPlace
  <2> QED
    BY <1>2, <2>3, <2>5, <2>6, <2>7 DEF TimesInv
<1>8. CASE ~B!Disabled /\ ~(Cardinality(Marked(r)) >= MaxTimeouts)
  <2>1. /\ IF first THEN B!Noted(TRUE) ELSE UNCHANGED <<recent, at>>
        /\ strikes' = B!Smaller(n, MaxTimeouts) /\ UNCHANGED <<B!learnt, faults>>
    BY <1>1, <1>8
  <2>2. GoodHistory(B!Now)' /\ faults' = {}
    BY <2>1, HistoryKept, TimesParts
  <2>3. recent' = r /\ RingInPlace'
    <3>1. CASE first /\ recent # <<>>
      <4>1. B!Noted(TRUE)
        BY <2>1, <3>1
      <4>2. recent' = [i \in DOMAIN recent |-> IF i = at + 1 THEN TRUE ELSE recent[i]]
        BY <3>1, <4>1 DEF B!Noted
      <4>3. \A i \in DOMAIN recent : recent[i] \in BOOLEAN
        BY MarksCount, TimesParts DEF Struck
      <4>4. r = recent'
        BY <3>1, <4>2, <4>3
      <4> QED
        BY <1>1, <4>1, <4>4, NotedRing, TimesParts
    <3>2. CASE first /\ recent = <<>>
      <4>1. r = recent
        BY <3>2
      <4> QED
        BY <1>1, <2>1, <3>2, <4>1, TimesParts DEF B!Noted, RingInPlace
    <3>3. CASE ~first
      BY <1>1, <2>1, <3>3, TimesParts DEF RingInPlace
    <3> QED
      BY <3>1, <3>2, <3>3
  <2>. HIDE DEF r, n
  <2>4. Struck'
    <3>1. /\ strikes' \in 0 .. MaxTimeouts /\ Cardinality(Marked(recent')) <= strikes'
          /\ recent' \in Seq(BOOLEAN)
      BY <1>3, <1>5, <1>8, <2>1, <2>3 DEF B!Smaller
    <3> QED
      BY <3>1 DEF Struck, Marked
  <2> QED
    BY <1>2, <2>2, <2>3, <2>4 DEF TimesInv
<1> QED
  BY <1>6, <1>7, <1>8

LEMMA StepMuchTooSlow ==
  ASSUME B!TimesAssumption, TimesInv, NEW c \in Builds, B!MuchTooSlow(c)
  PROVE  TimesInv'
<1>1. /\ Struck' /\ RingInPlace'
  BY KeptMarks, TimesParts DEF B!MuchTooSlow
<1>2. B!GiveUp(c) /\ Hears
  BY TimesParts DEF B!MuchTooSlow
<1>3. CASE B!Disabled
  <2>1. B!Initially /\ UNCHANGED <<nonlive, faults>>
    BY <1>3 DEF B!MuchTooSlow
  <2>2. GoodHistory(B!Now)'
    BY <2>1, InitiallyGood, TimesParts
  <2>3. Hears'
    BY <1>2, <2>1, GivenUp DEF Hears
  <2> QED
    BY <1>1, <2>1, <2>2, <2>3 DEF TimesInv
<1>4. CASE ~B!Disabled
  <2>1. /\ nonlive' = (nonlive \/ build[c].quiet) /\ UNCHANGED B!learnt
        /\ faults' = faults \cup IF build[c].quiet /\ build[c].first THEN {"somehow"} ELSE {}
    BY <1>4 DEF B!MuchTooSlow
  <2>2. GoodHistory(B!Now)'
    BY <2>1, HistoryKept
  <2>3. nonlive' \in BOOLEAN
    BY <1>2, <2>1 DEF Hears, Building
  <2>4. Hears'
    BY <1>2, <2>3, GivenUp
  <2>5. faults' = {}
    BY <1>2, <2>1, TimesParts DEF Hears
  <2> QED
    BY <1>1, <2>2, <2>4, <2>5 DEF TimesInv
<1> QED
  BY <1>3, <1>4

LEMMA StepAbandon ==
  ASSUME B!TimesAssumption, TimesInv, ~AllMayFail, NEW c \in Builds, B!Abandon(c)
  PROVE  TimesInv'
<1>1. /\ Struck' /\ RingInPlace'
  BY KeptMarks, TimesParts DEF B!Abandon
<1>2. Hears'
  BY GivenUp, TimesParts DEF B!Abandon, Hears
<1>3. B!Now.times = times /\ B!Now.idx = idx
  BY DEF B!Now
<1>4. B!Built([times EXCEPT ![idx] = 0]) # {} /\ B!Learn(B!Added(B!Now, B!Abandoned))
  BY DEF B!Abandon
<1>5. GoodHistory(B!Added(B!Now, B!Abandoned))
  BY <1>3, <1>4, AddedGood, TimesParts
<1>6. GoodHistory(B!Now)' /\ faults' = {}
  BY <1>4, <1>5, LearnGood, TimesParts
<1> QED
  BY <1>1, <1>2, <1>6 DEF TimesInv

LEMMA StepClockJumped ==
  ASSUME B!TimesAssumption, TimesInv, NEW c \in Builds, B!ClockJumped(c)
  PROVE  TimesInv'
<1>1. GoodHistory(B!Now)' /\ Struck' /\ RingInPlace'
  BY HistoryKept, KeptMarks, TimesParts DEF B!ClockJumped
<1>2. Hears'
  BY GivenUp, TimesParts DEF B!ClockJumped, Hears
<1> QED
  BY <1>1, <1>2 DEF TimesInv, B!ClockJumped

LEMMA StepNewConsensus ==
  ASSUME B!TimesAssumption, TimesInv, NEW num \in RecentCounts, NEW disable \in BOOLEAN,
         B!NewConsensus(num, disable)
  PROVE  TimesInv'
<1>1. GoodHistory(B!Now)' /\ Hears' /\ faults' = {}
  BY HistoryKept, TimesParts DEF B!NewConsensus, Hears
<1>2. num \in Nat /\ num > 0
  BY TimesConstants
<1>3. UNCHANGED strikes
  BY DEF B!NewConsensus
<1>. DEFINE n == Len(recent)
<1>4. /\ recent \in Seq(BOOLEAN) /\ at \in Nat /\ freed \in Nat /\ n \in Nat /\ DOMAIN recent = 1 .. n
      /\ at < n \/ at < freed \/ at = 0
      /\ \A i \in DOMAIN recent : recent[i] \in BOOLEAN
  BY TimesParts, MarksCount DEF Struck, RingInPlace
<1>5. CASE off' # {}
  <2>1. recent' = <<>> /\ freed' = B!Larger(freed, n) /\ UNCHANGED at
    BY <1>5 DEF B!NewConsensus
  <2>2. Marked(recent') \subseteq Marked(recent) /\ recent' \in Seq(BOOLEAN)
    BY <2>1 DEF Marked
  <2>3. Struck'
    BY <1>3, <2>2, FewerMarks, TimesParts
  <2>. HIDE DEF n
  <2>4. RingInPlace'
    BY <1>4, <2>1 DEF RingInPlace, B!Larger
  <2> QED
    BY <1>1, <2>3, <2>4 DEF TimesInv
<1>6. CASE off' = {}
  <2>. DEFINE r == [i \in 1 .. num |-> i <= n /\ recent[i]]
  <2>1. recent' = r /\ UNCHANGED freed /\ at' = (IF num < n THEN B!Smaller(num - 1, at) ELSE at)
    BY <1>6 DEF B!NewConsensus
  <2>2. r \in Seq(BOOLEAN) /\ Len(r) = num
    <3>1. r \in [1 .. num -> BOOLEAN]
      OBVIOUS
    <3>. HIDE DEF r
    <3> QED
      BY <1>2, <3>1, LenProperties
  <2>3. Marked(r) \subseteq Marked(recent)
    <3>1. ASSUME NEW i \in 1 .. num, i <= n PROVE i \in 1 .. n
      BY <1>2, <1>4, <3>1
    <3>2. ASSUME NEW i \in Marked(r) PROVE i \in 1 .. num /\ i <= n /\ recent[i]
      BY <3>2 DEF Marked
    <3> QED
      BY <1>4, <3>1, <3>2 DEF Marked
  <2>. HIDE DEF r
  <2>4. Struck'
    BY <1>3, <2>1, <2>2, <2>3, FewerMarks, TimesParts
  <2>. HIDE DEF n
  <2>5. RingInPlace'
    BY <1>2, <1>4, <2>1, <2>2 DEF RingInPlace, B!Smaller
  <2> QED
    BY <1>1, <2>4, <2>5 DEF TimesInv
<1> QED
  BY <1>5, <1>6

LEMMA StepKept ==
  ASSUME B!TimesAssumption, TimesInv, UNCHANGED <<B!learnt, nonlive, recent, at, build, freed, strikes, faults>>
  PROVE  TimesInv'
<1>1. GoodHistory(B!Now)' /\ Struck' /\ RingInPlace'
  BY HistoryKept, KeptMarks, TimesParts
<1> QED
  BY <1>1, TimesParts DEF TimesInv, Hears

LEMMA StepRestart ==
  ASSUME B!TimesAssumption, TimesInv, B!Restart
  PROVE  TimesInv'
<1>1. Hears'
  BY DEF B!Restart, Hears, Building, B!NoCircuit
<1>2. /\ at' = 0 /\ strikes' = 0 /\ freed' = 0
      /\ recent' = IF "config" \in off THEN <<>> ELSE B!Cleared
  BY DEF B!Restart
<1>3. DefaultRecent \in Nat /\ MaxTimeouts \in Nat
  BY TimesConstants
<1>4. RingInPlace'
  BY <1>2 DEF RingInPlace
<1>5. Struck'
  <2>1. CASE "config" \in off
    <3>1. recent' = <<>>
      BY <1>2, <2>1
    <3>2. Marked(recent') = {}
      BY <3>1 DEF Marked
    <3>3. recent' \in Seq(BOOLEAN) /\ Cardinality(Marked(recent')) = 0
      BY <3>1, <3>2, FS_EmptySet
    <3> QED
      BY <1>2, <1>3, <3>3 DEF Struck, Marked
  <2>2. CASE "config" \notin off
    BY <1>2, <1>3, <2>2, NoMarks DEF B!Cleared
  <2> QED
    BY <2>1, <2>2
<1>6. CASE "config" \in off \/ B!Loaded(B!Saved) = {}
  <2>1. /\ times' = B!NoTimes /\ idx' = 0 /\ total' = 0 /\ UNCHANGED faults
        /\ timeout' = InitialTimeout /\ close' = InitialTimeout
    BY <1>6 DEF B!Restart
  <2>2. InitialTimeout \in Nat /\ MinTimeout \in Nat /\ MinTimeout <= InitialTimeout
    BY TimesConstants
  <2>3. GoodHistory(B!Now)'
    BY <2>1, <2>2, ForgottenGood
  <2> QED
    BY <1>1, <1>4, <1>5, <2>1, <2>3, TimesParts DEF TimesInv
<1>7. CASE ~("config" \in off \/ B!Loaded(B!Saved) = {})
  <2>1. PICK h \in B!Loaded(B!Saved) : \E e \in B!Estimates(h) :
          B!Becomes(B!Filtered(e.h)) /\ faults' = faults \cup e.fault
    BY <1>7 DEF B!Restart
  <2>2. PICK e \in B!Estimates(h) : B!Becomes(B!Filtered(e.h)) /\ faults' = faults \cup e.fault
    BY <2>1
  <2>3. GoodHistory(h) /\ \A t \in B!Built(h.times) : B!Midpoint(t) = t
    BY LoadedGood, TimesParts
  <2>4. GoodHistory(e.h) /\ e.fault = {} /\ e.h.times = h.times /\ e.h.total = h.total
        /\ (h.total >= MinCircs => \E t \in B!Built(h.times) : t <= e.h.close)
    BY <2>3, EstimatesGood
  <2>5. GoodHistory(B!Filtered(e.h))
    BY <2>4, FilteredGood
  <2>6. GoodHistory(B!Now)' /\ faults' = {}
    BY <2>2, <2>4, <2>5, BecomesGood, TimesParts
  <2> QED
    BY <1>1, <1>4, <1>5, <2>6 DEF TimesInv
<1> QED
  BY <1>6, <1>7

LEMMA TimesStep ==
  ASSUME B!TimesAssumption, ~AllMayFail, TimesInv, [B!Next]_(B!vars)
  PROVE  TimesInv'
<1>1. CASE UNCHANGED B!vars
  BY <1>1, StepKept DEF B!vars
<1>2. CASE B!Next
  <2>1. ASSUME NEW c \in Builds, B!Launch(c) \/ B!FirstHop(c) \/ B!TooSlow(c)
        PROVE  TimesInv'
    BY <2>1, StepLaunch, StepFirstHop, StepTooSlow
  <2>2. ASSUME NEW c \in Builds, B!MuchTooSlow(c) \/ B!Abandon(c) \/ B!ClockJumped(c)
        PROVE  TimesInv'
    BY <2>2, StepMuchTooSlow, StepAbandon, StepClockJumped
  <2>3. ASSUME NEW c \in Builds, NEW t \in 0 .. MaxTime, B!Complete(c, t)
        PROVE  TimesInv'
    BY <2>3, StepComplete
  <2>4. CASE B!Alive
    BY <2>4, StepAlive
  <2>5. ASSUME NEW num \in RecentCounts, NEW disable \in BOOLEAN, B!NewConsensus(num, disable)
        PROVE  TimesInv'
    BY <2>5, StepNewConsensus
  <2>6. ASSUME NEW learn \in BOOLEAN, B!SetOption(learn)
        PROVE  TimesInv'
    BY <2>6, StepKept DEF B!SetOption
  <2>7. CASE B!Save \/ B!SaveFails
    BY <2>7, StepKept DEF B!Save, B!SaveFails
  <2>8. CASE B!Restart
    BY <2>8, StepRestart
  <2> QED
    BY <1>2, <2>1, <2>2, <2>3, <2>4, <2>5, <2>6, <2>7, <2>8 DEF B!Next
<1> QED
  BY <1>1, <1>2

LEMMA TimesInvSound ==
  ASSUME B!TimesAssumption, TimesInv
  PROVE  B!TimesSound
<1>1. B!Now \in Histories /\ InPlace(B!Now) /\ Ordered(B!Now)
  BY TimesParts DEF GoodHistory
<1>2. /\ B!Now.times = times /\ B!Now.total = total /\ B!Now.idx = idx /\ B!Now.timeout = timeout /\ B!Now.close = close
  BY DEF B!Now
<1>3. total \in 0 .. N /\ N \in Nat /\ (total < N => total % N = total)
  BY <1>1, <1>2, TimesConstants, Turns DEF Histories
<1>4. B!HistorySound
  BY <1>1, <1>2, <1>3 DEF B!HistorySound, InPlace
<1>5. B!FileSound
  BY FileRead, TimesParts
<1>6. B!TimeoutsOrdered
  BY <1>1, <1>2 DEF B!TimeoutsOrdered, Ordered
<1>7. B!RingInside
  <2>1. Len(recent) \in Nat /\ recent \in Seq(BOOLEAN)
    BY TimesParts, MarksCount DEF Struck
  <2>2. recent # <<>> => Len(recent) > 0
    BY <2>1, EmptySeq
  <2> QED
    BY <2>1, <2>2, TimesParts DEF RingInPlace, B!RingInside
<1> QED
  BY <1>4, <1>5, <1>6, <1>7, TimesParts DEF B!TimesSound, B!NoFaults

LEMMA AlwaysTimesInv ==
  ASSUME ~AllMayFail
  PROVE  SideSpec => []TimesInv
<1>1. SideInit => TimesInv
  BY LearningAssumption, TimesInit DEF SideInit
<1>2. TimesInv /\ [ToExits \/ ToService \/ BuildTimes]_<<side, vars, exits, learning>> => TimesInv'
  <2>1. SUFFICES ASSUME TimesInv, [ToExits \/ ToService \/ BuildTimes]_<<side, vars, exits, learning>>
                 PROVE  [B!Next]_(B!vars)
    BY LearningAssumption, TimesStep
  <2>2. CASE BuildTimes
    BY <2>2 DEF BuildTimes
  <2>3. CASE UNCHANGED learning
    BY <2>3 DEF learning, B!vars, B!learnt, B!world
  <2> QED
    BY <2>1, <2>2, <2>3 DEF ToExits, ToService
<1> QED
  BY <1>1, <1>2, PTL DEF SideSpec

\* circuitbuild.c: whatever the build times, the estimates, the consensus
\* parameters, the failures to write and the restarts, the history keeps its
\* order and can be read back, the timeouts are in order, the marks are in
\* their array unless it was freed, and nothing is forgotten early.  That some
\* circuit in each history was not abandoned is assumed.
THEOREM AlwaysTimesSound ==
  ASSUME ~AllMayFail
  PROVE  SideSpec => []TimesSound
<1>1. TimesInv => TimesSound
  BY LearningAssumption, TimesInvSound DEF TimesSound
<1> QED
  BY <1>1, AlwaysTimesInv, PTL
=============================================================================
