------------------------- MODULE OnionQueue_proofs -------------------------
(***************************************************************************)
(* For any number of circuits, tags and workers and any length of the      *)
(* list: the pool of CPU workers and the list of circuits that wait for    *)
(* one are sound, and nobody waits while a worker is idle, as long as no   *)
(* neighbour uses a circID again.                                          *)
(***************************************************************************)
EXTENDS OnionQueue, SequenceLemmas, FiniteSetTheorems

-----------------------------------------------------------------------------
(* The inductive invariant, of a relay as a record. *)

Relays ==
  [status : [Circuits -> {"new", "pending", "open", "gone"}],
   marked : [Circuits -> BOOLEAN], tag : [Circuits -> Tags \cup {Nil}],
   used : SUBSET Tags, queue : Seq(Circuits),
   mode : [Workers -> {"none", "idle", "busy"}], old : [Workers -> BOOLEAN],
   task : [Workers -> Circuits \cup {Nil}], asked : [Workers -> Tags \cup {Nil}],
   num : Int, busy : Int, answers : [Circuits -> SUBSET Circuits], sound : BOOLEAN]

Alive(r) == {w \in Workers : r.mode[w] # "none"}

\* A worker that has no task has none, and one that has was asked by a tag
\* that no circuit but the task's own has, or will have.
TaskOK(r, w) ==
  IF r.mode[w] # "busy" THEN r.task[w] = Nil
  ELSE /\ r.task[w] \in Circuits /\ r.asked[w] \in r.used
       /\ r.status[r.task[w]] # "new"
       /\ r.task[w] \notin ToSet(r.queue)
       /\ \A v \in Workers \ {w} : r.task[v] # r.task[w]
       /\ \A c \in Circuits : r.tag[c] = r.asked[w] => c = r.task[w]

PoolOK(r) ==
  /\ r.num = Cardinality(Alive(r)) /\ r.busy = Cardinality(In(r, "busy"))
  /\ \A w \in Workers : TaskOK(r, w) /\ (r.mode[w] = "idle" => ~r.old[w])

\* The list, where the circuits in X may have lost their connection.
ListBut(r, X) ==
  /\ IsInjective(r.queue)
  /\ \A c \in ToSet(r.queue) : /\ r.status[c] = "pending" /\ ~r.marked[c]
                               /\ r.tag[c] # Nil \/ c \in X
ListOK(r) == ListBut(r, {})

\* Tags are the circuits' own, and a circuit has none before its CREATE cell.
TagsOK(r) ==
  \A c \in Circuits :
    /\ r.tag[c] # Nil => r.tag[c] \in r.used /\ \A d \in Circuits \ {c} : r.tag[d] # r.tag[c]
    /\ r.status[c] = "new" => ~r.marked[c] /\ r.tag[c] = Nil

AnswersOK(r) == \A c \in Circuits : r.answers[c] \subseteq {c}

Good(r) ==
  r \in Relays /\ PoolOK(r) /\ ListOK(r) /\ TagsOK(r) /\ AnswersOK(r) /\ r.sound

\* In a quiet history all workers are there, and from after the last rotation;
\* and all of them are busy while a circuit waits.
Steady(r) == \A w \in Workers : r.mode[w] # "none" /\ ~r.old[w]
Loaded(r) == r.queue # <<>> => \A w \in Workers : r.mode[w] = "busy"

IInv ==
  /\ quiet \in BOOLEAN
  /\ Good(Relay)
  /\ quiet => Steady(Relay) /\ Loaded(Relay)

SameCircuits(u, r) ==
  /\ u.status = r.status /\ u.marked = r.marked /\ u.tag = r.tag /\ u.used = r.used
  /\ u.answers = r.answers /\ u.sound = r.sound

SamePool(u, r) ==
  /\ u.mode = r.mode /\ u.old = r.old /\ u.task = r.task /\ u.asked = r.asked
  /\ u.num = r.num /\ u.busy = r.busy
-----------------------------------------------------------------------------
(* The pool. *)

\* Sets of workers are finite.
LEMMA WorkersFinite ==
  ASSUME NEW W \in SUBSET Workers
  PROVE  IsFiniteSet(W) /\ Cardinality(W) \in Nat /\ Cardinality(W) <= Cardinality(Workers)
BY OnionAssumption, FS_Subset, FS_CardinalityType

\* The two counters, when the workers W go from one set to another.
LEMMA CountLess ==
  ASSUME NEW A \in SUBSET Workers, NEW W \in SUBSET Workers
  PROVE  Cardinality(A \ W) = Cardinality(A) - Cardinality(A \cap W)
BY WorkersFinite, FS_Difference

LEMMA CountMore ==
  ASSUME NEW A \in SUBSET Workers, NEW W \in SUBSET Workers, A \cap W = {}
  PROVE  Cardinality(A \cup W) = Cardinality(A) + Cardinality(W)
<1>1. Cardinality(A \cap W) = 0
  BY FS_EmptySet
<1>2. Cardinality(A \cup W) = Cardinality(A) + Cardinality(W) - Cardinality(A \cap W)
  BY WorkersFinite, FS_Union
<1> QED
  BY <1>1, <1>2, WorkersFinite

\* What marking worker connections for close does.
LEMMA ClosedFields ==
  ASSUME NEW r \in Relays, NEW W \in SUBSET Workers
  PROVE  LET u == Closed(r, W) IN
         /\ u \in Relays
         /\ u.mode = [w \in Workers |-> IF w \in W THEN "none" ELSE r.mode[w]]
         /\ u.task = [w \in Workers |-> IF w \in W THEN Nil ELSE r.task[w]]
         /\ u.asked = [w \in Workers |-> IF w \in W THEN Nil ELSE r.asked[w]]
         /\ u.num = r.num - Cardinality(W)
         /\ u.busy = r.busy /\ u.old = r.old /\ u.queue = r.queue /\ SameCircuits(u, r)
<1>. DEFINE m == [w \in Workers |-> IF w \in W THEN "none" ELSE r.mode[w]]
            t == [w \in Workers |-> IF w \in W THEN Nil ELSE r.task[w]]
            a == [w \in Workers |-> IF w \in W THEN Nil ELSE r.asked[w]]
            n == r.num - Cardinality(W)
            u == [r EXCEPT !.mode = m, !.task = t, !.asked = a, !.num = n]
<1>1. /\ m \in [Workers -> {"none", "idle", "busy"}] /\ t \in [Workers -> Circuits \cup {Nil}]
      /\ a \in [Workers -> Tags \cup {Nil}] /\ n \in Int
  BY WorkersFinite DEF Relays
<1>2. Closed(r, W) = u
  BY DEF Closed
<1>. HIDE DEF m, t, a, n
<1>3. u \in Relays
  BY <1>1 DEF Relays
<1>4. /\ u.mode = m /\ u.task = t /\ u.asked = a /\ u.num = n
      /\ u.busy = r.busy /\ u.old = r.old /\ u.queue = r.queue
  BY DEF Relays
<1>5. SameCircuits(u, r)
  BY DEF Relays, SameCircuits
<1>. HIDE DEF u
<1> QED
  BY <1>2, <1>3, <1>4, <1>5 DEF m, t, a, n

\* Workers are closed and the counters follow: nothing else is disturbed.
LEMMA CloseGood ==
  ASSUME NEW r, Good(r), NEW W \in SUBSET Alive(r), NEW u \in Relays,
         u.mode = [w \in Workers |-> IF w \in W THEN "none" ELSE r.mode[w]],
         u.task = [w \in Workers |-> IF w \in W THEN Nil ELSE r.task[w]],
         u.asked = [w \in Workers |-> IF w \in W THEN Nil ELSE r.asked[w]],
         u.num = r.num - Cardinality(W),
         u.busy = r.busy - Cardinality(In(r, "busy") \cap W),
         \A w \in Workers : u.mode[w] = "idle" => ~u.old[w],
         u.queue = r.queue, SameCircuits(u, r)
  PROVE  Good(u)
<1>1. W \in SUBSET Workers
  BY DEF Alive
<1>2. u.num = Cardinality(Alive(u))
  <2>1. Alive(u) = Alive(r) \ W /\ Alive(r) \in SUBSET Workers /\ Alive(r) \cap W = W
    BY DEF Alive
  <2>2. r.num = Cardinality(Alive(r))
    BY DEF Good, PoolOK
  <2> QED
    BY <1>1, <2>1, <2>2, CountLess
<1>3. u.busy = Cardinality(In(u, "busy"))
  <2>1. In(u, "busy") = In(r, "busy") \ W /\ In(r, "busy") \in SUBSET Workers
    BY DEF In
  <2>2. r.busy = Cardinality(In(r, "busy"))
    BY DEF Good, PoolOK
  <2> QED
    BY <1>1, <2>1, <2>2, CountLess
<1>4. ASSUME NEW w \in Workers PROVE TaskOK(u, w)
  <2>1. TaskOK(r, w)
    BY DEF Good, PoolOK
  <2>2. CASE w \in W
    BY <2>2 DEF TaskOK
  <2>3. CASE w \notin W /\ r.mode[w] # "busy"
    BY <2>1, <2>3 DEF TaskOK
  <2>4. CASE w \notin W /\ r.mode[w] = "busy"
    <3>1. /\ u.mode[w] = "busy" /\ u.task[w] = r.task[w] /\ u.asked[w] = r.asked[w]
          /\ \A v \in Workers : u.task[v] \in {r.task[v], Nil}
      BY <2>4
    <3>2. /\ r.task[w] \in Circuits /\ r.asked[w] \in r.used /\ r.status[r.task[w]] # "new"
          /\ r.task[w] \notin ToSet(r.queue)
          /\ \A v \in Workers \ {w} : r.task[v] # r.task[w]
          /\ \A c \in Circuits : r.tag[c] = r.asked[w] => c = r.task[w]
      BY <2>1, <2>4 DEF TaskOK
    <3>3. Nil # r.task[w]
      BY <3>2, OnionAssumption
    <3> QED
      BY <3>1, <3>2, <3>3 DEF TaskOK, SameCircuits
  <2> QED
    BY <2>2, <2>3, <2>4
<1>5. PoolOK(u)
  BY <1>2, <1>3, <1>4 DEF PoolOK
<1>6. ListOK(u) /\ TagsOK(u) /\ AnswersOK(u) /\ u.sound
  BY DEF Good, ListOK, ListBut, TagsOK, AnswersOK, SameCircuits
<1> QED
  BY <1>5, <1>6 DEF Good

\* New workers: they are idle and know the keys of now.
LEMMA SpawnGood ==
  ASSUME NEW r, Good(r), NEW u \in SpawnEnough(r)
  PROVE  /\ Good(u) /\ SameCircuits(u, r) /\ u.queue = r.queue /\ u.task = r.task
         /\ \A w \in Workers : /\ u.mode[w] = "busy" <=> r.mode[w] = "busy"
                               /\ r.mode[w] = "idle" => u.mode[w] = "idle"
         /\ Steady(r) => Steady(u) /\ u.mode = r.mode
<1>1. PICK W \in SUBSET In(r, "none") :
        u = [r EXCEPT !.mode = [w \in Workers |-> IF w \in W THEN "idle" ELSE r.mode[w]],
                      !.old = [w \in Workers |-> r.old[w] /\ w \notin W],
                      !.num = r.num + Cardinality(W)]
  BY DEF SpawnEnough
<1>2. W \in SUBSET Workers /\ Cardinality(W) \in Nat /\ r \in Relays
  BY WorkersFinite DEF In, Good
<1>3. /\ u \in Relays
      /\ u.mode = [w \in Workers |-> IF w \in W THEN "idle" ELSE r.mode[w]]
      /\ u.old = [w \in Workers |-> r.old[w] /\ w \notin W]
      /\ u.num = r.num + Cardinality(W)
      /\ u.task = r.task /\ u.asked = r.asked /\ u.busy = r.busy
      /\ u.queue = r.queue /\ SameCircuits(u, r)
  <2>. DEFINE m == [w \in Workers |-> IF w \in W THEN "idle" ELSE r.mode[w]]
              o == [w \in Workers |-> r.old[w] /\ w \notin W]
              n == r.num + Cardinality(W)
  <2>1. /\ m \in [Workers -> {"none", "idle", "busy"}] /\ o \in [Workers -> BOOLEAN]
        /\ n \in Int
    BY <1>2 DEF Relays
  <2>2. u = [r EXCEPT !.mode = m, !.old = o, !.num = n]
    BY <1>1
  <2>. HIDE DEF m, o, n
  <2>3. u \in Relays
    BY <1>2, <2>1, <2>2 DEF Relays
  <2>4. /\ u.mode = m /\ u.old = o /\ u.num = n /\ u.task = r.task /\ u.asked = r.asked
        /\ u.busy = r.busy /\ u.queue = r.queue
    BY <1>2, <2>2 DEF Relays
  <2>5. SameCircuits(u, r)
    BY <1>2, <2>2 DEF Relays, SameCircuits
  <2> QED
    BY <2>3, <2>4, <2>5 DEF m, o, n
<1>4. \A w \in W : r.mode[w] = "none"
  BY DEF In
<1>5. u.num = Cardinality(Alive(u))
  <2>1. Alive(u) = Alive(r) \cup W /\ Alive(r) \cap W = {} /\ Alive(r) \in SUBSET Workers
    BY <1>2, <1>3, <1>4 DEF Alive
  <2>2. r.num = Cardinality(Alive(r))
    BY DEF Good, PoolOK
  <2> QED
    BY <1>2, <1>3, <2>1, <2>2, CountMore
<1>6. u.busy = Cardinality(In(u, "busy"))
  <2>1. In(u, "busy") = In(r, "busy")
    BY <1>3, <1>4 DEF In
  <2> QED
    BY <1>3, <2>1 DEF Good, PoolOK
<1>7. ASSUME NEW w \in Workers PROVE TaskOK(u, w) /\ (u.mode[w] = "idle" => ~u.old[w])
  <2>1. TaskOK(r, w) /\ (r.mode[w] = "idle" => ~r.old[w])
    BY DEF Good, PoolOK
  <2>2. (u.mode[w] = "busy" <=> r.mode[w] = "busy") /\ (u.mode[w] = "idle" => ~u.old[w])
    BY <1>3, <1>4, <2>1
  <2> QED
    BY <1>3, <2>1, <2>2 DEF TaskOK, SameCircuits
<1>8. ListOK(u) /\ TagsOK(u) /\ AnswersOK(u) /\ u.sound
  BY <1>3 DEF Good, ListOK, ListBut, TagsOK, AnswersOK, SameCircuits
<1>9. Good(u)
  BY <1>3, <1>5, <1>6, <1>7, <1>8 DEF Good, PoolOK
<1>10. Steady(r) => Steady(u) /\ u.mode = r.mode
  <2>1. SUFFICES ASSUME Steady(r) PROVE Steady(u) /\ u.mode = r.mode
    OBVIOUS
  <2>2. W = {}
    BY <1>4, <2>1 DEF Steady, In
  <2> QED
    BY <1>2, <1>3, <2>1, <2>2 DEF Steady, Relays
<1> QED
  BY <1>3, <1>4, <1>9, <1>10

\* The maintenance that goes before every assignment: wedged workers are
\* culled and replaced.  No idle worker is lost, none gets a task.
LEMMA MaintainedGood ==
  ASSUME NEW r, Good(r), NEW u \in Maintained(r)
  PROVE  /\ Good(u) /\ SameCircuits(u, r) /\ u.queue = r.queue
         /\ \A w \in Workers : /\ u.task[w] \in {r.task[w], Nil}
                               /\ r.mode[w] = "idle" => u.mode[w] = "idle"
         /\ quiet /\ Steady(r) => Steady(u) /\ u.mode = r.mode
<1>1. CASE u = r
  BY <1>1 DEF SameCircuits
<1>2. ASSUME NEW W \in SUBSET In(r, "busy"), quiet => W = {},
             u \in SpawnEnough([Closed(r, W) EXCEPT !.busy = Closed(r, W).busy - Cardinality(W)])
      PROVE  /\ Good(u) /\ SameCircuits(u, r) /\ u.queue = r.queue
             /\ \A w \in Workers : /\ u.task[w] \in {r.task[w], Nil}
                                   /\ r.mode[w] = "idle" => u.mode[w] = "idle"
             /\ quiet /\ Steady(r) => Steady(u) /\ u.mode = r.mode
  <2>. DEFINE v == [Closed(r, W) EXCEPT !.busy = Closed(r, W).busy - Cardinality(W)]
  <2>1. W \in SUBSET Workers /\ Cardinality(W) \in Nat /\ r \in Relays
    BY WorkersFinite DEF In, Good
  <2>2. /\ Closed(r, W) \in Relays
        /\ Closed(r, W).mode = [w \in Workers |-> IF w \in W THEN "none" ELSE r.mode[w]]
        /\ Closed(r, W).task = [w \in Workers |-> IF w \in W THEN Nil ELSE r.task[w]]
        /\ Closed(r, W).asked = [w \in Workers |-> IF w \in W THEN Nil ELSE r.asked[w]]
        /\ Closed(r, W).num = r.num - Cardinality(W)
        /\ Closed(r, W).busy = r.busy /\ Closed(r, W).old = r.old
        /\ Closed(r, W).queue = r.queue /\ SameCircuits(Closed(r, W), r)
    BY <2>1, ClosedFields
  <2>3. /\ v \in Relays
        /\ v.mode = [w \in Workers |-> IF w \in W THEN "none" ELSE r.mode[w]]
        /\ v.task = [w \in Workers |-> IF w \in W THEN Nil ELSE r.task[w]]
        /\ v.asked = [w \in Workers |-> IF w \in W THEN Nil ELSE r.asked[w]]
        /\ v.num = r.num - Cardinality(W)
        /\ v.busy = r.busy - Cardinality(W) /\ v.old = r.old
        /\ v.queue = r.queue /\ SameCircuits(v, r)
    <3>. DEFINE x == Closed(r, W)
                b == x.busy - Cardinality(W)
    <3>1. x \in Relays /\ b \in Int /\ v = [x EXCEPT !.busy = b]
      BY <2>1, <2>2 DEF Relays
    <3>. HIDE DEF v, x, b
    <3>2. v \in Relays
      BY <3>1 DEF Relays
    <3>3. /\ v.mode = x.mode /\ v.task = x.task /\ v.asked = x.asked /\ v.num = x.num
          /\ v.busy = b /\ v.old = x.old /\ v.queue = x.queue /\ SameCircuits(v, x)
      BY <3>1 DEF Relays, SameCircuits
    <3> QED
      BY <2>2, <3>2, <3>3 DEF SameCircuits, x, b
  <2>. HIDE DEF v
  <2>4. In(r, "busy") \cap W = W /\ W \in SUBSET Alive(r)
    BY DEF In, Alive
  <2>5. \A w \in Workers : v.mode[w] = "idle" => ~v.old[w]
    BY <2>3 DEF Good, PoolOK
  <2>6. Good(v)
    BY <2>3, <2>4, <2>5, CloseGood
  <2>7. /\ Good(u) /\ SameCircuits(u, v) /\ u.queue = v.queue /\ u.task = v.task
        /\ \A w \in Workers : v.mode[w] = "idle" => u.mode[w] = "idle"
        /\ Steady(v) => Steady(u) /\ u.mode = v.mode
    <3>1. u \in SpawnEnough(v)
      BY <1>2 DEF v
    <3> QED
      BY <2>6, <3>1, SpawnGood
  <2>8. \A w \in Workers : r.mode[w] = "idle" => v.mode[w] = "idle"
    BY <2>3 DEF In
  <2>9. quiet /\ Steady(r) => Steady(v) /\ v.mode = r.mode
    BY <1>2, <2>1, <2>3 DEF Steady, Relays
  <2> QED
    BY <2>3, <2>7, <2>8, <2>9 DEF SameCircuits
<1> QED
  BY <1>1, <1>2 DEF Maintained, CullWedged
-----------------------------------------------------------------------------
(* The list. *)

\* A circuit whose onionskin is nowhere yet.
Assignable(r, c) ==
  /\ c \in Circuits /\ r.status[c] = "pending" /\ ~r.marked[c] /\ r.tag[c] # Nil
  /\ c \notin ToSet(r.queue) /\ \A w \in Workers : r.task[w] # c

\* The tasks do not mind circuits that leave the list.
LEMMA PoolKept ==
  ASSUME NEW r, PoolOK(r), NEW u, SamePool(u, r),
         u.status = r.status, u.tag = r.tag, u.used = r.used,
         \A w \in Workers : r.mode[w] = "busy" => r.task[w] \notin ToSet(u.queue)
  PROVE  PoolOK(u)
<1>1. Alive(u) = Alive(r) /\ In(u, "busy") = In(r, "busy")
  BY DEF SamePool, Alive, In
<1>2. ASSUME NEW w \in Workers PROVE TaskOK(u, w) /\ (u.mode[w] = "idle" => ~u.old[w])
  <2>1. TaskOK(r, w) /\ (r.mode[w] = "idle" => ~r.old[w])
    BY DEF PoolOK
  <2>2. CASE r.mode[w] # "busy"
    BY <2>1, <2>2 DEF TaskOK, SamePool
  <2>3. CASE r.mode[w] = "busy"
    BY <2>1, <2>3 DEF TaskOK, SamePool
  <2> QED
    BY <2>2, <2>3
<1> QED
  BY <1>1, <1>2 DEF PoolOK, SamePool

\* onion_pending_remove takes off the one it is given.
LEMMA PendingRemoveFields ==
  ASSUME NEW r \in Relays, IsInjective(r.queue), NEW c \in Circuits
  PROVE  LET u == PendingRemove(r, c) IN
         /\ u \in Relays /\ SameCircuits(u, r) /\ SamePool(u, r)
         /\ IsInjective(u.queue) /\ ToSet(u.queue) = ToSet(r.queue) \ {c}
<1>. DEFINE q == RemoveFirst(r.queue, c)
            u == PendingRemove(r, c)
<1>1. r.queue \in Seq(Circuits)
  BY DEF Relays
<1>2. q \in Seq(Circuits) /\ IsInjective(q) /\ ToSet(q) = ToSet(r.queue) \ {c}
  BY <1>1, RemoveFirstMembers
<1>3. u = [r EXCEPT !.queue = q]
  BY DEF PendingRemove
<1>. HIDE DEF q, u
<1>4. u \in Relays /\ u.queue = q
  BY <1>2, <1>3 DEF Relays
<1>5. SameCircuits(u, r) /\ SamePool(u, r)
  BY <1>3 DEF Relays, SameCircuits, SamePool
<1> QED
  BY <1>2, <1>4, <1>5 DEF u

LEMMA PendingRemoveGood ==
  ASSUME NEW r, Good(r), NEW c \in Circuits
  PROVE  LET u == PendingRemove(r, c) IN
         /\ Good(u) /\ SameCircuits(u, r) /\ SamePool(u, r)
         /\ ToSet(u.queue) = ToSet(r.queue) \ {c}
<1>. DEFINE u == PendingRemove(r, c)
<1>1. /\ u \in Relays /\ SameCircuits(u, r) /\ SamePool(u, r)
      /\ IsInjective(u.queue) /\ ToSet(u.queue) = ToSet(r.queue) \ {c}
  BY PendingRemoveFields DEF Good, ListOK, ListBut
<1>. HIDE DEF u
<1>2. PoolOK(u)
  <2>1. \A w \in Workers : r.mode[w] = "busy" => r.task[w] \notin ToSet(u.queue)
    BY <1>1 DEF Good, PoolOK, TaskOK
  <2> QED
    BY <1>1, <2>1, PoolKept DEF Good, SameCircuits
<1>3. ListOK(u) /\ TagsOK(u) /\ AnswersOK(u) /\ u.sound
  BY <1>1 DEF Good, ListOK, ListBut, TagsOK, AnswersOK, SameCircuits
<1> QED
  BY <1>1, <1>2, <1>3 DEF Good, u

\* circuit_mark_for_close, of a circuit that may just have lost its connection.
LEMMA MarkGood ==
  ASSUME NEW r \in Relays, NEW c \in Circuits,
         PoolOK(r), ListBut(r, {c}), TagsOK(r), AnswersOK(r), r.sound,
         r.status[c] # "new", ~r.marked[c]
  PROVE  LET u == MarkForClose(r, c) IN
         Good(u) /\ SamePool(u, r) /\ (u.queue # <<>> => r.queue # <<>>)
<1>. DEFINE v == IF r.status[c] = "pending" THEN PendingRemove(r, c) ELSE r
            m == [v.marked EXCEPT ![c] = TRUE]
            u == [v EXCEPT !.marked = m]
<1>1. /\ v \in Relays /\ SameCircuits(v, r) /\ SamePool(v, r)
      /\ IsInjective(v.queue) /\ ToSet(v.queue) = ToSet(r.queue) \ {c}
  <2>1. CASE r.status[c] = "pending"
    BY <2>1, PendingRemoveFields DEF ListBut
  <2>2. CASE r.status[c] # "pending"
    <3>1. c \notin ToSet(r.queue)
      BY <2>2 DEF ListBut
    <3> QED
      BY <2>2, <3>1 DEF ListBut, SameCircuits, SamePool
  <2> QED
    BY <2>1, <2>2
<1>2. MarkForClose(r, c) = u
  BY DEF MarkForClose
<1>. HIDE DEF v
<1>3. m \in [Circuits -> BOOLEAN]
  BY <1>1 DEF Relays
<1>4. /\ m[c] = TRUE /\ \A d \in Circuits \ {c} : m[d] = r.marked[d]
  BY <1>1 DEF Relays, SameCircuits
<1>. HIDE DEF m
<1>5. u \in Relays
  BY <1>1, <1>3 DEF Relays
<1>6. /\ u.marked = m /\ u.status = v.status /\ u.tag = v.tag /\ u.used = v.used
      /\ u.answers = v.answers /\ u.sound = v.sound /\ u.queue = v.queue
  BY <1>1 DEF Relays
<1>7. SamePool(u, v)
  BY <1>1 DEF Relays, SamePool
<1>. HIDE DEF u
<1>8. /\ u.status = r.status /\ u.tag = r.tag /\ u.used = r.used /\ u.answers = r.answers
      /\ u.sound = r.sound /\ SamePool(u, r)
      /\ IsInjective(u.queue) /\ ToSet(u.queue) = ToSet(r.queue) \ {c}
  BY <1>1, <1>6, <1>7 DEF SameCircuits, SamePool
<1>9. PoolOK(u)
  <2>1. \A w \in Workers : r.mode[w] = "busy" => r.task[w] \notin ToSet(u.queue)
    BY <1>8 DEF PoolOK, TaskOK
  <2> QED
    BY <1>8, <2>1, PoolKept
<1>10. ListOK(u)
  <2>1. ToSet(u.queue) \subseteq Circuits
    BY <1>5, ToSetProperties DEF Relays
  <2> QED
    BY <1>4, <1>6, <1>8, <2>1 DEF ListOK, ListBut
<1>11. TagsOK(u) /\ AnswersOK(u) /\ u.sound
  BY <1>4, <1>6, <1>8 DEF TagsOK, AnswersOK
<1>12. u.queue # <<>> => r.queue # <<>>
  <2>1. u.queue \in Seq(Circuits) /\ r.queue \in Seq(Circuits)
    BY <1>5 DEF Relays
  <2>2. ToSet(u.queue) = {} <=> u.queue = <<>>
    BY <2>1, ToSetProperties
  <2>3. ToSet(r.queue) = {} <=> r.queue = <<>>
    BY <2>1, ToSetProperties
  <2> QED
    BY <1>8, <2>2, <2>3
<1> QED
  BY <1>2, <1>5, <1>8, <1>9, <1>10, <1>11, <1>12 DEF Good

\* onion_pending_add's cull: who is taken off the list is marked.
LEMMA CullElderlyGood ==
  ASSUME NEW r, Good(r), NEW n \in 0 .. Len(r.queue)
  PROVE  Good(CullElderly(r, n)) /\ SamePool(CullElderly(r, n), r)
<1>. DEFINE elderly == ToSet(SubSeq(r.queue, 1, n))
            q == SubSeq(r.queue, n + 1, Len(r.queue))
            m == [c \in Circuits |-> r.marked[c] \/ c \in elderly]
            u == [r EXCEPT !.queue = q, !.marked = m]
<1>1. /\ r.queue \in Seq(Circuits) /\ IsInjective(r.queue) /\ r \in Relays
  BY DEF Good, Relays, ListOK, ListBut
<1>2. /\ q \in Seq(Circuits) /\ IsInjective(q)
      /\ ToSet(q) = ToSet(r.queue) \ elderly /\ elderly \subseteq ToSet(r.queue)
  BY <1>1, SuffixMembers
<1>3. CullElderly(r, n) = u
  BY DEF CullElderly
<1>. HIDE DEF elderly, q
<1>4. m \in [Circuits -> BOOLEAN] /\ \A c \in Circuits : m[c] <=> r.marked[c] \/ c \in elderly
  BY <1>1 DEF Relays
<1>. HIDE DEF m
<1>5. u \in Relays
  BY <1>1, <1>2, <1>4 DEF Relays
<1>6. /\ u.marked = m /\ u.queue = q /\ u.status = r.status /\ u.tag = r.tag
      /\ u.used = r.used /\ u.answers = r.answers /\ u.sound = r.sound
  BY <1>1 DEF Relays
<1>7. SamePool(u, r)
  BY <1>1 DEF Relays, SamePool
<1>. HIDE DEF u
<1>8. PoolOK(u)
  <2>1. \A w \in Workers : r.mode[w] = "busy" => r.task[w] \notin ToSet(u.queue)
    BY <1>2, <1>6 DEF Good, PoolOK, TaskOK
  <2> QED
    BY <1>6, <1>7, <2>1, PoolKept DEF Good
<1>9. ToSet(r.queue) \subseteq Circuits
  BY <1>1, ToSetProperties
<1>10. ListOK(u)
  BY <1>2, <1>4, <1>6, <1>9 DEF Good, ListOK, ListBut
<1>11. TagsOK(u)
  <2>1. \A c \in elderly : r.status[c] = "pending"
    BY <1>2 DEF Good, ListOK, ListBut
  <2> QED
    BY <1>4, <1>6, <2>1 DEF Good, TagsOK
<1> QED
  BY <1>3, <1>5, <1>6, <1>7, <1>8, <1>10, <1>11 DEF Good, AnswersOK

\* onion_pending_add.
LEMMA PendingAddGood ==
  ASSUME NEW r, Good(r), NEW c, Assignable(r, c), NEW u \in PendingAdd(r, c)
  PROVE  Good(u) /\ SamePool(u, r)
<1>. DEFINE q == Append(r.queue, c)
            v == [r EXCEPT !.queue = q]
<1>1. /\ r.queue \in Seq(Circuits) /\ IsInjective(r.queue) /\ r \in Relays
      /\ c \in Circuits /\ c \notin ToSet(r.queue)
  BY DEF Good, Relays, ListOK, ListBut, Assignable
<1>2. /\ q \in Seq(Circuits) /\ IsInjective(q) /\ ToSet(q) = ToSet(r.queue) \cup {c}
      /\ Len(q) = Len(r.queue) + 1 /\ Len(r.queue) \in Nat
  BY <1>1, AppendMember, AppendProperties, ToSetProperties
<1>3. u = v \/ \E n \in 0 .. Len(r.queue) : u = CullElderly(v, n)
  BY DEF PendingAdd
<1>. HIDE DEF q
<1>4. v \in Relays /\ v.queue = q
  BY <1>1, <1>2 DEF Relays
<1>5. SameCircuits(v, r) /\ SamePool(v, r)
  BY <1>1 DEF Relays, SameCircuits, SamePool
<1>. HIDE DEF v
<1>6. PoolOK(v)
  <2>1. \A w \in Workers : r.mode[w] = "busy" => r.task[w] \notin ToSet(v.queue)
    BY <1>2, <1>4 DEF Good, PoolOK, TaskOK, Assignable
  <2> QED
    BY <1>5, <2>1, PoolKept DEF Good, SameCircuits
<1>7. ListOK(v) /\ TagsOK(v) /\ AnswersOK(v) /\ v.sound
  BY <1>2, <1>4, <1>5 DEF Good, ListOK, ListBut, TagsOK, AnswersOK, SameCircuits, Assignable
<1>8. Good(v)
  BY <1>4, <1>6, <1>7 DEF Good
<1>9. ASSUME NEW n \in 0 .. Len(r.queue), u = CullElderly(v, n)
      PROVE  Good(u) /\ SamePool(u, v)
  <2>1. n \in 0 .. Len(v.queue)
    BY <1>2, <1>4
  <2> QED
    BY <1>8, <1>9, <2>1, CullElderlyGood
<1> QED
  BY <1>3, <1>5, <1>8, <1>9 DEF SamePool
-----------------------------------------------------------------------------
(* The assignment. *)

\* An idle worker is given an onionskin.
LEMMA GiveGood ==
  ASSUME NEW r, Good(r), NEW c, Assignable(r, c), NEW w \in Workers, r.mode[w] = "idle"
  PROVE  LET u == Give(r, w, c) IN
         /\ Good(u) /\ u.queue = r.queue
         /\ u.mode[w] = "busy" /\ \A v \in Workers \ {w} : u.mode[v] = r.mode[v]
         /\ Steady(r) => Steady(u)
<1>. DEFINE m == [r.mode EXCEPT ![w] = "busy"]
            t == [r.task EXCEPT ![w] = c]
            a == [r.asked EXCEPT ![w] = r.tag[c]]
            n == r.busy + 1
            u == [r EXCEPT !.mode = m, !.task = t, !.asked = a, !.busy = n]
<1>1. r \in Relays /\ c \in Circuits
  BY DEF Good, Assignable
<1>2. /\ m \in [Workers -> {"none", "idle", "busy"}] /\ t \in [Workers -> Circuits \cup {Nil}]
      /\ a \in [Workers -> Tags \cup {Nil}] /\ n \in Int
      /\ m[w] = "busy" /\ t[w] = c /\ a[w] = r.tag[c]
      /\ \A v \in Workers \ {w} : /\ m[v] = r.mode[v] /\ t[v] = r.task[v]
                                  /\ a[v] = r.asked[v]
  BY <1>1 DEF Relays
<1>3. Give(r, w, c) = u
  BY DEF Give
<1>. HIDE DEF m, t, a
<1>4. u \in Relays
  BY <1>1, <1>2 DEF Relays
<1>5. /\ u.mode = m /\ u.task = t /\ u.asked = a /\ u.busy = r.busy + 1
      /\ u.num = r.num /\ u.old = r.old /\ u.queue = r.queue
  BY <1>1 DEF Relays
<1>6. SameCircuits(u, r)
  BY <1>1 DEF Relays, SameCircuits
<1>. HIDE DEF u
<1>7. u.num = Cardinality(Alive(u))
  <2>1. Alive(u) = Alive(r)
    BY <1>2, <1>5 DEF Alive
  <2> QED
    BY <1>5, <2>1 DEF Good, PoolOK
<1>8. u.busy = Cardinality(In(u, "busy"))
  <2>1. In(u, "busy") = In(r, "busy") \cup {w} /\ In(r, "busy") \cap {w} = {}
    BY <1>2, <1>5 DEF In
  <2>2. Cardinality({w}) = 1
    BY FS_Singleton
  <2>3. Cardinality(In(u, "busy")) = Cardinality(In(r, "busy")) + 1
    BY <2>1, <2>2, CountMore DEF In
  <2> QED
    BY <1>5, <2>3 DEF Good, PoolOK
<1>9. ASSUME NEW v \in Workers PROVE TaskOK(u, v) /\ (u.mode[v] = "idle" => ~u.old[v])
  <2>1. TaskOK(r, v) /\ (r.mode[v] = "idle" => ~r.old[v])
    BY DEF Good, PoolOK
  <2>2. CASE v = w
    <3>1. /\ r.tag[c] \in r.used /\ \A d \in Circuits \ {c} : r.tag[d] # r.tag[c]
      BY <1>1 DEF Good, TagsOK, Assignable
    <3>2. TaskOK(u, w)
      BY <1>1, <1>2, <1>5, <1>6, <3>1 DEF TaskOK, SameCircuits, Assignable
    <3> QED
      BY <1>2, <1>5, <2>2, <3>2
  <2>3. CASE v # w /\ r.mode[v] # "busy"
    BY <1>2, <1>5, <2>1, <2>3 DEF TaskOK
  <2>4. CASE v # w /\ r.mode[v] = "busy"
    <3>1. r.task[v] # c
      BY DEF Assignable
    <3> QED
      BY <1>2, <1>5, <1>6, <2>1, <2>4, <3>1 DEF TaskOK, SameCircuits
  <2> QED
    BY <2>2, <2>3, <2>4
<1>10. PoolOK(u)
  BY <1>7, <1>8, <1>9 DEF PoolOK
<1>11. ListOK(u) /\ TagsOK(u) /\ AnswersOK(u) /\ u.sound
  BY <1>5, <1>6 DEF Good, ListOK, ListBut, TagsOK, AnswersOK, SameCircuits
<1>12. Steady(r) => Steady(u)
  BY <1>2, <1>5 DEF Steady
<1> QED
  BY <1>2, <1>3, <1>4, <1>5, <1>10, <1>11, <1>12 DEF Good

\* The counters tell whether a worker is idle.
LEMMA AllBusy ==
  ASSUME NEW r, Good(r)
  PROVE  r.busy = r.num <=> \A w \in Workers : r.mode[w] # "idle"
<1>1. /\ r.num = Cardinality(Alive(r)) /\ r.busy = Cardinality(In(r, "busy"))
      /\ r.mode \in [Workers -> {"none", "idle", "busy"}]
  BY DEF Good, PoolOK, Relays
<1>2. In(r, "busy") \in SUBSET Alive(r) /\ IsFiniteSet(Alive(r))
  <2>1. Alive(r) \in SUBSET Workers
    BY DEF Alive
  <2> QED
    BY <2>1, WorkersFinite DEF Alive, In
<1>3. r.busy = r.num => In(r, "busy") = Alive(r)
  BY <1>1, <1>2, FS_Subset
<1>4. In(r, "busy") = Alive(r) <=> \A w \in Workers : r.mode[w] # "idle"
  BY <1>1 DEF In, Alive
<1> QED
  BY <1>1, <1>3, <1>4

\* assign_onionskin_to_cpuworker: the assertion that a worker is idle if not
\* all are busy holds, and a circuit joins the list only when all are busy.
LEMMA AssignGood ==
  ASSUME NEW r, Good(r), NEW c, Assignable(r, c), NEW W \in SUBSET Workers,
         W = Workers \/ \E w \in W : r.mode[w] = "idle",
         NEW a \in AssignOnionskin(r, W, c)
  PROVE  /\ Good(a.relay)
         /\ ~a.ok => Assignable(a.relay, c)
         /\ quiet /\ Steady(r) =>
              /\ Steady(a.relay)
              /\ Loaded(r) => Loaded(a.relay)
              /\ \A w \in W :
                   W = {w} /\ r.mode[w] = "idle" /\ (\A v \in Workers \ {w} : r.mode[v] = "busy")
                     => \A v \in Workers : a.relay.mode[v] = "busy"
<1>1. PICK x \in Maintained(r) :
        a \in IF x.busy = x.num
                THEN IF HasRoom(x) THEN {[relay |-> u, ok |-> TRUE] : u \in PendingAdd(x, c)}
                     ELSE {[relay |-> x, ok |-> FALSE]}
              ELSE IF W \cap In(x, "idle") = {}
                THEN {[relay |-> [x EXCEPT !.sound = FALSE], ok |-> TRUE]}
              ELSE {[relay |-> Give(x, w, c), ok |-> TRUE] : w \in W \cap In(x, "idle")}
  BY DEF AssignOnionskin
<1>2. /\ Good(x) /\ SameCircuits(x, r) /\ x.queue = r.queue
      /\ \A w \in Workers : /\ x.task[w] \in {r.task[w], Nil}
                            /\ r.mode[w] = "idle" => x.mode[w] = "idle"
      /\ quiet /\ Steady(r) => Steady(x) /\ x.mode = r.mode
  BY MaintainedGood
<1>3. Assignable(x, c)
  BY <1>2, OnionAssumption DEF Assignable, SameCircuits
<1>4. x.busy = x.num <=> \A w \in Workers : x.mode[w] # "idle"
  BY <1>2, AllBusy
<1>5. x.mode \in [Workers -> {"none", "idle", "busy"}]
  BY <1>2 DEF Good, Relays
<1>6. ASSUME x.busy = x.num, NEW u, SamePool(u, x), a.relay = u, quiet, Steady(r)
      PROVE  /\ Steady(a.relay) /\ Loaded(a.relay)
             /\ \A w \in W : r.mode[w] # "idle"
  BY <1>2, <1>4, <1>5, <1>6 DEF Steady, Loaded, SamePool
<1>7. CASE x.busy = x.num /\ HasRoom(x)
  <2>1. PICK u \in PendingAdd(x, c) : a = [relay |-> u, ok |-> TRUE]
    BY <1>1, <1>7
  <2>2. Good(u) /\ SamePool(u, x)
    BY <1>2, <1>3, PendingAddGood
  <2> QED
    BY <1>6, <1>7, <2>1, <2>2
<1>8. CASE x.busy = x.num /\ ~HasRoom(x)
  <2>1. a = [relay |-> x, ok |-> FALSE]
    BY <1>1, <1>8
  <2>2. SamePool(x, x)
    BY DEF SamePool
  <2> QED
    BY <1>2, <1>3, <1>6, <1>8, <2>1, <2>2
<1>9. CASE x.busy # x.num
  <2>1. W \cap In(x, "idle") # {}
    BY <1>2, <1>4, <1>9 DEF In
  <2>2. PICK w \in W : x.mode[w] = "idle" /\ a = [relay |-> Give(x, w, c), ok |-> TRUE]
    BY <1>1, <1>9, <2>1 DEF In
  <2>3. /\ Good(a.relay) /\ a.relay.queue = x.queue /\ a.relay.mode[w] = "busy"
        /\ \A v \in Workers \ {w} : a.relay.mode[v] = x.mode[v]
        /\ Steady(x) => Steady(a.relay)
    BY <1>2, <1>3, <2>2, GiveGood
  <2>4. ASSUME quiet, Steady(r), Loaded(r) PROVE Loaded(a.relay)
    <3>1. r.queue = <<>>
      BY <1>2, <2>2, <2>4 DEF Loaded
    <3> QED
      BY <1>2, <2>3, <3>1 DEF Loaded
  <2>5. ASSUME quiet, Steady(r), NEW v \in W, W = {v},
               \A y \in Workers \ {v} : r.mode[y] = "busy"
        PROVE  \A y \in Workers : a.relay.mode[y] = "busy"
    BY <1>2, <2>2, <2>3, <2>5
  <2> QED
    BY <1>2, <2>2, <2>3, <2>4, <2>5
<1> QED
  BY <1>7, <1>8, <1>9

\* process_pending_task: the circuit at the head of the list has its connection,
\* and the worker that has become free gets it.
LEMMA ProcessPendingTaskGood ==
  ASSUME NEW r, Good(r), NEW w \in Workers, r.mode[w] = "idle",
         NEW u \in ProcessPendingTask(r, w)
  PROVE  /\ Good(u)
         /\ quiet /\ Steady(r)
              /\ (r.queue # <<>> => \A v \in Workers \ {w} : r.mode[v] = "busy")
              => Steady(u) /\ Loaded(u)
<1>1. CASE r.queue = <<>>
  <2>1. u = r
    BY <1>1 DEF ProcessPendingTask
  <2> QED
    BY <1>1, <2>1 DEF Loaded
<1>2. CASE r.queue # <<>>
  <2>. DEFINE c == Head(r.queue)
              x == PendingRemove(r, c)
  <2>1. r.queue \in Seq(Circuits)
    BY DEF Good, Relays
  <2>2. c \in Circuits /\ c \in ToSet(r.queue)
    BY <1>2, <2>1, HeadMember
  <2>3. r.status[c] = "pending" /\ ~r.marked[c] /\ r.tag[c] # Nil
    BY <2>2 DEF Good, ListOK, ListBut
  <2>4. PICK a \in AssignOnionskin(x, {w}, c) : u = a.relay
    BY <1>2, <2>3 DEF ProcessPendingTask
  <2>. HIDE DEF c
  <2>5. /\ Good(x) /\ SameCircuits(x, r) /\ SamePool(x, r)
        /\ ToSet(x.queue) = ToSet(r.queue) \ {c}
    BY <2>2, PendingRemoveGood
  <2>. HIDE DEF x
  <2>6. \A v \in Workers : r.task[v] # c
    BY <2>2, OnionAssumption DEF Good, PoolOK, TaskOK
  <2>7. Assignable(x, c)
    BY <2>2, <2>3, <2>5, <2>6 DEF Assignable, SameCircuits, SamePool
  <2>8. /\ {w} \in SUBSET Workers /\ x.mode[w] = "idle"
        /\ \E v \in {w} : x.mode[v] = "idle"
    BY <2>5 DEF SamePool
  <2>9. /\ Good(a.relay)
        /\ quiet /\ Steady(x) =>
             /\ Steady(a.relay)
             /\ (\A v \in Workers \ {w} : x.mode[v] = "busy")
                   => \A v \in Workers : a.relay.mode[v] = "busy"
    BY <2>5, <2>7, <2>8, AssignGood
  <2>10. Steady(r) => Steady(x)
    BY <2>5 DEF Steady, SamePool
  <2> QED
    BY <1>2, <2>4, <2>5, <2>9, <2>10 DEF Loaded, SamePool
<1> QED
  BY <1>1, <1>2
-----------------------------------------------------------------------------
(* The steps. *)

LEMMA BecomesIInv ==
  ASSUME IInv, NEW u, Good(u), Becomes(u), quiet => Steady(u) /\ Loaded(u)
  PROVE  IInv'
<1>1. Relay' = u
  BY DEF Becomes, Relay, Good, Relays
<1>2. quiet' = quiet
  BY DEF Becomes
<1>3. Good(Relay)'
  BY <1>1
<1>4. quiet' => Steady(Relay)' /\ Loaded(Relay)'
  BY <1>1, <1>2
<1> QED
  BY <1>2, <1>3, <1>4 DEF IInv

LEMMA InitIInv == Init => IInv
<1> SUFFICES ASSUME Init PROVE IInv
  OBVIOUS
<1>1. Relay \in Relays
  <2>1. Cardinality(Workers) \in Int /\ <<>> \in Seq(Circuits)
    BY WorkersFinite, EmptySeq
  <2> QED
    BY <2>1 DEF Init, Relay, Relays
<1>2. Alive(Relay) = Workers /\ In(Relay, "busy") = {}
  BY DEF Init, Relay, Alive, In
<1>3. PoolOK(Relay)
  BY <1>2, FS_EmptySet DEF Init, Relay, PoolOK, TaskOK
<1>4. ListOK(Relay)
  BY EmptyList DEF Init, Relay, ListOK, ListBut
<1>5. TagsOK(Relay) /\ AnswersOK(Relay) /\ Relay.sound
  BY DEF Init, Relay, TagsOK, AnswersOK
<1>6. Steady(Relay) /\ Loaded(Relay) /\ quiet \in BOOLEAN
  BY DEF Init, Relay, Steady, Loaded
<1> QED
  BY <1>1, <1>3, <1>4, <1>5, <1>6 DEF IInv, Good

\* A CREATE cell brings a circuit whose tag was never used before.
LEMMA CreatedGood ==
  ASSUME NEW r, Good(r), NEW c \in Circuits, NEW t \in Tags \ r.used,
         r.status[c] = "new", \A d \in Circuits : r.tag[d] # t
  PROVE  LET u == [r EXCEPT !.status[c] = "pending", !.tag[c] = t, !.used = r.used \cup {t}] IN
         Good(u) /\ Assignable(u, c) /\ SamePool(u, r) /\ u.queue = r.queue
<1>. DEFINE s == [r.status EXCEPT ![c] = "pending"]
            g == [r.tag EXCEPT ![c] = t]
            o == r.used \cup {t}
            u == [r EXCEPT !.status = s, !.tag = g, !.used = o]
<1>1. r \in Relays /\ r.status \in [Circuits -> {"new", "pending", "open", "gone"}]
        /\ r.tag \in [Circuits -> Tags \cup {Nil}] /\ r.used \in SUBSET Tags
  BY DEF Good, Relays
<1>2. /\ s \in [Circuits -> {"new", "pending", "open", "gone"}]
      /\ g \in [Circuits -> Tags \cup {Nil}] /\ o \in SUBSET Tags
      /\ s[c] = "pending" /\ g[c] = t /\ t \in o /\ r.used \subseteq o
      /\ \A d \in Circuits \ {c} : s[d] = r.status[d] /\ g[d] = r.tag[d]
  BY <1>1
<1>. HIDE DEF s, g, o
<1>3. u \in Relays
  BY <1>1, <1>2 DEF Relays
<1>4. /\ u.status = s /\ u.tag = g /\ u.used = o /\ u.marked = r.marked
      /\ u.queue = r.queue /\ u.answers = r.answers /\ u.sound = r.sound
  BY <1>1 DEF Relays
<1>5. SamePool(u, r)
  BY <1>1 DEF Relays, SamePool
<1>6. u = [r EXCEPT !.status[c] = "pending", !.tag[c] = t, !.used = r.used \cup {t}]
  BY DEF s, g, o
<1>. HIDE DEF u
<1>7. c \notin ToSet(r.queue) /\ ~r.marked[c] /\ r.tag[c] = Nil
  BY DEF Good, ListOK, ListBut, TagsOK
<1>8. \A w \in Workers : r.task[w] # c
  BY OnionAssumption DEF Good, PoolOK, TaskOK
<1>9. ASSUME NEW w \in Workers PROVE TaskOK(u, w) /\ (u.mode[w] = "idle" => ~u.old[w])
  <2>1. TaskOK(r, w) /\ (r.mode[w] = "idle" => ~r.old[w])
    BY DEF Good, PoolOK
  <2>2. CASE r.mode[w] # "busy"
    BY <1>5, <2>1, <2>2 DEF TaskOK, SamePool
  <2>3. CASE r.mode[w] = "busy"
    <3>1. r.asked[w] \in r.used /\ r.asked[w] # t
      BY <2>1, <2>3 DEF TaskOK
    <3> QED
      BY <1>2, <1>4, <1>5, <1>8, <2>1, <2>3, <3>1 DEF TaskOK, SamePool
  <2> QED
    BY <2>2, <2>3
<1>10. PoolOK(u)
  <2>1. Alive(u) = Alive(r) /\ In(u, "busy") = In(r, "busy")
    BY <1>5 DEF SamePool, Alive, In
  <2> QED
    BY <1>5, <1>9, <2>1 DEF Good, PoolOK, SamePool
<1>11. ListOK(u)
  <2>1. ToSet(r.queue) \subseteq Circuits
    BY <1>1, ToSetProperties DEF Relays
  <2> QED
    BY <1>2, <1>4, <1>7, <2>1 DEF Good, ListOK, ListBut
<1>12. TagsOK(u)
  BY <1>2, <1>4 DEF Good, TagsOK
<1>13. Assignable(u, c)
  BY <1>2, <1>4, <1>5, <1>7, <1>8, OnionAssumption DEF Assignable, SamePool
<1> QED
  BY <1>3, <1>4, <1>5, <1>6, <1>10, <1>11, <1>12, <1>13 DEF Good, AnswersOK

LEMMA CreateIInv ==
  ASSUME ~TagsReused, IInv, NEW c \in Circuits, NEW t \in Tags, Create(c, t)
  PROVE  IInv'
<1>. DEFINE r == [Relay EXCEPT !.status[c] = "pending", !.tag[c] = t, !.used = Relay.used \cup {t}]
<1>1. /\ Relay.status[c] = "new" /\ t \in Tags \ Relay.used
      /\ \A d \in Circuits : Relay.tag[d] # t
  BY DEF Create, InUse, Relay
<1>2. Good(r) /\ Assignable(r, c) /\ SamePool(r, Relay) /\ r.queue = Relay.queue
  BY <1>1, CreatedGood DEF IInv
<1>3. PICK a \in AssignOnionskin(r, Workers, c) :
        Becomes(IF a.ok THEN a.relay ELSE MarkForClose(a.relay, c))
  BY DEF Create, Relay
<1>4. quiet => Steady(r) /\ Loaded(r)
  BY <1>2 DEF IInv, Steady, Loaded, SamePool
<1>. HIDE DEF r
<1>5. /\ Good(a.relay)
      /\ ~a.ok => Assignable(a.relay, c)
      /\ quiet => Steady(a.relay) /\ Loaded(a.relay)
  BY <1>2, <1>4, AssignGood
<1>6. CASE a.ok
  BY <1>3, <1>5, <1>6, BecomesIInv
<1>7. CASE ~a.ok
  <2>1. PICK u : u = MarkForClose(a.relay, c) /\ Becomes(u)
    BY <1>3, <1>7
  <2>2. /\ a.relay \in Relays /\ PoolOK(a.relay) /\ ListBut(a.relay, {c}) /\ TagsOK(a.relay)
        /\ AnswersOK(a.relay) /\ a.relay.sound
        /\ a.relay.status[c] # "new" /\ ~a.relay.marked[c]
    BY <1>5, <1>7 DEF Good, ListOK, ListBut, Assignable
  <2>3. Good(u) /\ SamePool(u, a.relay) /\ (u.queue # <<>> => a.relay.queue # <<>>)
    BY <2>1, <2>2, MarkGood
  <2>4. quiet => Steady(u) /\ Loaded(u)
    BY <1>5, <2>3 DEF Steady, Loaded, SamePool
  <2> QED
    BY <2>1, <2>3, <2>4, BecomesIInv
<1> QED
  BY <1>6, <1>7

\* The relay as a record, when nothing is known but IInv.
LEMMA RelayFacts ==
  ASSUME IInv
  PROVE  /\ Relay \in Relays /\ PoolOK(Relay) /\ ListOK(Relay) /\ ListBut(Relay, {})
         /\ TagsOK(Relay) /\ AnswersOK(Relay) /\ Relay.sound /\ Good(Relay)
         /\ Relay.status = status /\ Relay.marked = marked /\ Relay.tag = tag
         /\ Relay.used = used /\ Relay.queue = queue /\ Relay.mode = mode
         /\ Relay.old = old /\ Relay.task = task /\ Relay.asked = asked
         /\ Relay.num = num /\ Relay.busy = busy /\ Relay.answers = answers
         /\ Relay.sound = sound
<1>1. /\ Relay \in Relays /\ PoolOK(Relay) /\ ListOK(Relay) /\ ListBut(Relay, {})
      /\ TagsOK(Relay) /\ AnswersOK(Relay) /\ Relay.sound /\ Good(Relay)
  BY DEF IInv, Good, ListOK
<1> QED
  BY <1>1 DEF Relay

\* A circuit is closed, and one that has lost its connection before it was
\* answered is taken off the list: its worker's answer will find no circuit.
LEMMA DestroyIInv ==
  ASSUME IInv, NEW c \in Circuits, Destroy(c)
  PROVE  IInv'
<1>. DEFINE g == [Relay.tag EXCEPT ![c] = Nil]
            v == [Relay EXCEPT !.tag = g]
<1>1. PICK u : u = MarkForClose([Relay EXCEPT !.tag[c] = Nil], c) /\ Becomes(u)
  BY DEF Destroy
<1>2. v = [Relay EXCEPT !.tag[c] = Nil]
  OBVIOUS
<1>3. g \in [Circuits -> Tags \cup {Nil}] /\ g[c] = Nil
        /\ \A d \in Circuits \ {c} : g[d] = Relay.tag[d]
  BY RelayFacts DEF Relays
<1>4. Relay.status[c] # "new" /\ ~Relay.marked[c]
  BY RelayFacts DEF Destroy
<1>. HIDE DEF g
<1>5. v \in Relays
  BY <1>3, RelayFacts DEF Relays
<1>6. /\ v.tag = g /\ v.status = Relay.status /\ v.marked = Relay.marked
      /\ v.used = Relay.used /\ v.queue = Relay.queue /\ v.answers = Relay.answers
      /\ v.sound = Relay.sound
  BY DEF Relay
<1>7. SamePool(v, Relay)
  BY DEF Relay, SamePool
<1>. HIDE DEF v
<1>8. PoolOK(v)
  <2>1. ASSUME NEW w \in Workers PROVE TaskOK(v, w) /\ (v.mode[w] = "idle" => ~v.old[w])
    <3>1. TaskOK(Relay, w) /\ (Relay.mode[w] = "idle" => ~Relay.old[w])
      BY RelayFacts DEF PoolOK
    <3>2. CASE Relay.mode[w] # "busy"
      BY <1>7, <3>1, <3>2 DEF TaskOK, SamePool
    <3>3. CASE Relay.mode[w] = "busy"
      <4>1. Relay.asked[w] # Nil
        BY <3>1, <3>3, RelayFacts, OnionAssumption DEF TaskOK, Relays
      <4> QED
        BY <1>3, <1>6, <1>7, <3>1, <3>3, <4>1 DEF TaskOK, SamePool
    <3> QED
      BY <3>2, <3>3
  <2>2. Alive(v) = Alive(Relay) /\ In(v, "busy") = In(Relay, "busy")
    BY <1>7 DEF SamePool, Alive, In
  <2> QED
    BY <1>7, <2>1, <2>2, RelayFacts DEF PoolOK, SamePool
<1>9. ListBut(v, {c})
  <2>1. ToSet(Relay.queue) \subseteq Circuits
    BY RelayFacts, ToSetProperties DEF Relays
  <2> QED
    BY <1>3, <1>6, <2>1, RelayFacts DEF ListBut
<1>10. TagsOK(v) /\ AnswersOK(v) /\ v.sound
  BY <1>3, <1>6, RelayFacts DEF TagsOK, AnswersOK
<1>11. Good(u) /\ SamePool(u, v) /\ (u.queue # <<>> => v.queue # <<>>)
  BY <1>1, <1>2, <1>4, <1>5, <1>6, <1>8, <1>9, <1>10, MarkGood
<1>12. quiet => Steady(u) /\ Loaded(u)
  BY <1>6, <1>7, <1>11 DEF IInv, Steady, Loaded, SamePool
<1> QED
  BY <1>1, <1>11, <1>12, BecomesIInv

LEMMA ExpireIInv ==
  ASSUME IInv, NEW c \in Circuits, Expire(c)
  PROVE  IInv'
<1>1. PICK u : u = MarkForClose(Relay, c) /\ Becomes(u)
  BY DEF Expire
<1>2. Relay.status[c] # "new" /\ ~Relay.marked[c]
  BY RelayFacts DEF Expire
<1>3. ListBut(Relay, {c})
  BY RelayFacts DEF ListBut
<1>4. Good(u) /\ SamePool(u, Relay) /\ (u.queue # <<>> => Relay.queue # <<>>)
  BY <1>1, <1>2, <1>3, RelayFacts, MarkGood
<1>5. quiet => Steady(u) /\ Loaded(u)
  BY <1>4 DEF IInv, Steady, Loaded, SamePool
<1> QED
  BY <1>1, <1>4, <1>5, BecomesIInv

\* circuit_close_all_marked: none of those that are freed is on the list.
LEMMA FreeMarkedIInv ==
  ASSUME IInv, FreeMarked
  PROVE  IInv'
<1>. DEFINE s == [c \in Circuits |-> IF Relay.marked[c] THEN "gone" ELSE Relay.status[c]]
            g == [c \in Circuits |-> IF Relay.marked[c] THEN Nil ELSE Relay.tag[c]]
            v == [Relay EXCEPT !.status = s, !.tag = g]
<1>1. PICK u : u = v /\ Becomes(u)
  BY RelayFacts DEF FreeMarked
<1>2. /\ s \in [Circuits -> {"new", "pending", "open", "gone"}]
      /\ g \in [Circuits -> Tags \cup {Nil}]
      /\ \A c \in Circuits : /\ s[c] = IF Relay.marked[c] THEN "gone" ELSE Relay.status[c]
                             /\ g[c] = IF Relay.marked[c] THEN Nil ELSE Relay.tag[c]
  BY RelayFacts DEF Relays
<1>. HIDE DEF s, g
<1>3. u \in Relays
  BY <1>1, <1>2, RelayFacts DEF Relays
<1>4. /\ u.status = s /\ u.tag = g /\ u.marked = Relay.marked /\ u.used = Relay.used
      /\ u.queue = Relay.queue /\ u.answers = Relay.answers /\ u.sound = Relay.sound
  BY <1>1 DEF Relay
<1>5. SamePool(u, Relay)
  BY <1>1 DEF Relay, SamePool
<1>. HIDE DEF v
<1>6. PoolOK(u)
  <2>1. ASSUME NEW w \in Workers PROVE TaskOK(u, w) /\ (u.mode[w] = "idle" => ~u.old[w])
    <3>1. TaskOK(Relay, w) /\ (Relay.mode[w] = "idle" => ~Relay.old[w])
      BY RelayFacts DEF PoolOK
    <3>2. CASE Relay.mode[w] # "busy"
      BY <1>5, <3>1, <3>2 DEF TaskOK, SamePool
    <3>3. CASE Relay.mode[w] = "busy"
      <4>1. Relay.asked[w] # Nil
        BY <3>1, <3>3, RelayFacts, OnionAssumption DEF TaskOK, Relays
      <4> QED
        BY <1>2, <1>4, <1>5, <3>1, <3>3, <4>1 DEF TaskOK, SamePool
    <3> QED
      BY <3>2, <3>3
  <2>2. Alive(u) = Alive(Relay) /\ In(u, "busy") = In(Relay, "busy")
    BY <1>5 DEF SamePool, Alive, In
  <2> QED
    BY <1>5, <2>1, <2>2, RelayFacts DEF PoolOK, SamePool
<1>7. ListOK(u)
  <2>1. ToSet(Relay.queue) \subseteq Circuits
    BY RelayFacts, ToSetProperties DEF Relays
  <2> QED
    BY <1>2, <1>4, <2>1, RelayFacts DEF ListOK, ListBut
<1>8. TagsOK(u) /\ AnswersOK(u) /\ u.sound
  BY <1>2, <1>4, RelayFacts DEF TagsOK, AnswersOK
<1>9. Good(u)
  BY <1>3, <1>6, <1>7, <1>8 DEF Good
<1>10. quiet => Steady(u) /\ Loaded(u)
  BY <1>4, <1>5 DEF IInv, Steady, Loaded, SamePool
<1> QED
  BY <1>1, <1>9, <1>10, BecomesIInv

\* onionskin_answer: the circuit that is found by the tag is the task's own.
LEMMA AnsweredGood ==
  ASSUME NEW r, Good(r), NEW w \in Workers, r.mode[w] = "busy", NEW good \in BOOLEAN,
         NEW c \in Circuits, r.tag[c] = r.asked[w], ~r.marked[c]
  PROVE  LET u == Answered(r, w, c, good) IN
         Good(u) /\ SamePool(u, r) /\ (u.queue # <<>> => r.queue # <<>>)
<1>1. /\ r.task[w] = c /\ c \notin ToSet(r.queue) /\ r.status[c] # "new"
  BY DEF Good, PoolOK, TaskOK
<1>2. CASE good
  <2>. DEFINE s == [r.status EXCEPT ![c] = "open"]
              a == [r.answers EXCEPT ![c] = r.answers[c] \cup {c}]
              u == [r EXCEPT !.status = s, !.answers = a]
  <2>1. Answered(r, w, c, good) = u
    BY <1>1, <1>2 DEF Answered
  <2>2. r \in Relays
    BY DEF Good
  <2>3. /\ s \in [Circuits -> {"new", "pending", "open", "gone"}]
        /\ a \in [Circuits -> SUBSET Circuits]
        /\ s[c] = "open" /\ a[c] = r.answers[c] \cup {c}
        /\ \A d \in Circuits \ {c} : s[d] = r.status[d] /\ a[d] = r.answers[d]
    BY <2>2 DEF Relays
  <2>. HIDE DEF s, a
  <2>4. u \in Relays
    BY <2>2, <2>3 DEF Relays
  <2>5. /\ u.status = s /\ u.answers = a /\ u.marked = r.marked /\ u.tag = r.tag
        /\ u.used = r.used /\ u.queue = r.queue /\ u.sound = r.sound
    BY <2>2 DEF Relays
  <2>6. SamePool(u, r)
    BY <2>2 DEF Relays, SamePool
  <2>. HIDE DEF u
  <2>7. PoolOK(u)
    <3>1. ASSUME NEW v \in Workers PROVE TaskOK(u, v) /\ (u.mode[v] = "idle" => ~u.old[v])
      <4>1. TaskOK(r, v) /\ (r.mode[v] = "idle" => ~r.old[v])
        BY DEF Good, PoolOK
      <4>2. CASE r.mode[v] # "busy"
        BY <2>6, <4>1, <4>2 DEF TaskOK, SamePool
      <4>3. CASE r.mode[v] = "busy"
        BY <2>3, <2>5, <2>6, <4>1, <4>3 DEF TaskOK, SamePool
      <4> QED
        BY <4>2, <4>3
    <3>2. Alive(u) = Alive(r) /\ In(u, "busy") = In(r, "busy")
      BY <2>6 DEF SamePool, Alive, In
    <3> QED
      BY <2>6, <3>1, <3>2 DEF Good, PoolOK, SamePool
  <2>8. ListOK(u)
    <3>1. ToSet(r.queue) \subseteq Circuits
      BY <2>2, ToSetProperties DEF Relays
    <3> QED
      BY <1>1, <2>3, <2>5, <3>1 DEF Good, ListOK, ListBut
  <2>9. TagsOK(u) /\ AnswersOK(u) /\ u.sound
    BY <1>1, <2>3, <2>5 DEF Good, TagsOK, AnswersOK
  <2> QED
    BY <2>1, <2>4, <2>5, <2>6, <2>7, <2>8, <2>9 DEF Good
<1>3. CASE ~good
  <2>1. Answered(r, w, c, good) = MarkForClose(r, c)
    BY <1>3 DEF Answered
  <2>2. r \in Relays /\ PoolOK(r) /\ ListBut(r, {c}) /\ TagsOK(r) /\ AnswersOK(r) /\ r.sound
    BY DEF Good, ListOK, ListBut
  <2> QED
    BY <1>1, <2>1, <2>2, MarkGood
<1> QED
  BY <1>2, <1>3

LEMMA FinishedFields ==
  ASSUME NEW r \in Relays, NEW w \in Workers
  PROVE  LET u == Finished(r, w) IN
         /\ u \in Relays
         /\ u.mode[w] = "idle" /\ u.task[w] = Nil /\ u.asked[w] = Nil
         /\ \A v \in Workers \ {w} : /\ u.mode[v] = r.mode[v] /\ u.task[v] = r.task[v]
                                     /\ u.asked[v] = r.asked[v]
         /\ u.busy = r.busy - 1
         /\ u.num = r.num /\ u.old = r.old /\ u.queue = r.queue /\ SameCircuits(u, r)
<1>. DEFINE m == [r.mode EXCEPT ![w] = "idle"]
            t == [r.task EXCEPT ![w] = Nil]
            a == [r.asked EXCEPT ![w] = Nil]
            b == r.busy - 1
            u == [r EXCEPT !.mode = m, !.task = t, !.asked = a, !.busy = b]
<1>1. Finished(r, w) = u
  BY DEF Finished
<1>2. /\ m \in [Workers -> {"none", "idle", "busy"}] /\ t \in [Workers -> Circuits \cup {Nil}]
      /\ a \in [Workers -> Tags \cup {Nil}] /\ b \in Int
  BY DEF Relays
<1>3. /\ m[w] = "idle" /\ t[w] = Nil /\ a[w] = Nil
      /\ \A v \in Workers \ {w} : m[v] = r.mode[v] /\ t[v] = r.task[v] /\ a[v] = r.asked[v]
  BY DEF Relays
<1>. HIDE DEF m, t, a
<1>4. u \in Relays
  BY <1>2 DEF Relays
<1>5. /\ u.mode = m /\ u.task = t /\ u.asked = a /\ u.busy = b
      /\ u.num = r.num /\ u.old = r.old /\ u.queue = r.queue
  BY DEF Relays
<1>6. SameCircuits(u, r)
  BY DEF Relays, SameCircuits
<1> QED
  BY <1>1, <1>3, <1>4, <1>5, <1>6

\* "done_processing:", for a worker that stays.
LEMMA FinishedGood ==
  ASSUME NEW r, Good(r), NEW w \in Workers, r.mode[w] = "busy", ~r.old[w]
  PROVE  Good(Finished(r, w))
<1>. DEFINE u == Finished(r, w)
<1>1. /\ u \in Relays
      /\ u.mode[w] = "idle" /\ u.task[w] = Nil /\ u.asked[w] = Nil
      /\ \A v \in Workers \ {w} : /\ u.mode[v] = r.mode[v] /\ u.task[v] = r.task[v]
                                  /\ u.asked[v] = r.asked[v]
      /\ u.busy = r.busy - 1
      /\ u.num = r.num /\ u.old = r.old /\ u.queue = r.queue /\ SameCircuits(u, r)
  BY FinishedFields DEF Good
<1>. HIDE DEF u
<1>2. Alive(u) = Alive(r)
  BY <1>1 DEF Alive
<1>3. u.busy = Cardinality(In(u, "busy"))
  <2>1. In(u, "busy") = In(r, "busy") \ {w} /\ In(r, "busy") \cap {w} = {w}
    BY <1>1 DEF In
  <2>2. Cardinality({w}) = 1
    BY FS_Singleton
  <2>3. In(r, "busy") \in SUBSET Workers /\ {w} \in SUBSET Workers
    BY DEF In
  <2>4. Cardinality(In(u, "busy")) = Cardinality(In(r, "busy")) - 1
    BY <2>1, <2>2, <2>3, CountLess
  <2> QED
    BY <1>1, <2>4 DEF Good, PoolOK
<1>4. ASSUME NEW v \in Workers PROVE TaskOK(u, v) /\ (u.mode[v] = "idle" => ~u.old[v])
  <2>1. TaskOK(r, v) /\ (r.mode[v] = "idle" => ~r.old[v])
    BY DEF Good, PoolOK
  <2>2. CASE v = w
    BY <1>1, <2>2 DEF TaskOK
  <2>3. CASE v # w /\ r.mode[v] # "busy"
    BY <1>1, <2>1, <2>3 DEF TaskOK
  <2>4. CASE v # w /\ r.mode[v] = "busy"
    <3>1. Nil # r.task[v]
      BY <2>1, <2>4, OnionAssumption DEF TaskOK
    <3> QED
      BY <1>1, <2>1, <2>4, <3>1 DEF TaskOK, SameCircuits
  <2> QED
    BY <2>2, <2>3, <2>4
<1>5. PoolOK(u)
  BY <1>1, <1>2, <1>3, <1>4 DEF Good, PoolOK
<1>6. ListOK(u) /\ TagsOK(u) /\ AnswersOK(u) /\ u.sound
  BY <1>1 DEF Good, ListOK, ListBut, TagsOK, AnswersOK, SameCircuits
<1> QED
  BY <1>1, <1>5, <1>6 DEF Good, u

\* "done_processing:", for a worker from before the last rotation.
LEMMA RetiredGood ==
  ASSUME NEW r, Good(r), NEW w \in Workers, r.mode[w] = "busy"
  PROVE  Good(Closed(Finished(r, w), {w}))
<1>. DEFINE x == Finished(r, w)
            u == Closed(x, {w})
<1>1. r \in Relays
  BY DEF Good
<1>2. /\ x \in Relays
      /\ x.mode[w] = "idle" /\ x.task[w] = Nil /\ x.asked[w] = Nil
      /\ \A v \in Workers \ {w} : /\ x.mode[v] = r.mode[v] /\ x.task[v] = r.task[v]
                                  /\ x.asked[v] = r.asked[v]
      /\ x.busy = r.busy - 1
      /\ x.num = r.num /\ x.old = r.old /\ x.queue = r.queue /\ SameCircuits(x, r)
  BY <1>1, FinishedFields
<1>. HIDE DEF x
<1>3. /\ u \in Relays
      /\ u.mode = [v \in Workers |-> IF v \in {w} THEN "none" ELSE x.mode[v]]
      /\ u.task = [v \in Workers |-> IF v \in {w} THEN Nil ELSE x.task[v]]
      /\ u.asked = [v \in Workers |-> IF v \in {w} THEN Nil ELSE x.asked[v]]
      /\ u.num = x.num - Cardinality({w})
      /\ u.busy = x.busy /\ u.old = x.old /\ u.queue = x.queue /\ SameCircuits(u, x)
  BY <1>2, ClosedFields
<1>. HIDE DEF u
<1>4. /\ u.mode = [v \in Workers |-> IF v \in {w} THEN "none" ELSE r.mode[v]]
      /\ u.task = [v \in Workers |-> IF v \in {w} THEN Nil ELSE r.task[v]]
      /\ u.asked = [v \in Workers |-> IF v \in {w} THEN Nil ELSE r.asked[v]]
  BY <1>2, <1>3
<1>5. In(r, "busy") \cap {w} = {w} /\ Cardinality({w}) = 1 /\ {w} \in SUBSET Alive(r)
  BY FS_Singleton DEF In, Alive
<1>6. \A v \in Workers : u.mode[v] = "idle" => ~u.old[v]
  BY <1>2, <1>3, <1>4 DEF Good, PoolOK
<1>7. /\ u.num = r.num - Cardinality({w}) /\ u.queue = r.queue /\ SameCircuits(u, r)
      /\ u.busy = r.busy - Cardinality(In(r, "busy") \cap {w})
  BY <1>2, <1>3, <1>5 DEF SameCircuits
<1>8. Good(u)
  BY <1>3, <1>4, <1>5, <1>6, <1>7, CloseGood
<1> QED
  BY <1>8 DEF u, x

\* connection_cpu_process_inbuf.
LEMMA AnswerIInv ==
  ASSUME IInv, NEW w \in Workers, NEW good \in BOOLEAN, Answer(w, good)
  PROVE  IInv'
<1>. DEFINE r == IF ByTag(asked[w]) = {} THEN Relay
                 ELSE Answered(Relay, w, CHOOSE c \in ByTag(asked[w]) : TRUE, good)
            done == Finished(r, w)
<1>1. PICK u : /\ u \in IF Outdated(w) THEN SpawnEnough(Closed(done, {w}))
                        ELSE ProcessPendingTask(done, w)
               /\ Becomes(u)
  BY DEF Answer
<1>2. mode[w] = "busy"
  BY DEF Answer
<1>3. Good(r) /\ SamePool(r, Relay) /\ (r.queue # <<>> => Relay.queue # <<>>)
  <2>1. CASE ByTag(asked[w]) = {}
    BY <2>1, RelayFacts DEF SamePool
  <2>2. CASE ByTag(asked[w]) # {}
    <3>1. PICK c : c = CHOOSE x \in ByTag(asked[w]) : TRUE
      OBVIOUS
    <3>2. c \in ByTag(asked[w])
      BY <2>2, <3>1
    <3>3. c \in Circuits /\ Relay.tag[c] = Relay.asked[w] /\ ~Relay.marked[c]
      BY <3>2, RelayFacts DEF ByTag
    <3>4. r = Answered(Relay, w, c, good)
      BY <2>2, <3>1
    <3>5. Good(Relay) /\ Relay.mode[w] = "busy"
      BY <1>2, RelayFacts
    <3>. HIDE DEF r
    <3> QED
      BY <3>3, <3>4, <3>5, AnsweredGood
  <2> QED
    BY <2>1, <2>2
<1>. HIDE DEF r
<1>4. r.mode[w] = "busy" /\ r.old = old
  BY <1>2, <1>3, RelayFacts DEF SamePool
<1>5. ASSUME quiet
      PROVE  /\ Steady(r) /\ ~old[w]
             /\ r.queue # <<>> => \A v \in Workers : r.mode[v] = "busy"
  BY <1>3, <1>5, RelayFacts DEF IInv, Steady, Loaded, SamePool
<1>6. CASE old[w]
  <2>1. u \in SpawnEnough(Closed(done, {w}))
    BY <1>1, <1>6 DEF Outdated
  <2>2. Good(Closed(done, {w}))
    BY <1>3, <1>4, RetiredGood
  <2>3. Good(u)
    <3>. HIDE DEF done
    <3> QED
      BY <2>1, <2>2, SpawnGood
  <2> QED
    BY <1>1, <1>5, <1>6, <2>3, BecomesIInv
<1>7. CASE ~old[w]
  <2>1. u \in ProcessPendingTask(done, w)
    BY <1>1, <1>7 DEF Outdated
  <2>2. Good(done)
    BY <1>3, <1>4, <1>7, FinishedGood
  <2>3. /\ done.mode[w] = "idle" /\ done.queue = r.queue /\ done.old = r.old
        /\ \A v \in Workers \ {w} : done.mode[v] = r.mode[v]
    BY <1>3, FinishedFields DEF Good
  <2>. HIDE DEF done
  <2>4. ASSUME quiet
        PROVE  /\ Steady(done)
               /\ done.queue # <<>> => \A v \in Workers \ {w} : done.mode[v] = "busy"
    BY <1>5, <2>3, <2>4 DEF Steady
  <2>5. Good(u) /\ (quiet => Steady(u) /\ Loaded(u))
    BY <2>1, <2>2, <2>3, <2>4, ProcessPendingTaskGood
  <2> QED
    BY <1>1, <2>5, BecomesIInv
<1> QED
  BY <1>6, <1>7

\* cpuworkers_rotate: the idle workers go, and the busy ones are outdated.
LEMMA RotateIInv ==
  ASSUME IInv, Rotate
  PROVE  IInv'
<1>. DEFINE W == In(Relay, "idle")
            x == Closed(Relay, W)
            o == [w \in Workers |-> mode[w] = "busy"]
            u == [x EXCEPT !.old = o]
<1>1. PICK z : z \in SpawnEnough(u) /\ Becomes(z)
  BY DEF Rotate
<1>2. ~quiet
  BY DEF Rotate
<1>3. W \in SUBSET Workers /\ W \in SUBSET Alive(Relay)
  BY DEF In, Alive
<1>4. \A w \in W : Relay.mode[w] = "idle"
  BY DEF In
<1>5. \A w \in Workers : Relay.mode[w] = "idle" => w \in W
  BY DEF In
<1>. HIDE DEF W
<1>6. /\ x \in Relays
      /\ x.mode = [w \in Workers |-> IF w \in W THEN "none" ELSE Relay.mode[w]]
      /\ x.task = [w \in Workers |-> IF w \in W THEN Nil ELSE Relay.task[w]]
      /\ x.asked = [w \in Workers |-> IF w \in W THEN Nil ELSE Relay.asked[w]]
      /\ x.num = Relay.num - Cardinality(W)
      /\ x.busy = Relay.busy /\ x.old = Relay.old /\ x.queue = Relay.queue
      /\ SameCircuits(x, Relay)
  BY <1>3, RelayFacts, ClosedFields
<1>. HIDE DEF x
<1>7. o \in [Workers -> BOOLEAN]
  OBVIOUS
<1>. HIDE DEF o
<1>8. u \in Relays
  BY <1>6, <1>7 DEF Relays
<1>9. /\ u.mode = x.mode /\ u.task = x.task /\ u.asked = x.asked /\ u.num = x.num
      /\ u.busy = x.busy /\ u.queue = x.queue /\ SameCircuits(u, x)
  BY <1>6 DEF Relays, SameCircuits
<1>. HIDE DEF u
<1>10. In(Relay, "busy") \cap W = {}
  BY <1>4 DEF In
<1>11. u.busy = Relay.busy - Cardinality(In(Relay, "busy") \cap W)
  <2>1. Cardinality(In(Relay, "busy") \cap W) = 0
    BY <1>10, FS_EmptySet
  <2>2. Relay.busy \in Int
    BY RelayFacts DEF Relays
  <2> QED
    BY <1>6, <1>9, <2>1, <2>2
<1>12. \A w \in Workers : u.mode[w] # "idle"
  BY <1>5, <1>6, <1>9
<1>13. SameCircuits(u, Relay)
  BY <1>6, <1>9 DEF SameCircuits
<1>14. Good(u)
  BY <1>3, <1>6, <1>8, <1>9, <1>11, <1>12, <1>13, RelayFacts, CloseGood
<1>15. Good(z)
  BY <1>1, <1>14, SpawnGood
<1> QED
  BY <1>1, <1>2, <1>15, BecomesIInv

\* connection_cpu_reached_eof.
LEMMA ReachedEofIInv ==
  ASSUME IInv, NEW w \in Workers, ReachedEof(w)
  PROVE  IInv'
<1>. DEFINE x == Closed(Relay, {w})
            b == IF mode[w] = "busy" THEN x.busy - 1 ELSE x.busy
            u == [x EXCEPT !.busy = b]
<1>1. PICK z : z \in SpawnEnough(u) /\ Becomes(z)
  BY DEF ReachedEof
<1>2. ~quiet /\ mode[w] # "none"
  BY DEF ReachedEof
<1>3. {w} \in SUBSET Workers /\ {w} \in SUBSET Alive(Relay) /\ Cardinality({w}) = 1
  BY <1>2, RelayFacts, FS_Singleton DEF Alive
<1>4. /\ x \in Relays
      /\ x.mode = [v \in Workers |-> IF v \in {w} THEN "none" ELSE Relay.mode[v]]
      /\ x.task = [v \in Workers |-> IF v \in {w} THEN Nil ELSE Relay.task[v]]
      /\ x.asked = [v \in Workers |-> IF v \in {w} THEN Nil ELSE Relay.asked[v]]
      /\ x.num = Relay.num - Cardinality({w})
      /\ x.busy = Relay.busy /\ x.old = Relay.old /\ x.queue = Relay.queue
      /\ SameCircuits(x, Relay)
  BY <1>3, RelayFacts, ClosedFields
<1>. HIDE DEF x
<1>5. b \in Int
  BY <1>4 DEF Relays
<1>6. b = Relay.busy - Cardinality(In(Relay, "busy") \cap {w})
  <2>1. CASE mode[w] = "busy"
    <3>1. In(Relay, "busy") \cap {w} = {w}
      BY <2>1, RelayFacts DEF In
    <3> QED
      BY <1>3, <1>4, <2>1, <3>1
  <2>2. CASE mode[w] # "busy"
    <3>1. In(Relay, "busy") \cap {w} = {}
      BY <2>2, RelayFacts DEF In
    <3>2. Cardinality(In(Relay, "busy") \cap {w}) = 0
      BY <3>1, FS_EmptySet
    <3>3. Relay.busy \in Int
      BY RelayFacts DEF Relays
    <3> QED
      BY <1>4, <2>2, <3>2, <3>3
  <2> QED
    BY <2>1, <2>2
<1>. HIDE DEF b
<1>7. u \in Relays
  BY <1>4, <1>5 DEF Relays
<1>8. /\ u.mode = x.mode /\ u.task = x.task /\ u.asked = x.asked /\ u.num = x.num
      /\ u.busy = b /\ u.old = x.old /\ u.queue = x.queue /\ SameCircuits(u, x)
  BY <1>4 DEF Relays, SameCircuits
<1>. HIDE DEF u
<1>9. \A v \in Workers : u.mode[v] = "idle" => ~u.old[v]
  BY <1>4, <1>8, RelayFacts DEF PoolOK
<1>10. SameCircuits(u, Relay)
  BY <1>4, <1>8 DEF SameCircuits
<1>11. Good(u)
  BY <1>3, <1>4, <1>6, <1>7, <1>8, <1>9, <1>10, RelayFacts, CloseGood
<1>12. Good(z)
  BY <1>1, <1>11, SpawnGood
<1> QED
  BY <1>1, <1>2, <1>12, BecomesIInv
-----------------------------------------------------------------------------
(* The invariant, and what follows from it. *)

LEMMA StepIInv ==
  ASSUME ~TagsReused, IInv, [Next]_vars
  PROVE  IInv'
<1>1. CASE UNCHANGED vars
  <2>1. Relay' = Relay /\ quiet' = quiet
    BY <1>1 DEF vars, Relay
  <2> QED
    BY <2>1 DEF IInv
<1>2. ASSUME NEW c \in Circuits, NEW t \in Tags, Create(c, t) PROVE IInv'
  BY <1>2, CreateIInv
<1>3. ASSUME NEW c \in Circuits, Destroy(c) PROVE IInv'
  BY <1>3, DestroyIInv
<1>4. ASSUME NEW c \in Circuits, Expire(c) PROVE IInv'
  BY <1>4, ExpireIInv
<1>5. CASE FreeMarked
  BY <1>5, FreeMarkedIInv
<1>6. ASSUME NEW w \in Workers, NEW good \in BOOLEAN, Answer(w, good) PROVE IInv'
  BY <1>6, AnswerIInv
<1>7. ASSUME NEW w \in Workers, ReachedEof(w) PROVE IInv'
  BY <1>7, ReachedEofIInv
<1>8. CASE Rotate
  BY <1>8, RotateIInv
<1> QED
  BY <1>1, <1>2, <1>3, <1>4, <1>5, <1>6, <1>7, <1>8 DEF Next

\* The names of the parts of Relay: the invariant says what the properties say.
LEMMA IInvSound ==
  ASSUME IInv
  PROVE  PoolSound /\ NobodyWaitsForIdle
<1>1. OwnAnswer
  BY RelayFacts DEF AnswersOK, OwnAnswer
<1>2. CountersRight
  BY RelayFacts DEF PoolOK, Alive, In, CountersRight
<1>3. QueueSound
  BY RelayFacts DEF ListBut, QueueSound
<1>4. OnePlace
  BY RelayFacts DEF PoolOK, TaskOK, OnePlace
<1>5. FreshKeys
  BY RelayFacts DEF PoolOK, FreshKeys
<1>6. NoAssertFails
  BY RelayFacts DEF NoAssertFails
<1>7. NobodyWaitsForIdle
  BY RelayFacts DEF IInv, Loaded, NobodyWaitsForIdle
<1> QED
  BY <1>1, <1>2, <1>3, <1>4, <1>5, <1>6, <1>7 DEF PoolSound

LEMMA IInvTypeOK ==
  ASSUME IInv
  PROVE  TypeOK
<1>1. /\ status \in [Circuits -> {"new", "pending", "open", "gone"}]
      /\ marked \in [Circuits -> BOOLEAN] /\ tag \in [Circuits -> Tags \cup {Nil}]
      /\ used \in SUBSET Tags /\ queue \in Seq(Circuits)
      /\ mode \in [Workers -> {"none", "idle", "busy"}] /\ old \in [Workers -> BOOLEAN]
      /\ task \in [Workers -> Circuits \cup {Nil}] /\ asked \in [Workers -> Tags \cup {Nil}]
      /\ answers \in [Circuits -> SUBSET Circuits] /\ sound \in BOOLEAN
  BY RelayFacts DEF Relays
<1>2. num \in 0 .. Cardinality(Workers) /\ busy \in 0 .. num
  <2>1. num = Cardinality(Alive(Relay)) /\ busy = Cardinality(In(Relay, "busy"))
    BY RelayFacts DEF PoolOK
  <2>2. /\ Alive(Relay) \in SUBSET Workers /\ In(Relay, "busy") \in SUBSET Workers
        /\ In(Relay, "busy") \in SUBSET Alive(Relay)
    BY DEF Alive, In
  <2>3. Cardinality(Workers) \in Nat
    BY WorkersFinite
  <2>4. Cardinality(Alive(Relay)) \in 0 .. Cardinality(Workers)
    BY <2>2, <2>3, WorkersFinite
  <2>5. Cardinality(In(Relay, "busy")) \in 0 .. Cardinality(Alive(Relay))
    BY <2>2, WorkersFinite, FS_Subset
  <2> QED
    BY <2>1, <2>4, <2>5
<1> QED
  BY <1>1, <1>2 DEF IInv, TypeOK

LEMMA AlwaysIInv ==
  ASSUME ~TagsReused
  PROVE  Spec => []IInv
<1>1. Init => IInv
  BY InitIInv
<1>2. IInv /\ [Next]_vars => IInv'
  BY StepIInv
<1> QED
  BY <1>1, <1>2, PTL DEF Spec

\* The variables keep their types, and the counters their ranges.
THEOREM TypeCorrect ==
  ASSUME ~TagsReused
  PROVE  Spec => []TypeOK
<1>1. IInv => TypeOK
  BY IInvTypeOK
<1> QED
  BY <1>1, AlwaysIInv, PTL

\* cpuworker.c and onion.c: the counters agree with the pool, the list has no
\* dangling circuit, no onionskin is in two places, none is processed with old
\* keys, every answer is its circuit's own, and no tor_assert fails.
THEOREM PoolAlwaysSound ==
  ASSUME ~TagsReused
  PROVE  Spec => []PoolSound
<1>1. IInv => PoolSound
  BY IInvSound
<1> QED
  BY <1>1, AlwaysIInv, PTL

\* "If none idle, queue task" (cpuworker.c): while there are no rotations and
\* no worker fails, a circuit waits only when every worker is busy.
THEOREM IdleNotWaited ==
  ASSUME ~TagsReused
  PROVE  Spec => []NobodyWaitsForIdle
<1>1. IInv => NobodyWaitsForIdle
  BY IInvSound
<1> QED
  BY <1>1, AlwaysIInv, PTL
=============================================================================
