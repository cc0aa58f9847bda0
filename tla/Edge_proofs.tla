---------------------------- MODULE Edge_proofs ----------------------------
(***************************************************************************)
(* The streams at an edge of the network, for every value of the           *)
(* constants.                                                              *)
(*                                                                         *)
(* FlowControl (relay.c): the packaging windows never run dry of the       *)
(* SENDMEs the other end owes, every cell that was packaged is delivered   *)
(* in order or is still on its way, a stream that is blocked is not read,  *)
(* and the detailed model implements the two levels of windows.            *)
(* ResolveCache (dns.c), instanced as R: the pending lists and the states  *)
(* of the connections agree, and every stream's owner is told the outcome  *)
(* of a lookup at most once, when a stream that hangs up is freed before   *)
(* the lookup it waits for expires.                                        *)
(***************************************************************************)
EXTENDS MCEdge, SequenceLemmas

-----------------------------------------------------------------------------
(* The inductive invariant of FlowControl. *)

\* The cells between the packager's queue and the other end, in order.
Line == wire \o queue

DataOf(s) == {Cell("DATA", s)}
DataCells == {Cell("DATA", s) : s \in Streams}
SendmesTo(s) == {Cell("SENDME", s)}

\* The accounts of the circuit's window and of every stream's.
CircuitAccount ==
  /\ pw + Count(Line, DataCells) + CircIncrement * Count(back, SendmesTo(Circuit))
       + (CircStart - CircInitial) = dw
  /\ dw <= CircStart

StreamAccount(s) ==
  /\ spw[s] + Count(Line, DataOf(s)) + StreamIncrement * Count(back, SendmesTo(s)) <= sdw[s]
  /\ sdw[s] <= StreamStart
  /\ pstream[s] = "new" => spw[s] = StreamStart

\* Every cell of data is on one account until its stream is hung up on.
DataAccount(s) ==
  dstream[s] # "hungup" =>
    got[s] + Count(Line, DataOf(s)) + inbuf[s] + supply[s] = Supply[s]

\* An END closes its stream, and no data of the stream is behind it.
HasEnd(q, s) == \E i \in 1 .. Len(q) : q[i] = Cell("END", s)
InOrder(q, s) ==
  \A i, j \in 1 .. Len(q) : i < j /\ q[i] = Cell("END", s) => q[j] # Cell("DATA", s)

EndsLast(s) ==
  /\ HasEnd(back, s) => dstream[s] = "hungup"
  /\ HasEnd(Line, s) => pstream[s] = "closed"
  /\ InOrder(Line, s)
  /\ pstream[s] = "closed" => supply[s] = 0 /\ inbuf[s] = 0
  /\ dstream[s] = "ended" => pstream[s] = "closed" /\ Count(Line, DataOf(s)) = 0

\* The water marks: blocked above the low one, and below the high one otherwise.
QueueMarks ==
  /\ blocked => Len(queue) > Low
  /\ ~blocked => Len(queue) < High
  /\ BlockedIsSilent

IInv ==
  /\ TypeOK /\ Live
  /\ CircuitAccount
  /\ \A s \in Streams : StreamAccount(s) /\ DataAccount(s) /\ EndsLast(s)
  /\ QueueMarks
-----------------------------------------------------------------------------
(* Counting the cells of a queue. *)

LEMMA CountConcat ==
  ASSUME NEW S, NEW p \in Seq(S), NEW q \in Seq(S), NEW C
  PROVE  /\ Count(p, C) \in Nat /\ Count(p, C) <= Len(p)
         /\ Count(p \o q, C) = Count(p, C) + Count(q, C)
<1> DEFINE m == Len(p)
           n == Len(q)
           I == {i \in 1 .. m : p[i] \in C}
           J == {i \in 1 .. n : q[i] \in C}
           K == {m + i : i \in J}
           r == p \o q
<1>1. /\ m \in Nat /\ n \in Nat
      /\ DOMAIN p = 1 .. m /\ DOMAIN q = 1 .. n
      /\ r \in Seq(S) /\ DOMAIN r = 1 .. (m + n)
      /\ \A i \in 1 .. m + n : r[i] = IF i <= m THEN p[i] ELSE q[i - m]
  BY ConcatProperties, LenProperties
<1>2. /\ IsFiniteSet(1 .. m) /\ Cardinality(1 .. m) = m
      /\ IsFiniteSet(1 .. n)
  <2>1. Cardinality(1 .. m) = m
    <3>1. 1 \in Int /\ m \in Int /\ m \in Nat
      BY <1>1
    <3> HIDE DEF m
    <3>2. Cardinality(1 .. m) = (IF 1 > m THEN 0 ELSE m - 1 + 1)
      BY <3>1, FS_Interval
    <3> QED
      BY <3>1, <3>2
  <2> QED
    BY <1>1, <2>1, FS_Interval
<1>3. /\ IsFiniteSet(I) /\ IsFiniteSet(J) /\ Cardinality(I) <= m
  <2>1. I \in SUBSET (1 .. m) /\ J \in SUBSET (1 .. n)
    OBVIOUS
  <2> HIDE DEF I, J, m, n
  <2> QED
    BY <1>2, <2>1, FS_Subset
<1>4. /\ Count(p, C) = Cardinality(I) /\ Count(q, C) = Cardinality(J)
      /\ Count(r, C) = Cardinality({i \in 1 .. (m + n) : r[i] \in C})
  BY <1>1 DEF Count
<1> HIDE DEF m, n, r
<1>5. {i \in 1 .. (m + n) : r[i] \in C} = I \cup K
  <2>1. ASSUME NEW i \in 1 .. (m + n), r[i] \in C PROVE i \in I \cup K
    <3>1. CASE i <= m
      BY <1>1, <2>1, <3>1
    <3>2. CASE ~(i <= m)
      <4>1. i - m \in J /\ m + (i - m) = i
        BY <1>1, <2>1, <3>2
      <4> QED
        BY <4>1
    <3> QED
      BY <3>1, <3>2
  <2>2. ASSUME NEW i \in I PROVE i \in 1 .. (m + n) /\ r[i] \in C
    BY <1>1
  <2>3. ASSUME NEW i \in J PROVE (m + i) \in 1 .. (m + n) /\ r[m + i] \in C
    <3>1. ~(m + i <= m) /\ (m + i) \in 1 .. (m + n) /\ (m + i) - m = i
      BY <1>1
    <3> QED
      BY <1>1, <3>1
  <2> QED
    BY <2>1, <2>2, <2>3
<1>6. IsFiniteSet(K) /\ Cardinality(K) = Cardinality(J)
  <2> DEFINE g == [i \in J |-> m + i]
  <2>1. \A i, j \in J : m + i = m + j => i = j
    BY <1>1
  <2>2. g \in Bijection(J, K)
    <3>1. g \in [J -> K] /\ (\A i, j \in J : g[i] = g[j] => i = j)
          /\ \A y \in K : \E i \in J : g[i] = y
      BY <2>1
    <3> HIDE DEF g, J, K
    <3> QED
      BY <3>1 DEF Bijection, Injection, Surjection, IsInjective
  <2> QED
    BY <1>3, <2>2, FS_Bijection DEF ExistsBijection
<1>7. I \cap K = {}
  <2>1. ASSUME NEW i \in J PROVE m + i \notin 1 .. m
    BY <1>1
  <2> QED
    BY <2>1
<1>8. Cardinality(I \cup K) = Cardinality(I) + Cardinality(K) - Cardinality({})
  <2> HIDE DEF I, K
  <2>1. Cardinality(I \cup K) = Cardinality(I) + Cardinality(K) - Cardinality(I \cap K)
    BY <1>3, <1>6, FS_Union
  <2> QED
    BY <1>7, <2>1
<1>9. Cardinality(I) \in Nat /\ Cardinality(J) \in Nat
  <2> HIDE DEF I, J
  <2> QED
    BY <1>3, FS_CardinalityType
<1>10. Cardinality({}) = 0
  BY FS_EmptySet
<1> HIDE DEF I, J, K
<1>11. Count(p, C) \in Nat /\ Count(p, C) <= m
  BY <1>3, <1>4, <1>9
<1>12. Count(r, C) = Cardinality(I \cup K)
  BY <1>4, <1>5
<1>13. Cardinality(I \cup K) = Cardinality(I) + Cardinality(K)
  BY <1>6, <1>8, <1>9, <1>10
<1> QED
  BY <1>11, <1>12, <1>13, <1>4, <1>6 DEF m, r

Copies(x, k) == [i \in 1 .. k |-> x]

\* k copies of a cell.
LEMMA CountCopies ==
  ASSUME NEW S, NEW x \in S, NEW k \in Nat, NEW C
  PROVE  /\ Copies(x, k) \in Seq(S) /\ Len(Copies(x, k)) = k
         /\ \A i \in 1 .. k : Copies(x, k)[i] = x
         /\ Count(Copies(x, k), C) = IF x \in C THEN k ELSE 0
<1>1. /\ Copies(x, k) \in Seq(S) /\ Len(Copies(x, k)) = k
      /\ DOMAIN Copies(x, k) = 1 .. k /\ \A i \in 1 .. k : Copies(x, k)[i] = x
  BY DEF Copies
<1>2. Cardinality(1 .. k) = k
  BY FS_Interval
<1>3. Cardinality({}) = 0
  BY FS_EmptySet
<1>4. {i \in DOMAIN Copies(x, k) : Copies(x, k)[i] \in C} = IF x \in C THEN 1 .. k ELSE {}
  BY <1>1
<1> QED
  BY <1>1, <1>2, <1>3, <1>4 DEF Count

\* One more cell, and one less.
LEMMA CountOne ==
  ASSUME NEW S, NEW x \in S, NEW C
  PROVE  /\ <<x>> \in Seq(S) /\ Len(<<x>>) = 1
         /\ Count(<<x>>, C) = IF x \in C THEN 1 ELSE 0
<1>1. <<x>> = Copies(x, 1)
  BY DEF Copies
<1> QED
  BY <1>1, CountCopies

LEMMA TakeFirst ==
  ASSUME NEW S, NEW q \in Seq(S), q # <<>>
  PROVE  /\ Head(q) \in S /\ Tail(q) \in Seq(S)
         /\ q = <<Head(q)>> \o Tail(q)
         /\ Len(q) \in Nat \ {0} /\ Len(Tail(q)) = Len(q) - 1
         /\ \A i \in 1 .. Len(Tail(q)) : Tail(q)[i] = q[i + 1]
         /\ Head(q) = q[1]
<1>1. /\ Head(q) \in S /\ Tail(q) \in Seq(S) /\ Len(q) \in Nat \ {0}
      /\ Len(Tail(q)) = Len(q) - 1
      /\ \A i \in 1 .. Len(Tail(q)) : Tail(q)[i] = q[i + 1]
      /\ Head(q) = q[1]
  BY HeadTailProperties, EmptySeq
<1> DEFINE t == Tail(q)
           u == <<Head(q)>> \o t
<1>2. <<Head(q)>> \in Seq(S) /\ Len(<<Head(q)>>) = 1 /\ <<Head(q)>>[1] = Head(q)
  BY <1>1
<1>3. u \in Seq(S) /\ Len(u) = 1 + Len(t)
      /\ \A i \in 1 .. (1 + Len(t)) : u[i] = IF i <= 1 THEN <<Head(q)>>[i] ELSE t[i - 1]
  BY <1>1, <1>2, ConcatProperties
<1> HIDE DEF u, t
<1>4. ASSUME NEW i \in 1 .. Len(q) PROVE q[i] = u[i]
  <2>0. Len(t) = Len(q) - 1 /\ i \in 1 .. (1 + Len(t))
    BY <1>1 DEF t
  <2>1. CASE i = 1
    BY <2>0, <2>1, <1>1, <1>2, <1>3
  <2>2. CASE i # 1
    <3>1. i - 1 \in 1 .. Len(t) /\ ~(i <= 1) /\ (i - 1) + 1 = i
      BY <1>1, <2>0, <2>2
    <3>2. t[i - 1] = q[(i - 1) + 1]
      BY <1>1, <3>1 DEF t
    <3> QED
      BY <3>1, <3>2, <2>0, <1>3
  <2> QED
    BY <2>1, <2>2
<1>5. Len(u) = Len(q)
  BY <1>1, <1>3 DEF t
<1>6. q = u
  BY <1>3, <1>4, <1>5, SeqEqual
<1> QED
  BY <1>1, <1>6 DEF u, t

LEMMA CountFirst ==
  ASSUME NEW S, NEW q \in Seq(S), q # <<>>, NEW C
  PROVE  /\ Count(Tail(q), C) \in Nat
         /\ Count(q, C) = Count(Tail(q), C) + IF Head(q) \in C THEN 1 ELSE 0
<1>1. /\ Head(q) \in S /\ Tail(q) \in Seq(S) /\ q = <<Head(q)>> \o Tail(q)
  BY TakeFirst
<1>2. <<Head(q)>> \in Seq(S) /\ Count(<<Head(q)>>, C) = IF Head(q) \in C THEN 1 ELSE 0
  BY <1>1, CountOne
<1>3. Count(<<Head(q)>> \o Tail(q), C) = Count(<<Head(q)>>, C) + Count(Tail(q), C)
  BY <1>1, <1>2, CountConcat
<1>4. Count(Tail(q), C) \in Nat
  BY <1>1, CountConcat
<1>5. Count(q, C) = Count(<<Head(q)>>, C) + Count(Tail(q), C)
  BY <1>1, <1>3
<1> QED
  BY <1>2, <1>4, <1>5

\* The empty queue.
LEMMA CountEmpty ==
  ASSUME NEW C
  PROVE  Count(<<>>, C) = 0
<1>1. {i \in DOMAIN <<>> : <<>>[i] \in C} = {}
  OBVIOUS
<1> QED
  BY <1>1, FS_EmptySet DEF Count

\* A queue without such cells.
LEMMA CountNone ==
  ASSUME NEW S, NEW q \in Seq(S), NEW C, \A i \in 1 .. Len(q) : q[i] \notin C
  PROVE  Count(q, C) = 0
<1>1. {i \in DOMAIN q : q[i] \in C} = {}
  BY LenProperties
<1> QED
  BY <1>1, FS_EmptySet DEF Count

\* A queue of such cells only.
LEMMA CountEvery ==
  ASSUME NEW S, NEW q \in Seq(S), NEW C, \A i \in 1 .. Len(q) : q[i] \in C
  PROVE  Count(q, C) = Len(q)
<1>1. {i \in DOMAIN q : q[i] \in C} = 1 .. Len(q) /\ Len(q) \in Nat
  BY LenProperties
<1>2. Cardinality(1 .. Len(q)) = Len(q)
  <2>1. Cardinality(1 .. Len(q)) = IF 1 > Len(q) THEN 0 ELSE Len(q) - 1 + 1
    BY <1>1, FS_Interval
  <2> QED
    BY <1>1, <2>1
<1> QED
  BY <1>1, <1>2 DEF Count

LEMMA MinOf ==
  ASSUME NEW T \in SUBSET Nat, T # {}
  PROVE  Min(T) \in T /\ \A n \in T : Min(T) <= n
<1>1. \E n \in T : \A m \in T : n <= m
  BY LeastOf
<1> QED
  BY <1>1 DEF Min
-----------------------------------------------------------------------------
(* What the packaging functions do. *)

EdgeLine(e) == e.wire \o e.queue
OpenStreams == {s \in Streams : pstream[s] = "open"}
OpenData == {Cell("DATA", s) : s \in OpenStreams}

\* The marks are kept, and a blocked stream is not read unless it is new.
Marks(e) ==
  /\ e.idle => e.queue = <<>>
  /\ e.blocked => Len(e.queue) > Low
  /\ ~e.blocked => Len(e.queue) < High
  /\ \A s \in Streams : e.blocked /\ e.reading[s] => e.spw[s] = StreamStart

GoodEdges == {e \in Edges : Marks(e)}

\* From e to f the cells x have been packaged, and are on the windows' accounts.
Sent(e, f, x) ==
  /\ x \in Seq(OpenData)
  /\ EdgeLine(f) = EdgeLine(e) \o x
  /\ f.pw + Len(x) = e.pw
  /\ \A s \in Streams : /\ f.spw[s] + Count(x, DataOf(s)) = e.spw[s]
                        /\ f.inbuf[s] + Count(x, DataOf(s)) = e.inbuf[s]

Packaged(e) == {f \in GoodEdges : \E x \in Seq(OpenData) : Sent(e, f, x)}

\* The constants are numbers.
LEMMA Numbers ==
  /\ CircStart \in Nat /\ CircInitial \in Nat /\ CircIncrement \in Nat \ {0}
  /\ StreamStart \in Nat /\ StreamIncrement \in Nat \ {0}
  /\ High \in Nat /\ Low \in Nat /\ OutbufFull \in Nat
  /\ CircIncrement <= CircInitial /\ CircInitial <= CircStart
  /\ StreamIncrement <= StreamStart /\ Low < High /\ 0 < Low
BY FlowAssumption

LEMMA CellsAre ==
  /\ \A c \in {"DATA", "END", "SENDME"}, s \in Streams \cup {Circuit} : Cell(c, s) \in Cells
  /\ \A c, d, s, t : Cell(c, s) = Cell(d, t) => c = d /\ s = t
  /\ \A c, s : Cell(c, s).cmd = c /\ Cell(c, s).stream = s
BY DEF Cell, Cells

LEMMA OpenDataAre ==
  /\ OpenData \subseteq Cells /\ OpenData \subseteq DataCells
  /\ Seq(OpenData) \subseteq Seq(Cells)
<1>1. OpenData \subseteq Cells /\ OpenData \subseteq DataCells
  BY CellsAre DEF OpenData, OpenStreams, DataCells
<1>2. Seq(OpenData) \subseteq Seq(Cells)
  BY <1>1, SeqMonotonic
<1> QED
  BY <1>1, <1>2

LEMMA CopiesConcat ==
  ASSUME NEW S, NEW x \in S, NEW j \in Nat, NEW k \in Nat
  PROVE  /\ Copies(x, j) \o Copies(x, k) = Copies(x, j + k)
         /\ Copies(x, 0) = <<>>
<1> DEFINE u == Copies(x, j) \o Copies(x, k)
           v == Copies(x, j + k)
<1>1. /\ Copies(x, j) \in Seq(S) /\ Len(Copies(x, j)) = j
      /\ Copies(x, k) \in Seq(S) /\ Len(Copies(x, k)) = k
      /\ \A i \in 1 .. j : Copies(x, j)[i] = x
      /\ \A i \in 1 .. k : Copies(x, k)[i] = x
  BY CountCopies
<1>2. v \in Seq(S) /\ Len(v) = j + k /\ \A i \in 1 .. j + k : v[i] = x
  BY CountCopies
<1>3. u \in Seq(S) /\ Len(u) = j + k
      /\ \A i \in 1 .. j + k : u[i] = IF i <= j THEN Copies(x, j)[i] ELSE Copies(x, k)[i - j]
  BY <1>1, ConcatProperties
<1> HIDE DEF u, v
<1>4. ASSUME NEW i \in 1 .. j + k PROVE u[i] = v[i]
  <2>1. CASE i <= j
    BY <1>1, <1>2, <1>3, <2>1
  <2>2. CASE ~(i <= j)
    <3>1. i - j \in 1 .. k
      BY <2>2
    <3> QED
      BY <1>1, <1>2, <1>3, <2>2, <3>1
  <2> QED
    BY <2>1, <2>2
<1>5. u = v
  BY <1>2, <1>3, <1>4, SeqEqual
<1>6. Copies(x, 0) = <<>>
  BY DEF Copies
<1> QED
  BY <1>5, <1>6 DEF u, v

LEMMA Regroup ==
  ASSUME NEW S, NEW w \in Seq(S), NEW c \in Seq(S), NEW q \in Seq(S), NEW d \in Seq(S)
  PROVE  /\ w \o c \in Seq(S) /\ q \o d \in Seq(S) /\ w \o q \in Seq(S)
         /\ Len(q \o d) = Len(q) + Len(d) /\ Len(q) \in Nat /\ Len(d) \in Nat
         /\ w \o (q \o d) = (w \o q) \o d
         /\ (w \o c) \o d = w \o (c \o d)
<1>1. w \o c \in Seq(S) /\ q \o d \in Seq(S) /\ w \o q \in Seq(S)
  BY ConcatProperties
<1>2. Len(q \o d) = Len(q) + Len(d) /\ Len(q) \in Nat /\ Len(d) \in Nat
  BY ConcatProperties, LenProperties
<1>3. w \o (q \o d) = (w \o q) \o d
  BY ConcatAssociative
<1>4. (w \o c) \o d = w \o (c \o d)
  BY ConcatAssociative
<1> QED
  BY <1>1, <1>2, <1>3, <1>4

\* An idle edge has nothing on its queue.
LEMMA NothingBetween ==
  ASSUME NEW S, NEW q \in Seq(S), Len(q) = 0, NEW w \in Seq(S), NEW d \in Seq(S)
  PROVE  q \o d = d /\ w \o q = w
<1>1. q = <<>>
  BY EmptySeq
<1> QED
  BY <1>1, ConcatEmptySeq

\* Of k copies of x, p go straight to the wire w and the rest on the queue q behind it.
Grown(w, q, x, p, k) ==
  /\ w \o Copies(x, p) \in Seq(Cells) /\ q \o Copies(x, k - p) \in Seq(Cells)
  /\ Len(q \o Copies(x, k - p)) = Len(q) + k - p
  /\ (w \o Copies(x, p)) \o (q \o Copies(x, k - p)) = (w \o q) \o Copies(x, k)

LEMMA LineAssociative ==
  \A a, b, c \in Seq(Cells) : (a \o b) \o c = a \o (b \o c)
<1> SUFFICES ASSUME NEW a \in Seq(Cells), NEW b \in Seq(Cells), NEW c \in Seq(Cells)
             PROVE  (a \o b) \o c = a \o (b \o c)
  OBVIOUS
<1> QED
  BY ConcatAssociative

\* Two pieces at the ends of a wire and of the queue behind it.
LEMMA LineGrows ==
  ASSUME NEW w \in Seq(Cells), NEW q \in Seq(Cells), NEW x \in Cells,
         NEW p \in {0, 1}, NEW k \in Nat, p <= k, p = 1 => Len(q) = 0
  PROVE  Grown(w, q, x, p, k)
<1> DEFINE c == Copies(x, p)
           d == Copies(x, k - p)
<1>0. k - p \in Nat /\ p \in Nat
  OBVIOUS
<1>1. c \in Seq(Cells) /\ d \in Seq(Cells) /\ Len(d) = k - p /\ Copies(x, k) \in Seq(Cells)
  BY <1>0, CountCopies
<1>2. c \o d = Copies(x, k) /\ (p = 0 => Len(c) = 0)
  <2>1. p + (k - p) = k
    BY <1>0
  <2>2. Len(c) = p
    BY <1>0, CountCopies
  <2> QED
    BY <1>0, <2>1, <2>2, CopiesConcat
<1> HIDE DEF c, d
<1>5. c \in Seq(Cells)
  BY <1>1
<1>6. d \in Seq(Cells)
  BY <1>1
<1>3. w \o c \in Seq(Cells) /\ q \o d \in Seq(Cells) /\ Len(q \o d) = Len(q) + (k - p) /\ w \o q \in Seq(Cells)
      /\ Len(q) \in Nat
  <2>1. Len(d) = k - p
    BY <1>1
  <2>2. w \o c \in Seq(Cells) /\ q \o d \in Seq(Cells) /\ Len(q \o d) = Len(q) + Len(d)
        /\ w \o q \in Seq(Cells) /\ Len(q) \in Nat
    BY <1>5, <1>6, Regroup
  <2> QED
    BY <2>1, <2>2
<1>7. w \o (q \o d) = (w \o q) \o d /\ (w \o c) \o d = w \o (c \o d)
  BY <1>5, <1>6, LineAssociative
<1>4. (w \o c) \o (q \o d) = (w \o q) \o Copies(x, k)
  <2>1. CASE p = 0
    <3>1. w \o c = w /\ d = Copies(x, k)
      <4>1. w \o c = w /\ c \o d = d
        BY <1>1, <1>2, <2>1, NothingBetween
      <4> QED
        BY <4>1, <1>2
    <3> QED
      BY <3>1, <1>7
  <2>2. CASE p = 1
    <3>1. q \o d = d /\ w \o q = w
      BY <1>1, <2>2, NothingBetween
    <3> QED
      BY <1>2, <3>1, <1>7
  <2> QED
    BY <2>1, <2>2
<1> QED
  BY <1>0, <1>3, <1>4 DEF c, d, Grown

LEMMA LineGrown ==
  \A w, q \in Seq(Cells), x \in Cells, p \in {0, 1}, k \in Nat :
    p <= k /\ (p = 1 => Len(q) = 0) => Grown(w, q, x, p, k)
BY LineGrows

\* append_cell_to_circuit_queue.
LEMMA Appends ==
  ASSUME NEW e \in GoodEdges, NEW s \in Streams, NEW c \in {"DATA", "END", "SENDME"}, NEW k \in Nat,
         NEW f, f = AppendCells(e, Cell(c, s), k)
  PROVE  /\ f \in GoodEdges
         /\ f.inbuf = e.inbuf /\ f.spw = e.spw /\ f.pw = e.pw
         /\ EdgeLine(f) = EdgeLine(e) \o Copies(Cell(c, s), k)
         /\ f.blocked /\ f.reading[s] => k = 0
<1> DEFINE x == Cell(c, s)
           p == IF e.idle /\ k > 0 THEN 1 ELSE 0
           n == Len(e.queue) + k - p
           w == e.wire \o Copies(x, p)
           q == e.queue \o Copies(x, k - p)
           r == IF e.blocked THEN [e.reading EXCEPT ![s] = @ /\ k = 0]
                ELSE IF n >= High THEN Silent
                ELSE e.reading
           b == e.blocked \/ n >= High
           i == e.idle /\ k = 0
<1>1. x \in Cells /\ x.stream = s
  BY CellsAre
<1>2. /\ e.inbuf \in [Streams -> Nat] /\ e.reading \in [Streams -> BOOLEAN]
      /\ e.spw \in [Streams -> Nat] /\ e.pw \in Nat /\ e.blocked \in BOOLEAN
      /\ e.queue \in Seq(Cells) /\ e.wire \in Seq(Cells) /\ e.idle \in BOOLEAN /\ Marks(e)
  BY DEF GoodEdges, Edges
<1>3. f = [e EXCEPT !.idle = i, !.wire = w, !.queue = q, !.blocked = b, !.reading = r]
  BY <1>1 DEF AppendCells, Copies
<1>4. Len(e.queue) \in Nat
  BY <1>2, LenProperties
<1>5. p \in {0, 1} /\ p <= k /\ (p = 1 => Len(e.queue) = 0)
  BY <1>2 DEF Marks
<1> DEFINE ew == e.wire
           eq == e.queue
<1>20. ew \in Seq(Cells) /\ eq \in Seq(Cells) /\ (p = 1 => Len(eq) = 0)
  BY <1>2, <1>5
<1> HIDE DEF x, p, ew, eq
<1>21. ew \o Copies(x, p) \in Seq(Cells) /\ eq \o Copies(x, k - p) \in Seq(Cells)
      /\ Len(eq \o Copies(x, k - p)) = Len(eq) + k - p
      /\ (ew \o Copies(x, p)) \o (eq \o Copies(x, k - p)) = (ew \o eq) \o Copies(x, k)
  <2>1. Grown(ew, eq, x, p, k)
    BY <1>1, <1>20, <1>5, LineGrown
  <2> QED
    BY <2>1 DEF Grown
<1>6. w \in Seq(Cells) /\ q \in Seq(Cells) /\ Len(q) = n
      /\ w \o q = (e.wire \o e.queue) \o Copies(x, k)
  BY <1>21 DEF ew, eq
<1>7. n \in Nat /\ n >= Len(e.queue)
  BY <1>4, <1>5
<1> HIDE DEF w, q, n
<1>8. r \in [Streams -> BOOLEAN] /\ b \in BOOLEAN /\ i \in BOOLEAN
      /\ \A t \in Streams : b /\ r[t] => e.blocked /\ e.reading[t] /\ (t = s => k = 0)
  BY <1>2, <1>7 DEF Silent
<1>9. (i => q = <<>>) /\ (b => n > Low) /\ (~b => n < High)
  <2>1. i => q = <<>>
    <3>1. ASSUME i PROVE k = 0 /\ e.queue = <<>> /\ p = 0
      BY <3>1, <1>2 DEF Marks, p
    <3>2. ASSUME i PROVE q = <<>> \o <<>>
      <4>1. Copies(x, 0) = <<>> /\ 0 - 0 = 0
        BY CopiesConcat, <1>1
      <4> QED
        BY <3>1, <3>2, <4>1 DEF q
    <3>3. <<>> \o <<>> = <<>>
      OBVIOUS
    <3> QED
      BY <3>2, <3>3
  <2>2. b => n > Low
    BY <1>2, <1>4, <1>7, Numbers DEF Marks
  <2>3. ~b => n < High
    BY <1>7, Numbers
  <2> QED
    BY <2>1, <2>2, <2>3
<1> HIDE DEF r, b, i
<1>10. /\ f.idle = i /\ f.wire = w /\ f.queue = q /\ f.blocked = b /\ f.reading = r
       /\ f.inbuf = e.inbuf /\ f.spw = e.spw /\ f.pw = e.pw /\ f \in Edges
  BY <1>2, <1>3, <1>6, <1>8 DEF GoodEdges, Edges
<1>11. Marks(f)
  BY <1>2, <1>6, <1>8, <1>9, <1>10 DEF Marks
<1>12. f \in GoodEdges
  BY <1>10, <1>11 DEF GoodEdges
<1>13. EdgeLine(f) = EdgeLine(e) \o Copies(x, k)
  BY <1>6, <1>10 DEF EdgeLine
<1> QED
  BY <1>8, <1>10, <1>12, <1>13 DEF x

\* One END cell of a stream.
EndAppended(f, h, s) ==
  /\ h \in GoodEdges /\ h.inbuf = f.inbuf /\ h.spw = f.spw /\ h.pw = f.pw
  /\ EdgeLine(h) = EdgeLine(f) \o Copies(Cell("END", s), 1)

LEMMA AppendsEnd ==
  \A f \in GoodEdges, s \in Streams :
    \A h : h = AppendCells(f, Cell("END", s), 1) => EndAppended(f, h, s)
<1> SUFFICES ASSUME NEW f \in GoodEdges, NEW s \in Streams, NEW h,
                    h = AppendCells(f, Cell("END", s), 1)
             PROVE  EndAppended(f, h, s)
  OBVIOUS
<1>1. "END" \in {"DATA", "END", "SENDME"} /\ 1 \in Nat
  OBVIOUS
<1> QED
  BY <1>1, Appends DEF EndAppended

\* Whatever the marks, the types are kept.
LEMMA AppendsTyped ==
  ASSUME NEW e \in Edges, NEW s \in Streams, NEW k \in Nat,
         NEW f, f = AppendCells(e, Cell("DATA", s), k)
  PROVE  f \in Edges /\ f.inbuf = e.inbuf /\ f.spw = e.spw /\ f.pw = e.pw
<1> DEFINE x == Cell("DATA", s)
           p == IF e.idle /\ k > 0 THEN 1 ELSE 0
           n == Len(e.queue) + k - p
           w == e.wire \o Copies(x, p)
           q == e.queue \o Copies(x, k - p)
           r == IF e.blocked THEN [e.reading EXCEPT ![s] = @ /\ k = 0]
                ELSE IF n >= High THEN Silent
                ELSE e.reading
           b == e.blocked \/ n >= High
           i == e.idle /\ k = 0
<1>1. x \in Cells /\ x.stream = s
  BY CellsAre
<1>2. /\ e.inbuf \in [Streams -> Nat] /\ e.reading \in [Streams -> BOOLEAN]
      /\ e.spw \in [Streams -> Nat] /\ e.pw \in Nat /\ e.blocked \in BOOLEAN
      /\ e.queue \in Seq(Cells) /\ e.wire \in Seq(Cells) /\ e.idle \in BOOLEAN
  BY DEF Edges
<1>3. f = [e EXCEPT !.idle = i, !.wire = w, !.queue = q, !.blocked = b, !.reading = r]
  BY <1>1 DEF AppendCells, Copies
<1>4. p \in Nat /\ k - p \in Nat
  OBVIOUS
<1> HIDE DEF x, p
<1>5. Copies(x, p) \in Seq(Cells) /\ Copies(x, k - p) \in Seq(Cells)
  BY <1>1, <1>4, CountCopies
<1>6. w \in Seq(Cells) /\ q \in Seq(Cells)
  BY <1>2, <1>5, ConcatProperties
<1>7. r \in [Streams -> BOOLEAN] /\ b \in BOOLEAN /\ i \in BOOLEAN
  BY <1>2 DEF Silent
<1> HIDE DEF w, q, n, r, b, i
<1> QED
  BY <1>2, <1>3, <1>6, <1>7 DEF Edges

\* What connection_edge_package_raw_inbuf may package.
LEMMA PackableIs ==
  ASSUME NEW e \in Edges, NEW s \in Streams, NEW max \in Nat, NEW k, k = Packable(e, s, max)
  PROVE  /\ k \in Nat /\ k <= e.inbuf[s] /\ k <= e.spw[s] /\ k <= e.pw /\ k <= max
         /\ Counted(e, s, max) \in Nat
<1> DEFINE T == {e.inbuf[s], e.spw[s], e.pw, max}
<1>1. T \in SUBSET Nat /\ T # {}
  BY DEF Edges
<1>2. Min(T) \in T /\ \A n \in T : Min(T) <= n
  <2> HIDE DEF T
  <2> QED
    BY <1>1, MinOf
<1>3. k \in Nat /\ k <= e.inbuf[s] /\ k <= e.spw[s] /\ k <= e.pw /\ k <= max
  BY <1>1, <1>2 DEF Packable
<1>4. Counted(e, s, max) \in Nat
  BY <1>3 DEF Counted
<1> QED
  BY <1>3, <1>4

Reads(f, s, k) == IF f.pw = k THEN Silent
                  ELSE IF f.spw[s] = k THEN [f.reading EXCEPT ![s] = FALSE]
                  ELSE f.reading

LEMMA PackageRawIs ==
  ASSUME NEW e \in Edges, NEW s \in Streams, NEW max \in Nat,
         NEW k, k = Packable(e, s, max),
         NEW f, f = AppendCells(e, Cell("DATA", s), k),
         NEW g, g = PackageRaw(e, s, max)
  PROVE  /\ g \in Edges /\ f \in Edges
         /\ g.inbuf = [e.inbuf EXCEPT ![s] = @ - k] /\ g.spw = [e.spw EXCEPT ![s] = @ - k]
         /\ g.pw = e.pw - k /\ g.reading = Reads(f, s, k)
         /\ g.blocked = f.blocked /\ g.queue = f.queue /\ g.wire = f.wire /\ g.idle = f.idle
         /\ g.inbuf[s] \in Nat /\ g.pw \in Nat
<1>1. k \in Nat /\ k <= e.inbuf[s] /\ k <= e.spw[s] /\ k <= e.pw
  BY PackableIs
<1>2. f \in Edges /\ f.inbuf = e.inbuf /\ f.spw = e.spw /\ f.pw = e.pw
  BY <1>1, AppendsTyped
<1> DEFINE i == [e.inbuf EXCEPT ![s] = @ - k]
           c == [e.spw EXCEPT ![s] = @ - k]
           n == e.pw - k
           r == Reads(f, s, k)
<1>3. g = [f EXCEPT !.inbuf = i, !.spw = c, !.pw = n, !.reading = r]
  BY <1>2 DEF PackageRaw, Reads, Edges
<1>4. i \in [Streams -> Nat] /\ c \in [Streams -> Nat] /\ n \in Nat
  BY <1>1 DEF Edges
<1>5. r \in [Streams -> BOOLEAN]
  BY <1>2 DEF Reads, Silent, Edges
<1> HIDE DEF i, c, n, r
<1>6. /\ g \in Edges /\ g.inbuf = i /\ g.spw = c /\ g.pw = n /\ g.reading = r
      /\ g.blocked = f.blocked /\ g.queue = f.queue /\ g.wire = f.wire /\ g.idle = f.idle
  BY <1>2, <1>3, <1>4, <1>5 DEF Edges
<1>7. g.inbuf[s] \in Nat
  BY <1>6 DEF Edges
<1> QED
  BY <1>2, <1>4, <1>6, <1>7 DEF i, c, n, r

LEMMA PackageRawTyped ==
  ASSUME NEW e \in Edges, NEW s \in Streams, NEW max \in Nat
  PROVE  PackageRaw(e, s, max) \in Edges
<1> DEFINE k == Packable(e, s, max)
           f == AppendCells(e, Cell("DATA", s), k)
           g == PackageRaw(e, s, max)
<1>1. g \in Edges
  <2> HIDE DEF g, f, k
  <2>1. k = Packable(e, s, max) /\ f = AppendCells(e, Cell("DATA", s), k) /\ g = PackageRaw(e, s, max)
    BY DEF k, f, g
  <2> QED
    BY <2>1, PackageRawIs
<1> QED
  BY <1>1

LEMMA GoodAre ==
  /\ GoodEdges \subseteq Edges
  /\ OpenStreams \subseteq Streams
BY DEF GoodEdges, OpenStreams

\* connection_edge_package_raw_inbuf packages data of its stream, and charges it.
LEMMA Packages ==
  ASSUME NEW e \in GoodEdges, NEW s \in OpenStreams, NEW max \in Nat,
         NEW g, g = PackageRaw(e, s, max)
  PROVE  g \in Packaged(e)
<1> DEFINE k == Packable(e, s, max)
           f == AppendCells(e, Cell("DATA", s), k)
           x == Copies(Cell("DATA", s), k)
<1>0. e \in Edges /\ s \in Streams
  BY GoodAre
<1>1. k \in Nat /\ k <= e.inbuf[s] /\ k <= e.spw[s] /\ k <= e.pw
  BY <1>0, PackableIs
<1> HIDE DEF k
<1>2. /\ f \in GoodEdges /\ f.inbuf = e.inbuf /\ f.spw = e.spw /\ f.pw = e.pw
      /\ EdgeLine(f) = EdgeLine(e) \o Copies(Cell("DATA", s), k)
      /\ f.blocked /\ f.reading[s] => k = 0
  BY <1>0, <1>1, Appends
<1> HIDE DEF f
<1>3. /\ g \in Edges
      /\ g.inbuf = [e.inbuf EXCEPT ![s] = @ - k] /\ g.spw = [e.spw EXCEPT ![s] = @ - k]
      /\ g.pw = e.pw - k /\ g.reading = Reads(f, s, k)
      /\ g.blocked = f.blocked /\ g.queue = f.queue /\ g.wire = f.wire /\ g.idle = f.idle
  BY <1>0, PackageRawIs DEF k, f
<1>4. Marks(g)
  <2>0. Marks(f) /\ f \in Edges
    BY <1>2 DEF GoodEdges
  <2>1. \A t \in Streams : g.reading[t] => f.reading[t]
    BY <1>0, <1>3, <2>0 DEF Reads, Silent, Edges
  <2>2. ASSUME NEW t \in Streams, g.blocked, g.reading[t]
        PROVE  g.spw[t] = StreamStart
    <3>1. f.blocked /\ f.reading[t] /\ f.spw[t] = StreamStart /\ e.spw[t] = StreamStart
      BY <1>2, <1>3, <2>0, <2>1, <2>2 DEF Marks
    <3>2. e.spw \in [Streams -> Nat]
      BY <1>0 DEF Edges
    <3>3. t = s => k = 0
      BY <1>2, <3>1
    <3>4. g.spw[t] = IF t = s THEN e.spw[t] - k ELSE e.spw[t]
      BY <1>0, <1>3, <3>2
    <3> QED
      BY <3>1, <3>2, <3>3, <3>4, Numbers
  <2> QED
    BY <1>3, <2>0, <2>2 DEF Marks
<1>5. Cell("DATA", s) \in OpenData
  BY DEF OpenData
<1>6. x \in Seq(OpenData) /\ Len(x) = k
      /\ \A C : Count(x, C) = IF Cell("DATA", s) \in C THEN k ELSE 0
  BY <1>1, <1>5, CountCopies
<1> HIDE DEF x
<1>7. \A t \in Streams : Count(x, DataOf(t)) = IF t = s THEN k ELSE 0
  BY <1>6, CellsAre DEF DataOf
<1>8. Sent(e, g, x)
  <2>1. EdgeLine(g) = EdgeLine(e) \o x
    BY <1>2, <1>3 DEF EdgeLine, x
  <2>2. g.pw + Len(x) = e.pw
    BY <1>0, <1>1, <1>3, <1>6 DEF Edges
  <2>3. ASSUME NEW t \in Streams
        PROVE  /\ g.spw[t] + Count(x, DataOf(t)) = e.spw[t]
               /\ g.inbuf[t] + Count(x, DataOf(t)) = e.inbuf[t]
    <3>1. e.spw \in [Streams -> Nat] /\ e.inbuf \in [Streams -> Nat]
      BY <1>0 DEF Edges
    <3>2. /\ g.spw[t] = IF t = s THEN e.spw[t] - k ELSE e.spw[t]
          /\ g.inbuf[t] = IF t = s THEN e.inbuf[t] - k ELSE e.inbuf[t]
      BY <1>0, <1>3, <3>1
    <3> QED
      BY <1>1, <1>7, <3>1, <3>2
  <2> QED
    BY <1>6, <2>1, <2>2, <2>3 DEF Sent
<1> QED
  BY <1>3, <1>4, <1>6, <1>8 DEF Packaged, GoodEdges

LEMMA PackagedNothing ==
  ASSUME NEW e \in GoodEdges
  PROVE  e \in Packaged(e)
<1>1. <<>> \in Seq(OpenData) /\ Len(<<>>) = 0 /\ \A C : Count(<<>>, C) = 0
  BY CountEmpty, EmptySeq
<1>2. /\ EdgeLine(e) \in Seq(Cells) /\ e.pw \in Nat
      /\ e.spw \in [Streams -> Nat] /\ e.inbuf \in [Streams -> Nat]
  <2>1. e.wire \in Seq(Cells) /\ e.queue \in Seq(Cells)
    BY DEF GoodEdges, Edges
  <2>2. e.wire \o e.queue \in Seq(Cells)
    BY <2>1, ConcatProperties
  <2> QED
    BY <2>2 DEF GoodEdges, Edges, EdgeLine
<1>3. EdgeLine(e) = EdgeLine(e) \o <<>>
  BY <1>2, ConcatEmptySeq
<1>4. \A s \in Streams : Count(<<>>, DataOf(s)) = 0
  BY <1>1
<1>5. Sent(e, e, <<>>)
  BY <1>1, <1>2, <1>3, <1>4 DEF Sent
<1> QED
  BY <1>1, <1>5 DEF Packaged

LEMMA PackagedMore ==
  ASSUME NEW e \in GoodEdges, NEW f \in Packaged(e), NEW g \in Packaged(f)
  PROVE  g \in Packaged(e)
<1>1. f \in GoodEdges /\ g \in GoodEdges
  BY DEF Packaged
<1>2. PICK x \in Seq(OpenData) : Sent(e, f, x)
  BY DEF Packaged
<1>3. PICK y \in Seq(OpenData) : Sent(f, g, y)
  BY DEF Packaged
<1> DEFINE z == x \o y
<1>4. z \in Seq(OpenData) /\ Len(z) = Len(x) + Len(y) /\ Len(x) \in Nat /\ Len(y) \in Nat
  BY ConcatProperties, LenProperties
<1>5. ASSUME NEW C
      PROVE  Count(z, C) = Count(x, C) + Count(y, C) /\ Count(x, C) \in Nat /\ Count(y, C) \in Nat
  BY CountConcat
<1>6. /\ e.pw \in Nat /\ f.pw \in Nat /\ g.pw \in Nat
      /\ \A s \in Streams : /\ e.spw[s] \in Nat /\ f.spw[s] \in Nat /\ g.spw[s] \in Nat
                            /\ e.inbuf[s] \in Nat /\ f.inbuf[s] \in Nat /\ g.inbuf[s] \in Nat
  BY <1>1 DEF GoodEdges, Edges
<1>7. EdgeLine(g) = EdgeLine(e) \o z
  <2>1. EdgeLine(e) \in Seq(Cells)
    <3>1. e.wire \in Seq(Cells) /\ e.queue \in Seq(Cells)
      BY DEF GoodEdges, Edges
    <3> QED
      BY <3>1, ConcatProperties DEF EdgeLine
  <2>2. x \in Seq(Cells) /\ y \in Seq(Cells)
    BY OpenDataAre
  <2>3. EdgeLine(g) = (EdgeLine(e) \o x) \o y
    BY <1>2, <1>3 DEF Sent
  <2> QED
    BY <2>1, <2>2, <2>3, LineAssociative
<1>8. g.pw + Len(z) = e.pw
  BY <1>2, <1>3, <1>4, <1>6 DEF Sent
<1> HIDE DEF z
<1>9. ASSUME NEW s \in Streams
      PROVE  /\ g.spw[s] + Count(z, DataOf(s)) = e.spw[s]
             /\ g.inbuf[s] + Count(z, DataOf(s)) = e.inbuf[s]
  <2>1. Count(z, DataOf(s)) = Count(x, DataOf(s)) + Count(y, DataOf(s))
        /\ Count(x, DataOf(s)) \in Nat /\ Count(y, DataOf(s)) \in Nat
    BY <1>5
  <2>2. f.spw[s] + Count(x, DataOf(s)) = e.spw[s] /\ f.inbuf[s] + Count(x, DataOf(s)) = e.inbuf[s]
    BY <1>2 DEF Sent
  <2>3. g.spw[s] + Count(y, DataOf(s)) = f.spw[s] /\ g.inbuf[s] + Count(y, DataOf(s)) = f.inbuf[s]
    BY <1>3 DEF Sent
  <2>4. /\ e.spw[s] \in Nat /\ f.spw[s] \in Nat /\ g.spw[s] \in Nat
        /\ e.inbuf[s] \in Nat /\ f.inbuf[s] \in Nat /\ g.inbuf[s] \in Nat
    BY <1>6
  <2>5. g.spw[s] + Count(z, DataOf(s)) = e.spw[s]
    BY <2>1, <2>2, <2>3, <2>4
  <2>6. g.inbuf[s] + Count(z, DataOf(s)) = e.inbuf[s]
    BY <2>1, <2>2, <2>3, <2>4
  <2> QED
    BY <2>5, <2>6
<1>10. Sent(e, g, z)
  BY <1>4, <1>7, <1>8, <1>9 DEF Sent
<1> QED
  BY <1>1, <1>4, <1>10 DEF Packaged
-----------------------------------------------------------------------------
(* The packaging rounds end, and package what the windows allow. *)

\* A turn of the packaging loop: at the end of the list, for one stream, or the last.
AtEnd(t) == t.at > Len(StreamList)
Another(t) == t.packaged \in 1 .. t.budget - 1 /\ t.left > 0
Turned(t) == StreamList[t.at]
Packs(t) == PackageRaw(t.edge, Turned(t), t.share)

Over(t) == IF AtEnd(t) THEN ~Another(t)
           ELSE Turned(t) \in Resumable(t.edge) /\ Packs(t).pw = 0

LastEdge(t) == IF AtEnd(t) THEN t.edge ELSE Packs(t)

NextTurn(t) ==
  IF AtEnd(t) THEN NewRound(t.edge, t.budget - t.packaged, t.left)
  ELSE IF Turned(t) \notin Resumable(t.edge) THEN [t EXCEPT !.at = @ + 1]
  ELSE [t EXCEPT !.at = @ + 1,
                 !.edge = Packs(t),
                 !.packaged = @ + Counted(t.edge, Turned(t), t.share),
                 !.left = @ + (IF Packs(t).inbuf[Turned(t)] > 0 THEN 1 ELSE 0)]

\* Either the budget shrinks, or the list does.
TurnOrder ==
  {p \in Turns \X Turns :
     \/ p[1].budget < p[2].budget
     \/ p[1].budget = p[2].budget /\ ~AtEnd(p[2]) /\ p[1].at > p[2].at}

LEMMA ListLength == Len(StreamList) \in Nat
BY FlowAssumption, LenProperties

LEMMA TurnOrderWellFounded == IsWellFoundedOn(TurnOrder, Turns)
<1> DEFINE Rest(t) == IF AtEnd(t) THEN 0 ELSE Len(StreamList) + 1 - t.at
<1>1. ASSUME NEW T \in SUBSET Turns, T # {}
      PROVE  \E t \in T : \A u \in T : ~ (<<u, t>> \in TurnOrder)
  <2>1. {t.budget : t \in T} \in SUBSET Nat /\ {t.budget : t \in T} # {}
    BY <1>1 DEF Turns
  <2>2. PICK b \in {t.budget : t \in T} : \A c \in {t.budget : t \in T} : b <= c
    BY <2>1, LeastOf
  <2> DEFINE U == {t \in T : t.budget = b}
  <2>3. {Rest(t) : t \in U} \in SUBSET Nat /\ {Rest(t) : t \in U} # {}
    <3>1. ASSUME NEW t \in Turns PROVE Rest(t) \in Nat
      BY ListLength DEF Turns, AtEnd
    <3> HIDE DEF Rest
    <3> QED
      BY <3>1, <2>2, <1>1
  <2>4. PICK m \in {Rest(t) : t \in U} : \A n \in {Rest(t) : t \in U} : m <= n
    BY <2>3, LeastOf
  <2>5. PICK t \in U : m = Rest(t)
    BY <2>4
  <2>6. ASSUME NEW u \in T, <<u, t>> \in TurnOrder PROVE FALSE
    <3>1. u \in Turns /\ t \in Turns /\ t \in T
      BY <1>1, <2>5
    <3>2. b <= u.budget /\ t.budget = b /\ u.budget \in Nat /\ b \in Nat
      BY <2>2, <2>5, <2>6, <3>1 DEF Turns
    <3>3. u.budget = b /\ ~AtEnd(t) /\ u.at > t.at
      BY <2>6, <3>2 DEF TurnOrder
    <3>4. u \in U
      BY <3>3, <2>6
    <3>5. Rest(t) <= Rest(u)
      BY <2>4, <2>5, <3>4
    <3>6. u.at \in Nat /\ t.at \in Nat
      BY <3>1 DEF Turns
    <3> QED
      BY <3>3, <3>5, <3>6, ListLength DEF AtEnd
  <2> QED
    BY <2>5, <2>6
<1> QED
  BY <1>1, MinWF

\* A turn that is not the last has a next one, lower in the order.
LEMMA TurnsGoOn ==
  ASSUME NEW t \in Turns, ~Over(t)
  PROVE  /\ NextTurn(t) \in Turns
         /\ <<NextTurn(t), t>> \in TurnOrder
<1>1. /\ t.edge \in Edges /\ t.at \in Nat /\ t.share \in Nat
      /\ t.packaged \in Nat /\ t.left \in Nat /\ t.budget \in Nat
  BY DEF Turns
<1>2. CASE AtEnd(t)
  <2> DEFINE b == t.budget - t.packaged
             c == CeilDiv(b, t.left)
  <2>1. t.packaged \in 1 .. t.budget - 1 /\ t.left > 0
    BY <1>2 DEF Over, Another
  <2>2. b \in Nat /\ b < t.budget
    BY <1>1, <2>1
  <2>3. c \in Nat
    BY <1>1, <2>1, <2>2 DEF CeilDiv
  <2>4. NextTurn(t) = [edge |-> t.edge, at |-> 1, share |-> c,
                       packaged |-> 0, left |-> 0, budget |-> b]
    BY <1>2 DEF NextTurn, NewRound
  <2> HIDE DEF b, c
  <2>5. NextTurn(t) \in Turns /\ NextTurn(t).budget = b
    BY <1>1, <2>2, <2>3, <2>4 DEF Turns
  <2> QED
    BY <2>2, <2>5 DEF TurnOrder
<1>3. CASE ~AtEnd(t) /\ Turned(t) \notin Resumable(t.edge)
  <2>1. NextTurn(t) = [t EXCEPT !.at = @ + 1]
    BY <1>3 DEF NextTurn
  <2>2. NextTurn(t) \in Turns /\ NextTurn(t).budget = t.budget /\ NextTurn(t).at = t.at + 1
    BY <1>1, <2>1 DEF Turns
  <2> QED
    BY <1>1, <1>3, <2>2 DEF TurnOrder
<1>4. CASE ~AtEnd(t) /\ Turned(t) \in Resumable(t.edge)
  <2> DEFINE s == Turned(t)
             g == Packs(t)
             p == t.packaged + Counted(t.edge, s, t.share)
             l == t.left + (IF g.inbuf[s] > 0 THEN 1 ELSE 0)
             a == t.at + 1
  <2>1. s \in Streams
    BY <1>4 DEF Resumable
  <2>2. g \in Edges
    BY <1>1, <2>1, PackageRawTyped DEF Packs
  <2>3. p \in Nat /\ l \in Nat /\ a \in Nat
    <3>1. Counted(t.edge, s, t.share) \in Nat
      BY <1>1, <2>1, PackableIs
    <3> QED
      BY <1>1, <3>1
  <2>4. NextTurn(t) = [t EXCEPT !.at = a, !.edge = g, !.packaged = p, !.left = l]
    BY <1>1, <1>4 DEF NextTurn, Turns
  <2> HIDE DEF s, g, p, l, a
  <2>5. NextTurn(t) \in Turns /\ NextTurn(t).budget = t.budget /\ NextTurn(t).at = a
    BY <1>1, <2>2, <2>3, <2>4 DEF Turns
  <2> QED
    BY <1>1, <1>4, <2>5 DEF TurnOrder, a
<1> QED
  BY <1>2, <1>3, <1>4

LEMMA LastEdgeTyped ==
  ASSUME NEW t \in Turns, Over(t)
  PROVE  LastEdge(t) \in Edges
<1>1. t.edge \in Edges /\ t.share \in Nat
  BY DEF Turns
<1>2. CASE AtEnd(t)
  BY <1>1, <1>2 DEF LastEdge
<1>3. CASE ~AtEnd(t)
  <2>1. Turned(t) \in Streams
    BY <1>3 DEF Over, Resumable
  <2> QED
    BY <1>1, <1>3, <2>1, PackageRawTyped DEF LastEdge, Packs
<1> QED
  BY <1>2, <1>3

\* The packaging loop has a result, and it is that of its next turn.
LEMMA PackagingGoesOn ==
  ASSUME NEW t \in Turns
  PROVE  PackagingFrom[t] = IF Over(t) THEN LastEdge(t) ELSE PackagingFrom[NextTurn(t)]
<1> DEFINE B == {u \in Turns : Over(u)}
           X == Edges
           some == CHOOSE e : e \in Edges
           base == [u \in Turns |-> IF Over(u) THEN LastEdge(u) ELSE u.edge]
           pre == [u \in Turns |-> NextTurn(u)]
           D == [p \in Turns \X X |-> p[2]]
           Body(f, u) ==
             IF u.at > Len(StreamList)
             THEN IF u.packaged \in 1 .. u.budget - 1 /\ u.left > 0
                    THEN f[NewRound(u.edge, u.budget - u.packaged, u.left)]
                    ELSE u.edge
             ELSE LET s == StreamList[u.at]
                      g == PackageRaw(u.edge, s, u.share)
                  IN  IF s \notin Resumable(u.edge)
                        THEN f[[u EXCEPT !.at = @ + 1]]
                      ELSE IF g.pw = 0
                        THEN g
                      ELSE f[[u EXCEPT
                             !.at = @ + 1,
                             !.edge = g,
                             !.packaged = @ + Counted(u.edge, s, u.share),
                             !.left = @ + (IF g.inbuf[s] > 0 THEN 1 ELSE 0)]]
<1>1. B \in SUBSET Turns /\ base \in [Turns -> X] /\ D \in [Turns \X X -> X]
  <2>1. \A u \in Turns : (IF Over(u) THEN LastEdge(u) ELSE u.edge) \in Edges
    BY LastEdgeTyped DEF Turns
  <2> QED
    BY <2>1
<1>2. \A u \in Turns \ B : pre[u] \in Turns /\ <<pre[u], u>> \in TurnOrder
  BY TurnsGoOn
<1>3. PICK f : Computes(f, Turns, Turns, B, pre, X, base, D)
  <2> HIDE DEF B, X, base, pre, D
  <2> QED
    BY <1>1, <1>2, TurnOrderWellFounded, RecursionExists
<1>4. f \in [Turns -> X]
  BY <1>3 DEF Computes
<1>5. ASSUME NEW h, NEW u \in Turns
      PROVE  Body(h, u) = IF Over(u) THEN LastEdge(u) ELSE h[NextTurn(u)]
  BY DEF Over, LastEdge, NextTurn, AtEnd, Another, Turned, Packs
<1>6. ASSUME NEW u \in Turns PROVE f[u] = Body(f, u)
  <2>1. IF u \in B THEN f[u] = base[u] ELSE pre[u] \in Turns /\ f[u] = D[<<u, f[pre[u]]>>]
    BY <1>3 DEF Computes
  <2>2. u \in B => f[u] = LastEdge(u)
    BY <2>1
  <2>3. u \notin B => f[u] = f[NextTurn(u)]
    BY <2>1, <1>4
  <2> HIDE DEF Body
  <2> QED
    BY <1>5, <2>2, <2>3
<1> HIDE DEF Body
<1>7. f = [u \in Turns |-> Body(f, u)]
  BY <1>4, <1>6
<1>8. PackagingFrom = CHOOSE h : h = [u \in Turns |-> Body(h, u)]
  BY DEF PackagingFrom, Body
<1>9. PackagingFrom = [u \in Turns |-> Body(PackagingFrom, u)]
  BY <1>7, <1>8
<1>10. PackagingFrom[t] = Body(PackagingFrom, t)
  BY <1>9
<1> QED
  BY <1>5, <1>10

\* circuit_resume_edge_reading_helper packages data, and no more than the windows allow.
LEMMA PackagingPackages ==
  ASSUME NEW t \in Turns, t.edge \in GoodEdges
  PROVE  PackagingFrom[t] \in Packaged(t.edge)
<1> DEFINE Bad == {u \in Turns : u.edge \in GoodEdges /\ PackagingFrom[u] \notin Packaged(u.edge)}
<1>1. SUFFICES ASSUME Bad # {} PROVE FALSE
  OBVIOUS
<1>2. PICK u \in Bad : \A v \in Bad : ~ (<<v, u>> \in TurnOrder)
  BY <1>1, TurnOrderWellFounded, WFMin
<1>3. u \in Turns /\ u.edge \in GoodEdges /\ PackagingFrom[u] \notin Packaged(u.edge)
  BY <1>2
<1>4. Turned(u) \in Resumable(u.edge) => Packs(u) \in Packaged(u.edge)
  <2>1. Turned(u) \in Resumable(u.edge) => Turned(u) \in OpenStreams
    BY DEF Resumable, OpenStreams
  <2>2. u.share \in Nat
    BY <1>3 DEF Turns
  <2> QED
    BY <1>3, <2>1, <2>2, Packages DEF Packs
<1>5. CASE Over(u)
  <2>1. LastEdge(u) \in Packaged(u.edge)
    <3>1. CASE AtEnd(u)
      BY <1>3, <3>1, PackagedNothing DEF LastEdge
    <3>2. CASE ~AtEnd(u)
      BY <1>4, <1>5, <3>2 DEF LastEdge, Over
    <3> QED
      BY <3>1, <3>2
  <2> QED
    BY <1>3, <1>5, <2>1, PackagingGoesOn
<1>6. CASE ~Over(u)
  <2> DEFINE v == NextTurn(u)
  <2>1. v \in Turns /\ <<v, u>> \in TurnOrder /\ PackagingFrom[u] = PackagingFrom[v]
    BY <1>3, <1>6, TurnsGoOn, PackagingGoesOn
  <2>2. v.edge \in Packaged(u.edge)
    <3>1. CASE AtEnd(u)
      BY <1>3, <3>1, PackagedNothing DEF NextTurn, NewRound
    <3>2. CASE ~AtEnd(u) /\ Turned(u) \notin Resumable(u.edge)
      <4>1. v.edge = u.edge
        BY <1>3, <3>2 DEF NextTurn, Turns
      <4> QED
        BY <1>3, <4>1, PackagedNothing
    <3>3. CASE ~AtEnd(u) /\ Turned(u) \in Resumable(u.edge)
      <4>1. v.edge = Packs(u)
        BY <1>3, <3>3 DEF NextTurn, Turns
      <4> QED
        BY <1>4, <3>3, <4>1
    <3> QED
      BY <3>1, <3>2, <3>3
  <2>3. v.edge \in GoodEdges
    BY <2>2 DEF Packaged
  <2> HIDE DEF v
  <2>4. PackagingFrom[v] \in Packaged(v.edge)
    BY <1>2, <2>1, <2>3
  <2>5. PackagingFrom[v] \in Packaged(u.edge)
    BY <1>3, <2>2, <2>4, PackagedMore
  <2> QED
    BY <1>3, <2>1, <2>5
<1> QED
  BY <1>5, <1>6

\* circuit_resume_edge_reading.
LEMMA Resumes ==
  ASSUME NEW e \in GoodEdges
  PROVE  Resume(e) \in Packaged(e)
<1> DEFINE other == IF AtOrigin THEN CircInitial ELSE e.pw
           room == Min({other, High - Len(e.queue)})
           r == [s \in Streams |-> e.reading[s] \/ s \in Resumable(e) \ Library]
           woken == [e EXCEPT !.reading = r]
           ready == Cardinality({s \in Resumable(e) : e.inbuf[s] > 0})
           t == NewRound(woken, room, ready)
<1>1. Resume(e) = IF StreamsAreBlocked(e) THEN e ELSE IF ready = 0 THEN woken ELSE PackagingFrom[t]
  BY DEF Resume
<1>2. /\ e.inbuf \in [Streams -> Nat] /\ e.reading \in [Streams -> BOOLEAN]
      /\ e.spw \in [Streams -> Nat] /\ e.pw \in Nat /\ e.blocked \in BOOLEAN
      /\ e.queue \in Seq(Cells) /\ e.wire \in Seq(Cells) /\ e.idle \in BOOLEAN /\ Marks(e)
      /\ e \in Edges
  BY DEF GoodEdges, Edges
<1>3. CASE StreamsAreBlocked(e)
  BY <1>1, <1>3, PackagedNothing
<1>4. CASE ~e.blocked
  <2>1. r \in [Streams -> BOOLEAN]
    BY <1>2
  <2> HIDE DEF r
  <2>2. /\ woken \in Edges /\ woken.pw = e.pw /\ woken.spw = e.spw /\ woken.inbuf = e.inbuf
        /\ woken.queue = e.queue /\ woken.wire = e.wire /\ woken.idle = e.idle
        /\ woken.blocked = e.blocked
    BY <1>2, <2>1 DEF Edges
  <2> HIDE DEF woken
  <2>3. Marks(woken)
    BY <1>2, <1>4, <2>2 DEF Marks
  <2>4. woken \in GoodEdges
    BY <2>2, <2>3 DEF GoodEdges
  <2>5. ASSUME NEW f \in Packaged(woken) PROVE f \in Packaged(e)
    <3>1. EdgeLine(woken) = EdgeLine(e)
      BY <2>2 DEF EdgeLine
    <3>2. PICK x \in Seq(OpenData) : Sent(woken, f, x)
      BY <2>5 DEF Packaged
    <3>3. Sent(e, f, x)
      BY <2>2, <3>1, <3>2 DEF Sent
    <3> QED
      BY <2>5, <3>3 DEF Packaged
  <2>6. CASE ready = 0
    BY <1>1, <1>3, <2>6, <2>4, <2>5, PackagedNothing
  <2>7. CASE ready # 0
    <3>1. Streams \in SUBSET Streams /\ IsFiniteSet(Streams)
      <4>1. IsFiniteSet(1 .. Len(StreamList)) /\ DOMAIN StreamList = 1 .. Len(StreamList)
        BY FlowAssumption, LenProperties, FS_Interval
      <4>2. StreamList \in Surjection(1 .. Len(StreamList), Streams)
        BY <4>1, FlowAssumption DEF Surjection, Streams, ToSet
      <4> QED
        BY <4>1, <4>2, FS_Surjection
    <3>2. {s \in Resumable(e) : e.inbuf[s] > 0} \in SUBSET Streams
      BY DEF Resumable
    <3>3. ready \in Nat
      <4> HIDE DEF ready
      <4>1. IsFiniteSet({s \in Resumable(e) : e.inbuf[s] > 0})
        BY <3>1, <3>2, FS_Subset
      <4> QED
        BY <4>1, FS_CardinalityType DEF ready
    <3>4. room \in Nat
      <4>1. other \in Nat /\ High - Len(e.queue) \in Nat
        <5>1. Len(e.queue) \in Nat /\ Len(e.queue) < High
          BY <1>2, <1>4, LenProperties DEF Marks
        <5> QED
          BY <1>2, <5>1, Numbers
      <4>2. {other, High - Len(e.queue)} \in SUBSET Nat /\ {other, High - Len(e.queue)} # {}
        BY <4>1
      <4> HIDE DEF other
      <4> QED
        BY <4>2, MinOf
    <3> HIDE DEF ready, room
    <3>5. CeilDiv(room, ready) \in Nat
      BY <2>7, <3>3, <3>4 DEF CeilDiv
    <3>6. t \in Turns /\ t.edge = woken
      BY <2>2, <3>3, <3>4, <3>5 DEF NewRound, Turns
    <3> HIDE DEF t
    <3>7. PackagingFrom[t] \in Packaged(woken)
      BY <2>4, <3>6, PackagingPackages
    <3>8. PackagingFrom[t] \in Packaged(e)
      BY <2>5, <3>7
    <3>9. Resume(e) = PackagingFrom[t]
      BY <1>1, <1>4, <2>7 DEF ready, StreamsAreBlocked
    <3> QED
      BY <3>8, <3>9
  <2> QED
    BY <2>6, <2>7
<1> QED
  BY <1>3, <1>4 DEF StreamsAreBlocked
-----------------------------------------------------------------------------
(* The order of data and ENDs in a queue. *)

\* The order within two pieces, and within the tail of a queue.
LEMMA OrderConcat ==
  ASSUME NEW p \in Seq(Cells), NEW q \in Seq(Cells), NEW s
  PROVE  /\ p \o q \in Seq(Cells)
         /\ HasEnd(p \o q, s) <=> HasEnd(p, s) \/ HasEnd(q, s)
         /\ InOrder(p, s) /\ InOrder(q, s)
              /\ (HasEnd(p, s) => \A j \in 1 .. Len(q) : q[j] # Cell("DATA", s))
              => InOrder(p \o q, s)
<1> DEFINE r == p \o q
           m == Len(p)
           n == Len(q)
<1>1. /\ r \in Seq(Cells) /\ Len(r) = m + n /\ m \in Nat /\ n \in Nat
      /\ \A i \in 1 .. m + n : r[i] = IF i <= m THEN p[i] ELSE q[i - m]
  BY ConcatProperties, LenProperties
<1> HIDE DEF r
<1>2. /\ \A i \in 1 .. m : i \in 1 .. Len(r) /\ r[i] = p[i]
      /\ \A i \in 1 .. Len(r) : \/ i \in 1 .. m /\ r[i] = p[i]
                                \/ i - m \in 1 .. n /\ i > m /\ r[i] = q[i - m]
  <2> HIDE DEF m, n
  <2> QED
    BY <1>1
<1>3. ASSUME NEW i \in 1 .. n PROVE m + i \in 1 .. Len(r) /\ r[m + i] = q[i]
  <2> HIDE DEF m, n
  <2>1. m + i \in 1 .. m + n /\ ~(m + i <= m) /\ (m + i) - m = i
    BY <1>1
  <2> QED
    BY <1>1, <2>1
<1>4. HasEnd(r, s) <=> HasEnd(p, s) \/ HasEnd(q, s)
  <2>1. ASSUME HasEnd(r, s) PROVE HasEnd(p, s) \/ HasEnd(q, s)
    BY <1>2, <2>1 DEF HasEnd
  <2>2. ASSUME HasEnd(p, s) PROVE HasEnd(r, s)
    BY <1>2, <2>2 DEF HasEnd
  <2>3. ASSUME HasEnd(q, s) PROVE HasEnd(r, s)
    BY <1>3, <2>3 DEF HasEnd
  <2> QED
    BY <2>1, <2>2, <2>3
<1>5. ASSUME InOrder(p, s), InOrder(q, s), HasEnd(p, s) => \A j \in 1 .. Len(q) : q[j] # Cell("DATA", s),
             NEW i \in 1 .. Len(r), NEW j \in 1 .. Len(r), i < j, r[i] = Cell("END", s)
      PROVE  r[j] # Cell("DATA", s)
  <2>1. CASE i \in 1 .. m /\ r[i] = p[i]
    <3>1. HasEnd(p, s)
      BY <2>1, <1>5 DEF HasEnd
    <3>2. CASE j \in 1 .. m /\ r[j] = p[j]
      BY <1>5, <2>1, <3>2 DEF InOrder
    <3>3. CASE j - m \in 1 .. n /\ r[j] = q[j - m]
      BY <1>5, <3>1, <3>3
    <3> QED
      BY <1>2, <3>2, <3>3
  <2>2. CASE i - m \in 1 .. n /\ i > m /\ r[i] = q[i - m]
    <3>1. j - m \in 1 .. n /\ r[j] = q[j - m] /\ i - m < j - m
      <4> HIDE DEF m, n
      <4> QED
        BY <1>1, <1>2, <1>5, <2>2
    <3> QED
      BY <1>5, <2>2, <3>1 DEF InOrder
  <2> QED
    BY <1>2, <2>1, <2>2
<1>6. ASSUME InOrder(p, s), InOrder(q, s), HasEnd(p, s) => \A j \in 1 .. Len(q) : q[j] # Cell("DATA", s)
      PROVE  InOrder(r, s)
  BY <1>5, <1>6 DEF InOrder
<1> QED
  BY <1>1, <1>4, <1>6 DEF r

LEMMA OrderTail ==
  ASSUME NEW q \in Seq(Cells), q # <<>>, NEW s
  PROVE  /\ HasEnd(q, s) <=> HasEnd(Tail(q), s) \/ Head(q) = Cell("END", s)
         /\ InOrder(q, s) => InOrder(Tail(q), s)
         /\ InOrder(q, s) /\ Head(q) = Cell("END", s) => Count(Tail(q), DataOf(s)) = 0
<1> DEFINE t == Tail(q)
           m == Len(q)
<1>1. /\ t \in Seq(Cells) /\ m \in Nat \ {0} /\ Len(t) = m - 1
      /\ \A i \in 1 .. m - 1 : t[i] = q[i + 1]
      /\ Head(q) = q[1]
  BY TakeFirst
<1> HIDE DEF t, m
<1>2. \A i \in 1 .. Len(t) : i + 1 \in 1 .. m /\ 1 < i + 1 /\ 1 \in 1 .. m /\ t[i] = q[i + 1]
  BY <1>1
<1>3. ASSUME NEW i \in 1 .. m PROVE i = 1 \/ (i - 1 \in 1 .. Len(t) /\ t[i - 1] = q[i])
  BY <1>1
<1>4. HasEnd(q, s) <=> HasEnd(t, s) \/ q[1] = Cell("END", s)
  <2>1. ASSUME HasEnd(q, s) PROVE HasEnd(t, s) \/ q[1] = Cell("END", s)
    <3>1. PICK i \in 1 .. m : q[i] = Cell("END", s)
      BY <2>1 DEF HasEnd, m
    <3> QED
      BY <1>3, <3>1 DEF HasEnd
  <2>2. ASSUME HasEnd(t, s) PROVE HasEnd(q, s)
    BY <1>2, <2>2 DEF HasEnd, m
  <2>3. ASSUME q[1] = Cell("END", s) PROVE HasEnd(q, s)
    <3>1. 1 \in 1 .. m
      BY <1>1
    <3> QED
      BY <2>3, <3>1 DEF HasEnd, m
  <2> QED
    BY <2>1, <2>2, <2>3
<1>5. ASSUME InOrder(q, s) PROVE InOrder(t, s)
  <2>1. ASSUME NEW i \in 1 .. Len(t), NEW j \in 1 .. Len(t), i < j, t[i] = Cell("END", s)
        PROVE  t[j] # Cell("DATA", s)
    <3>1. i + 1 \in 1 .. m /\ j + 1 \in 1 .. m /\ i + 1 < j + 1
      BY <1>2, <2>1
    <3> QED
      BY <1>2, <1>5, <2>1, <3>1 DEF InOrder, m
  <2> QED
    BY <2>1 DEF InOrder
<1>6. ASSUME InOrder(q, s), q[1] = Cell("END", s) PROVE Count(t, DataOf(s)) = 0
  <2>1. \A i \in 1 .. Len(t) : t[i] \notin DataOf(s)
    BY <1>2, <1>6 DEF InOrder, DataOf, m
  <2> QED
    BY <1>1, <2>1, CountNone
<1> QED
  BY <1>1, <1>4, <1>5, <1>6 DEF t
-----------------------------------------------------------------------------
(* A handler that packages. *)

Behind(y) ==
  /\ y \in Seq(Cells)
  /\ \A i \in 1 .. Len(y) : y[i].cmd # "DATA"

\* From e the cells x are packaged, and y, which is no data, goes behind them.
Charged(e, x, y) ==
  /\ x \in Seq(OpenData) /\ x \in Seq(Cells) /\ Len(x) \in Nat
  /\ pw' \in Nat /\ pw' + Len(x) = e.pw
  /\ \A s \in Streams :
       /\ Count(x, DataOf(s)) \in Nat
       /\ spw'[s] + Count(x, DataOf(s)) = e.spw[s]
       /\ inbuf'[s] + Count(x, DataOf(s)) = e.inbuf[s]
       /\ pstream[s] # "open" => Count(x, DataOf(s)) = 0
       /\ Count(Line, DataOf(s)) \in Nat
       /\ Count(Line', DataOf(s)) = Count(Line, DataOf(s)) + Count(x, DataOf(s))
  /\ Line' = (Line \o x) \o y
  /\ Count(Line, DataCells) \in Nat
  /\ Count(Line', DataCells) = Count(Line, DataCells) + Len(x)
  /\ inbuf' \in [Streams -> Nat] /\ spw' \in [Streams -> Nat]
  /\ reading' \in [Streams -> BOOLEAN] /\ blocked' \in BOOLEAN
  /\ queue' \in Seq(Cells) /\ wire' \in Seq(Cells)
  /\ QueueMarks'

LEMMA LineTyped ==
  ASSUME TypeOK
  PROVE  /\ Line \in Seq(Cells)
         /\ \A C : Count(Line, C) \in Nat /\ Count(back, C) \in Nat
<1>1. Line \in Seq(Cells)
  BY ConcatProperties DEF TypeOK, Line
<1>2. back \in Seq(Cells)
  BY DEF TypeOK
<1> QED
  BY <1>1, <1>2, CountConcat

LEMMA OpenDataCounts ==
  ASSUME NEW x \in Seq(OpenData)
  PROVE  /\ Count(x, DataCells) = Len(x)
         /\ \A s \in Streams : pstream[s] # "open" =>
              /\ Count(x, DataOf(s)) = 0
              /\ \A i \in 1 .. Len(x) : x[i] # Cell("DATA", s)
         /\ \A s : ~HasEnd(x, s)
<1>1. \A i \in 1 .. Len(x) : x[i] \in OpenData
  BY ElementOfSeq
<1>2. \A i \in 1 .. Len(x) : x[i] \in DataCells
  BY <1>1, OpenDataAre
<1>3. Count(x, DataCells) = Len(x)
  BY <1>2, CountEvery
<1>4. ASSUME NEW s \in Streams, pstream[s] # "open", NEW i \in 1 .. Len(x)
      PROVE  x[i] # Cell("DATA", s)
  BY <1>1, <1>4, CellsAre DEF OpenData, OpenStreams
<1>5. ASSUME NEW s \in Streams, pstream[s] # "open" PROVE Count(x, DataOf(s)) = 0
  <2>1. \A i \in 1 .. Len(x) : x[i] \notin DataOf(s)
    BY <1>4, <1>5 DEF DataOf
  <2> QED
    BY <2>1, CountNone
<1>6. ASSUME NEW s, NEW i \in 1 .. Len(x) PROVE x[i] # Cell("END", s)
  <2>1. "END" # "DATA"
    OBVIOUS
  <2> QED
    BY <1>1, <2>1, CellsAre DEF OpenData
<1>7. \A s : ~HasEnd(x, s)
  BY <1>6 DEF HasEnd
<1> QED
  BY <1>3, <1>4, <1>5, <1>7

LEMMA BehindCounts ==
  ASSUME NEW y, Behind(y)
  PROVE  /\ Count(y, DataCells) = 0
         /\ \A s : Count(y, DataOf(s)) = 0 /\ \A i \in 1 .. Len(y) : y[i] # Cell("DATA", s)
<1>1. y \in Seq(Cells) /\ \A i \in 1 .. Len(y) : y[i].cmd # "DATA"
  BY DEF Behind
<1>2. \A i \in 1 .. Len(y) : y[i] \notin DataCells
  BY <1>1, CellsAre DEF DataCells
<1>3. \A s : \A i \in 1 .. Len(y) : y[i] # Cell("DATA", s)
  BY <1>1, CellsAre
<1>4. ASSUME NEW s PROVE Count(y, DataOf(s)) = 0
  <2>1. \A i \in 1 .. Len(y) : y[i] \notin DataOf(s)
    BY <1>3 DEF DataOf
  <2> QED
    BY <1>1, <2>1, CountNone
<1>5. Count(y, DataCells) = 0
  BY <1>1, <1>2, CountNone
<1> QED
  BY <1>3, <1>4, <1>5

\* The state after a handler whose packaging began at e and ended at f, on the
\* way to g, which has y on its queue as well.
LEMMA PackStep ==
  ASSUME TypeOK, NEW e \in GoodEdges, EdgeLine(e) = Line, NEW f \in Packaged(e),
         NEW y, Behind(y), NEW g \in GoodEdges, Becomes(g),
         EdgeLine(g) = EdgeLine(f) \o y,
         g.pw = f.pw, g.spw = f.spw, g.inbuf = f.inbuf
  PROVE  \E x \in Seq(OpenData) : Charged(e, x, y)
<1>1. PICK x \in Seq(OpenData) : Sent(e, f, x)
  BY DEF Packaged
<1>2. x \in Seq(Cells) /\ y \in Seq(Cells)
  BY OpenDataAre DEF Behind
<1>3. Line \in Seq(Cells) /\ \A C : Count(Line, C) \in Nat
  BY LineTyped
<1>4. Len(x) \in Nat
  BY <1>2, LenProperties
<1>5. Line' = EdgeLine(g)
  BY DEF Line, Becomes, EdgeLine
<1>6. Line' = (Line \o x) \o y
  BY <1>1, <1>5 DEF Sent
<1>7. ASSUME NEW C
      PROVE  /\ Count(x, C) \in Nat
             /\ Count(Line', C) = Count(Line, C) + Count(x, C) + Count(y, C)
  <2>1. Line \o x \in Seq(Cells)
    BY <1>2, <1>3, ConcatProperties
  <2>2. Count((Line \o x) \o y, C) = Count(Line \o x, C) + Count(y, C)
    BY <1>2, <2>1, CountConcat
  <2>3. Count(Line \o x, C) = Count(Line, C) + Count(x, C) /\ Count(x, C) \in Nat
    BY <1>2, <1>3, CountConcat
  <2> QED
    BY <1>6, <2>2, <2>3
<1>8. /\ g.pw \in Nat /\ g.inbuf \in [Streams -> Nat] /\ g.spw \in [Streams -> Nat]
      /\ g.reading \in [Streams -> BOOLEAN] /\ g.blocked \in BOOLEAN
      /\ g.queue \in Seq(Cells) /\ g.wire \in Seq(Cells) /\ Marks(g)
  BY DEF GoodEdges, Edges
<1>9. QueueMarks'
  BY <1>8 DEF Marks, Becomes, QueueMarks, BlockedIsSilent
<1>10. pw' + Len(x) = e.pw /\ pw' \in Nat
  BY <1>1, <1>8 DEF Sent, Becomes
<1>11. Count(Line', DataCells) = Count(Line, DataCells) + Len(x) /\ Count(Line, DataCells) \in Nat
  <2>1. Count(x, DataCells) = Len(x) /\ Count(y, DataCells) = 0
    BY OpenDataCounts, BehindCounts
  <2>2. Count(Line', DataCells) = Count(Line, DataCells) + Count(x, DataCells) + Count(y, DataCells)
    BY <1>7
  <2>3. Count(Line, DataCells) \in Nat
    BY <1>3
  <2> QED
    BY <1>4, <2>1, <2>2, <2>3
<1>12. ASSUME NEW s \in Streams
       PROVE  /\ Count(x, DataOf(s)) \in Nat
              /\ spw'[s] + Count(x, DataOf(s)) = e.spw[s]
              /\ inbuf'[s] + Count(x, DataOf(s)) = e.inbuf[s]
              /\ pstream[s] # "open" => Count(x, DataOf(s)) = 0
              /\ Count(Line, DataOf(s)) \in Nat
              /\ Count(Line', DataOf(s)) = Count(Line, DataOf(s)) + Count(x, DataOf(s))
  <2>1. Count(x, DataOf(s)) \in Nat /\ Count(y, DataOf(s)) = 0 /\ Count(Line, DataOf(s)) \in Nat
    BY <1>3, <1>7, BehindCounts
  <2>2. Count(Line', DataOf(s)) = Count(Line, DataOf(s)) + Count(x, DataOf(s)) + Count(y, DataOf(s))
    BY <1>7
  <2>3. spw'[s] + Count(x, DataOf(s)) = e.spw[s] /\ inbuf'[s] + Count(x, DataOf(s)) = e.inbuf[s]
    BY <1>1 DEF Sent, Becomes
  <2>4. Count(Line', DataOf(s)) = Count(Line, DataOf(s)) + Count(x, DataOf(s))
    BY <2>1, <2>2
  <2>5. pstream[s] # "open" => Count(x, DataOf(s)) = 0
    BY OpenDataCounts
  <2> QED
    BY <2>1, <2>3, <2>4, <2>5
<1>13. /\ inbuf' \in [Streams -> Nat] /\ spw' \in [Streams -> Nat]
       /\ reading' \in [Streams -> BOOLEAN] /\ blocked' \in BOOLEAN
       /\ queue' \in Seq(Cells) /\ wire' \in Seq(Cells)
  BY <1>8 DEF Becomes
<1> QED
  BY <1>2, <1>4, <1>6, <1>9, <1>10, <1>11, <1>12, <1>13 DEF Charged

\* ... with nothing behind.
LEMMA PackOnly ==
  ASSUME TypeOK, NEW e \in GoodEdges, EdgeLine(e) = Line, NEW f \in Packaged(e), Becomes(f)
  PROVE  \E x \in Seq(OpenData) : Charged(e, x, <<>>)
<1>1. f \in GoodEdges
  BY DEF Packaged
<1>2. Behind(<<>>)
  BY EmptySeq DEF Behind
<1>3. EdgeLine(f) \in Seq(Cells)
  <2>1. f.wire \in Seq(Cells) /\ f.queue \in Seq(Cells)
    BY <1>1 DEF GoodEdges, Edges
  <2> QED
    BY <2>1, ConcatProperties DEF EdgeLine
<1>4. EdgeLine(f) = EdgeLine(f) \o <<>>
  BY <1>3, ConcatEmptySeq
<1> QED
  BY <1>1, <1>2, <1>4, PackStep

\* The state a handler packages from.
LEMMA NowIsGood ==
  ASSUME TypeOK, QueueMarks, NEW idle \in CanBeIdle
  PROVE  Now(idle) \in GoodEdges /\ EdgeLine(Now(idle)) = Line
<1>1. idle \in BOOLEAN /\ (idle => queue = <<>>)
  BY DEF CanBeIdle
<1>2. Now(idle) \in Edges
  BY <1>1 DEF TypeOK, Edges, Now
<1>3. Marks(Now(idle))
  BY <1>1 DEF QueueMarks, BlockedIsSilent, Now, Marks
<1> QED
  BY <1>2, <1>3 DEF GoodEdges, EdgeLine, Now, Line
-----------------------------------------------------------------------------
(* The inductive invariant, through the handlers that package. *)

CircuitWay(q) == CircIncrement * Count(q, SendmesTo(Circuit))
StreamWay(q, s) == StreamIncrement * Count(q, SendmesTo(s))

LEMMA WaysAre ==
  ASSUME NEW q \in Seq(Cells)
  PROVE  CircuitWay(q) \in Nat /\ \A s : StreamWay(q, s) \in Nat
<1>1. \A C : Count(q, C) \in Nat
  BY CountConcat
<1>2. \A m \in Nat : CircIncrement * m \in Nat /\ StreamIncrement * m \in Nat
  BY Numbers
<1> QED
  BY <1>1, <1>2 DEF CircuitWay, StreamWay

\* What the handler takes is put on the accounts e begins with.
Balanced(e, y) ==
  /\ UNCHANGED <<side, deliverer, circ>>
  /\ back' \in Seq(Cells)
  /\ pstream' \in [Streams -> {"new", "open", "closed"}] /\ supply' \in [Streams -> Nat]
  /\ e.pw + CircuitWay(back') = pw + CircuitWay(back)
  /\ \A s \in Streams :
       /\ e.spw[s] + StreamWay(back', s) <= spw[s] + StreamWay(back, s)
       /\ pstream[s] = "new" => e.spw[s] = spw[s]
       /\ e.inbuf[s] + supply'[s] = inbuf[s] + supply[s]
       /\ HasEnd(back', s) => HasEnd(back, s)
       /\ \/ pstream'[s] = pstream[s]
          \/ pstream[s] = "open" /\ pstream'[s] = "closed" /\ supply'[s] = 0 /\ inbuf'[s] = 0
       /\ HasEnd(y, s) => pstream'[s] = "closed"
       /\ pstream[s] = "closed" => supply'[s] = 0 /\ e.inbuf[s] = 0

LEMMA LineOrder ==
  ASSUME TypeOK, NEW s \in Streams, EndsLast(s), NEW x \in Seq(OpenData), NEW y, Behind(y),
         Line' = (Line \o x) \o y
  PROVE  InOrder(Line', s) /\ (HasEnd(Line', s) => HasEnd(Line, s) \/ HasEnd(y, s))
<1>1. Line \in Seq(Cells) /\ x \in Seq(Cells) /\ y \in Seq(Cells)
  BY LineTyped, OpenDataAre DEF Behind
<1>2. HasEnd(Line, s) => pstream[s] # "open"
  BY DEF EndsLast
<1>3. /\ ~HasEnd(x, s) /\ InOrder(x, s)
      /\ HasEnd(Line, s) => \A j \in 1 .. Len(x) : x[j] # Cell("DATA", s)
  BY <1>2, OpenDataCounts DEF HasEnd, InOrder
<1>4. \A j \in 1 .. Len(y) : y[j] # Cell("DATA", s)
  BY BehindCounts
<1>5. InOrder(y, s) /\ InOrder(Line, s)
  BY <1>4 DEF InOrder, EndsLast
<1>6. /\ Line \o x \in Seq(Cells) /\ InOrder(Line \o x, s)
      /\ HasEnd(Line \o x, s) => HasEnd(Line, s)
  BY <1>1, <1>3, <1>5, OrderConcat
<1>7. /\ InOrder((Line \o x) \o y, s)
      /\ HasEnd((Line \o x) \o y, s) => HasEnd(Line \o x, s) \/ HasEnd(y, s)
  BY <1>1, <1>4, <1>5, <1>6, OrderConcat
<1> QED
  BY <1>6, <1>7

\* A handler that packages keeps the invariant.
LEMMA PackIInv ==
  ASSUME IInv, NEW e \in GoodEdges, NEW y, Behind(y), NEW x \in Seq(OpenData),
         Charged(e, x, y), Balanced(e, y)
  PROVE  IInv'
<1>0. TypeOK /\ Live /\ CircuitAccount /\ QueueMarks /\ side \in Sides
      /\ \A s \in Streams : StreamAccount(s) /\ DataAccount(s) /\ EndsLast(s)
  BY DEF IInv, TypeOK
<1>1. TypeOK'
  BY <1>0 DEF TypeOK, Balanced, Charged, deliverer
<1>2. Live'
  BY <1>0 DEF Live, Balanced
<1>3. QueueMarks'
  BY DEF Charged
<1>4. /\ CircuitWay(back) \in Nat /\ CircuitWay(back') \in Nat
      /\ \A s : StreamWay(back, s) \in Nat /\ StreamWay(back', s) \in Nat
  BY <1>0, <1>1, WaysAre DEF TypeOK
<1>5. CircuitAccount'
  <2> DEFINE cl == Count(Line, DataCells)
             cm == Count(Line', DataCells)
             b == CircuitWay(back)
             c == CircuitWay(back')
             p == pw
             q == pw'
             k == Len(x)
             ep == e.pw
             w == CircStart - CircInitial
  <2>1. pw + cl + b + (CircStart - CircInitial) = dw /\ dw <= CircStart /\ pw \in Nat /\ dw \in Nat
    BY <1>0 DEF CircuitAccount, CircuitWay, TypeOK
  <2>2. cl \in Nat /\ cm = cl + Len(x) /\ Len(x) \in Nat /\ pw' \in Nat /\ pw' + Len(x) = e.pw
    BY DEF Charged
  <2>3. e.pw + c = pw + b /\ b \in Nat /\ c \in Nat /\ e.pw \in Nat
    BY <1>4 DEF Balanced, GoodEdges, Edges
  <2>4. dw' = dw
    BY DEF Balanced, deliverer
  <2>6. w \in Int /\ cl \in Nat /\ k \in Nat /\ p \in Nat /\ q \in Nat /\ b \in Nat /\ c \in Nat /\ ep \in Nat
    BY <2>1, <2>2, <2>3, Numbers
  <2>7. p + cl + b + w = dw /\ cm = cl + k /\ q + k = ep /\ ep + c = p + b
    BY <2>1, <2>2, <2>3
  <2> HIDE DEF cl, cm, b, c, p, q, k, ep, w
  <2>8. q + cm + c + w = p + cl + b + w
    BY <2>6, <2>7
  <2>5. q + cm + c + w = dw
    BY <2>7, <2>8
  <2> QED
    BY <2>1, <2>4, <2>5 DEF CircuitAccount, CircuitWay, cm, c, q, w
<1>6. ASSUME NEW s \in Streams PROVE StreamAccount(s)'
  <2> DEFINE d == Count(Line, DataOf(s))
             n == Count(x, DataOf(s))
             dn == Count(Line', DataOf(s))
             b == StreamWay(back, s)
             c == StreamWay(back', s)
             u == spw[s]
             v == spw'[s]
             eu == e.spw[s]
  <2>1. u + d + b <= sdw[s] /\ sdw[s] <= StreamStart /\ (pstream[s] = "new" => u = StreamStart)
    BY <1>0 DEF StreamAccount, StreamWay
  <2>2. n \in Nat /\ v + n = eu /\ d \in Nat /\ dn = d + n /\ (pstream[s] # "open" => n = 0)
    BY DEF Charged
  <2>3. eu + c <= u + b /\ (pstream[s] = "new" => eu = u)
    BY DEF Balanced
  <2>4. u \in Nat /\ v \in Nat /\ eu \in Nat /\ b \in Nat /\ c \in Nat /\ sdw[s] \in Nat
    BY <1>0, <1>1, <1>4 DEF TypeOK, GoodEdges, Edges
  <2>5. sdw' = sdw /\ (pstream'[s] = "new" => pstream[s] = "new")
    BY DEF Balanced, deliverer
  <2> HIDE DEF d, n, dn, b, c, u, v, eu
  <2>6. v + dn + c <= sdw[s]
    BY <2>1, <2>2, <2>3, <2>4
  <2>7. pstream[s] = "new" => v = StreamStart
    BY <2>1, <2>2, <2>3, <2>4
  <2> QED
    BY <2>1, <2>5, <2>6, <2>7 DEF StreamAccount, StreamWay, v, dn, c
<1>7. ASSUME NEW s \in Streams PROVE DataAccount(s)'
  <2> DEFINE d == Count(Line, DataOf(s))
             n == Count(x, DataOf(s))
             dn == Count(Line', DataOf(s))
             u == inbuf[s]
             v == inbuf'[s]
             eu == e.inbuf[s]
             m == supply[s]
             mm == supply'[s]
  <2>1. dstream[s] # "hungup" => got[s] + d + u + m = Supply[s]
    BY <1>0 DEF DataAccount
  <2>2. n \in Nat /\ v + n = eu /\ d \in Nat /\ dn = d + n
    BY DEF Charged
  <2>3. eu + mm = u + m
    BY DEF Balanced
  <2>4. u \in Nat /\ v \in Nat /\ eu \in Nat /\ m \in Nat /\ mm \in Nat /\ got[s] \in Nat
    BY <1>0, <1>1 DEF TypeOK, GoodEdges, Edges
  <2>5. dstream' = dstream /\ got' = got /\ Supply' = Supply
    BY DEF Balanced, deliverer, Supply
  <2> DEFINE g == got[s]
  <2>7. g \in Nat
    BY <2>4
  <2> HIDE DEF d, n, dn, u, v, eu, m, mm, g
  <2>8. dn + v + mm = d + u + m
    BY <2>2, <2>3, <2>4
  <2>9. g + dn + v + mm = g + d + u + m
    BY <2>2, <2>4, <2>7, <2>8
  <2>6. got[s] + dn + v + mm = got[s] + d + u + m
    BY <2>9 DEF g
  <2> QED
    BY <2>1, <2>5, <2>6 DEF DataAccount, dn, v, mm
<1>8. ASSUME NEW s \in Streams PROVE EndsLast(s)'
  <2>0. EndsLast(s)
    BY <1>0
  <2>1. InOrder(Line', s) /\ (HasEnd(Line', s) => HasEnd(Line, s) \/ HasEnd(y, s))
    BY <1>0, LineOrder DEF Charged
  <2>2. /\ pstream[s] = "closed" => pstream'[s] = "closed"
        /\ HasEnd(y, s) => pstream'[s] = "closed"
        /\ HasEnd(back', s) => HasEnd(back, s)
        /\ dstream' = dstream
    BY DEF Balanced, deliverer
  <2>3. pstream'[s] = "closed" => supply'[s] = 0 /\ inbuf'[s] = 0
    <3>1. CASE pstream[s] = "closed"
      <4>1. supply'[s] = 0 /\ e.inbuf[s] = 0
        BY <3>1 DEF Balanced
      <4>2. inbuf'[s] + Count(x, DataOf(s)) = e.inbuf[s] /\ Count(x, DataOf(s)) = 0
        BY <3>1 DEF Charged
      <4>3. inbuf'[s] \in Nat
        BY DEF Charged
      <4> QED
        BY <4>1, <4>2, <4>3
    <3>2. CASE pstream[s] # "closed"
      BY <3>2 DEF Balanced
    <3> QED
      BY <3>1, <3>2
  <2>4. ASSUME dstream[s] = "ended"
        PROVE  pstream'[s] = "closed" /\ Count(Line', DataOf(s)) = 0
    <3>1. pstream[s] = "closed" /\ Count(Line, DataOf(s)) = 0
      BY <2>0, <2>4 DEF EndsLast
    <3>2. Count(Line', DataOf(s)) = Count(Line, DataOf(s)) + Count(x, DataOf(s)) /\ Count(x, DataOf(s)) = 0
      BY <3>1 DEF Charged
    <3> QED
      BY <2>2, <3>1, <3>2
  <2> HIDE DEF Line
  <2> QED
    BY <2>0, <2>1, <2>2, <2>3, <2>4 DEF EndsLast
<1> QED
  BY <1>1, <1>2, <1>3, <1>5, <1>6, <1>7, <1>8 DEF IInv

LEMMA CellIs ==
  \A c \in Cells : c = Cell(c.cmd, c.stream)
BY DEF Cells, Cell

LEMMA SendmesAre ==
  ASSUME NEW s, NEW t, NEW c
  PROVE  /\ Cell(c, t) \in SendmesTo(s) <=> c = "SENDME" /\ t = s
         /\ Cell(c, t) \in DataOf(s) <=> c = "DATA" /\ t = s
BY CellsAre DEF SendmesTo, DataOf

LEMMA TimesMore ==
  ASSUME NEW a \in Nat, NEW m \in Nat, NEW n \in Nat
  PROVE  /\ a * (m + n) = a * m + a * n
         /\ a * 1 = a /\ a * 0 = 0 /\ a * m \in Nat
OBVIOUS

\* A handler takes the first cell of the way back.
LEMMA Takes ==
  ASSUME TypeOK, NEW c \in {"DATA", "END", "SENDME"}, NextBack(c), TakeBack
  PROVE  /\ back' \in Seq(Cells) /\ back # <<>> /\ Head(back).stream \in Streams \cup {Circuit}
         /\ LET t == Head(back).stream IN
            /\ Head(back) = Cell(c, t)
            /\ CircuitWay(back) = CircuitWay(back')
                 + (IF c = "SENDME" /\ t = Circuit THEN CircIncrement ELSE 0)
            /\ \A s : StreamWay(back, s) = StreamWay(back', s)
                 + (IF c = "SENDME" /\ t = s THEN StreamIncrement ELSE 0)
            /\ CircuitWay(back') \in Nat /\ \A s : StreamWay(back', s) \in Nat
            /\ \A s : HasEnd(back, s) <=> HasEnd(back', s) \/ (c = "END" /\ s = t)
<1> DEFINE t == Head(back).stream
           b == Tail(back)
<1>1. back \in Seq(Cells) /\ back # <<>> /\ Head(back).cmd = c
  BY DEF TypeOK, NextBack
<1>2. Head(back) \in Cells /\ b \in Seq(Cells)
  BY <1>1, TakeFirst
<1>3. Head(back) = Cell(c, t) /\ t \in Streams \cup {Circuit}
  BY <1>1, <1>2, CellIs DEF Cells
<1>4. ASSUME NEW s
      PROVE  /\ Count(b, SendmesTo(s)) \in Nat
             /\ Count(back, SendmesTo(s)) = Count(b, SendmesTo(s)) + (IF c = "SENDME" /\ t = s THEN 1 ELSE 0)
  <2>1. /\ Count(b, SendmesTo(s)) \in Nat
        /\ Count(back, SendmesTo(s)) = Count(b, SendmesTo(s)) + (IF Head(back) \in SendmesTo(s) THEN 1 ELSE 0)
    BY <1>1, CountFirst
  <2>2. Head(back) \in SendmesTo(s) <=> c = "SENDME" /\ t = s
    BY <1>3, SendmesAre
  <2> QED
    BY <2>1, <2>2
<1>5. \A s : HasEnd(back, s) <=> HasEnd(b, s) \/ (c = "END" /\ s = t)
  <2>1. \A s : HasEnd(back, s) <=> HasEnd(b, s) \/ Head(back) = Cell("END", s)
    BY <1>1, OrderTail
  <2>2. \A s : Head(back) = Cell("END", s) <=> c = "END" /\ s = t
    BY <1>3, CellsAre
  <2> QED
    BY <2>1, <2>2
<1>6. back' = b
  BY DEF TakeBack
<1> HIDE DEF t, b
<1>7. ASSUME NEW s, NEW a \in Nat
      PROVE  a * Count(back, SendmesTo(s)) = a * Count(b, SendmesTo(s)) + (IF c = "SENDME" /\ t = s THEN a ELSE 0)
  <2> DEFINE n == Count(b, SendmesTo(s))
  <2>1. n \in Nat /\ Count(back, SendmesTo(s)) = n + (IF c = "SENDME" /\ t = s THEN 1 ELSE 0)
    BY <1>4
  <2> HIDE DEF n
  <2>2. a * (n + 1) = a * n + a /\ a * (n + 0) = a * n + 0
    <3>1. a * (n + 1) = a * n + a * 1 /\ a * 1 = a
      BY <2>1, TimesMore
    <3>2. a * n \in Nat /\ n + 0 = n
      BY <2>1, TimesMore
    <3> QED
      BY <3>1, <3>2
  <2>3. CASE c = "SENDME" /\ t = s
    BY <2>1, <2>2, <2>3 DEF n
  <2>4. CASE ~(c = "SENDME" /\ t = s)
    BY <2>1, <2>2, <2>4 DEF n
  <2> QED
    BY <2>3, <2>4
<1>8. CircuitWay(back) = CircuitWay(b) + (IF c = "SENDME" /\ t = Circuit THEN CircIncrement ELSE 0)
  BY <1>7, Numbers DEF CircuitWay
<1>9. \A s : StreamWay(back, s) = StreamWay(b, s) + (IF c = "SENDME" /\ t = s THEN StreamIncrement ELSE 0)
  BY <1>7, Numbers DEF StreamWay
<1>10. CircuitWay(b) \in Nat /\ \A s : StreamWay(b, s) \in Nat
  BY <1>2, WaysAre
<1> QED
  BY <1>1, <1>2, <1>3, <1>5, <1>6, <1>8, <1>9, <1>10 DEF t, b

LEMMA NothingBehind == Behind(<<>>) /\ \A s : ~HasEnd(<<>>, s)
<1>1. Behind(<<>>)
  BY EmptySeq DEF Behind
<1>2. \A s : ~HasEnd(<<>>, s)
  BY EmptySeq DEF HasEnd
<1> QED
  BY <1>1, <1>2

\* The bounds the two ends keep.
LEMMA WindowBounds ==
  ASSUME IInv
  PROVE  /\ pw + CircuitWay(back) <= CircStart
         /\ \A s \in Streams : spw[s] + StreamWay(back, s) <= StreamStart
<1>1. TypeOK /\ CircuitAccount /\ \A s \in Streams : StreamAccount(s)
  BY DEF IInv
<1>2. back \in Seq(Cells)
  BY <1>1 DEF TypeOK
<1>3. CircuitWay(back) \in Nat /\ \A s : StreamWay(back, s) \in Nat
  BY <1>2, WaysAre
<1>4. \A C : Count(Line, C) \in Nat
  BY <1>1, LineTyped
<1>5. pw + CircuitWay(back) <= CircStart
  <2> DEFINE c == CircuitWay(back)
             d == Count(Line, DataCells)
  <2>1. pw + d + c + (CircStart - CircInitial) = dw /\ dw <= CircStart
    BY <1>1 DEF CircuitAccount, CircuitWay
  <2>2. c \in Nat /\ d \in Nat /\ pw \in Nat /\ dw \in Nat
    BY <1>1, <1>3, <1>4 DEF TypeOK
  <2> HIDE DEF c, d
  <2>3. pw + c <= CircStart
    BY <2>1, <2>2, Numbers
  <2> QED
    BY <2>3 DEF c
<1>6. ASSUME NEW s \in Streams PROVE spw[s] + StreamWay(back, s) <= StreamStart
  <2> DEFINE c == StreamWay(back, s)
             d == Count(Line, DataOf(s))
             u == spw[s]
             v == sdw[s]
  <2>1. u + d + c <= v /\ v <= StreamStart
    BY <1>1 DEF StreamAccount, StreamWay
  <2>2. c \in Nat /\ d \in Nat /\ u \in Nat /\ v \in Nat
    BY <1>1, <1>3, <1>4 DEF TypeOK
  <2> HIDE DEF c, d, u, v
  <2>3. u + c <= StreamStart
    BY <2>1, <2>2, Numbers
  <2> QED
    BY <2>3 DEF c, u
<1> QED
  BY <1>5, <1>6

\* RELAY_COMMAND_SENDME of the circuit: it is always expected.
LEMMA CircuitSendmePacks ==
  ASSUME IInv, NEW idle \in CanBeIdle, CircuitSendme(idle), UNCHANGED side
  PROVE  \E e \in GoodEdges, x \in Seq(OpenData) :
           /\ Charged(e, x, <<>>) /\ Balanced(e, <<>>)
           /\ e = [Now(idle) EXCEPT !.pw = @ + CircIncrement]
           /\ ~(pw + CircIncrement > CircStart)
<1> DEFINE e == [Now(idle) EXCEPT !.pw = @ + CircIncrement]
<1>0. TypeOK /\ QueueMarks /\ \A s \in Streams : EndsLast(s)
  BY DEF IInv
<1>1. Now(idle) \in GoodEdges /\ EdgeLine(Now(idle)) = Line
  BY <1>0, NowIsGood
<1>2. /\ e \in Edges /\ e.pw = pw + CircIncrement /\ e.spw = spw /\ e.inbuf = inbuf
      /\ e.wire = wire /\ e.queue = queue /\ e.idle = idle /\ e.blocked = blocked /\ e.reading = reading
  <2>1. pw + CircIncrement \in Nat
    BY <1>0, Numbers DEF TypeOK
  <2>2. Now(idle) \in Edges
    BY <1>1, GoodAre
  <2> QED
    BY <2>1, <2>2 DEF Now, Edges
<1>3. e \in GoodEdges /\ EdgeLine(e) = Line
  <2>1. Marks(e)
    BY <1>1, <1>2 DEF GoodEdges, Marks, Now
  <2> QED
    BY <1>1, <1>2, <2>1 DEF GoodEdges, EdgeLine, Line
<1> HIDE DEF e
<1>4. NextBack("SENDME") /\ Head(back).stream = Circuit
  BY DEF CircuitSendme
<1>5. ~(pw + CircIncrement > CircStart)
  <2>1. TypeOK /\ back # <<>> /\ back \in Seq(Cells)
    BY <1>0, <1>4 DEF NextBack, TypeOK
  <2>2. CircuitWay(back) >= CircIncrement
    <3>1. Head(back) \in SendmesTo(Circuit)
      <4>1. Head(back) \in Cells
        BY <2>1, TakeFirst
      <4> QED
        BY <1>4, <4>1, CellIs DEF NextBack, SendmesTo
    <3> DEFINE n == Count(Tail(back), SendmesTo(Circuit))
    <3>2. n \in Nat /\ Count(back, SendmesTo(Circuit)) = n + 1
      BY <2>1, <3>1, CountFirst
    <3> HIDE DEF n
    <3>3. CircIncrement * (n + 1) = CircIncrement * n + CircIncrement * 1
          /\ CircIncrement * 1 = CircIncrement /\ CircIncrement * n \in Nat
      BY <3>2, Numbers, TimesMore
    <3>4. CircuitWay(back) = CircIncrement * n + CircIncrement
      BY <3>2, <3>3 DEF CircuitWay
    <3> DEFINE m == CircIncrement * n
    <3>5. m \in Nat /\ CircuitWay(back) = m + CircIncrement
      BY <3>3, <3>4
    <3> HIDE DEF m
    <3> QED
      BY <3>5, Numbers
  <2>3. pw + CircuitWay(back) <= CircStart /\ pw \in Nat /\ CircuitWay(back) \in Nat
    BY <1>0, <2>1, WindowBounds, WaysAre DEF TypeOK
  <2> DEFINE c == CircuitWay(back)
  <2>4. c >= CircIncrement /\ pw + c <= CircStart /\ pw \in Nat /\ c \in Nat
    BY <2>2, <2>3
  <2> HIDE DEF c
  <2> QED
    BY <2>4, Numbers
<1>6. /\ TakeBack /\ Becomes(Resume(e))
      /\ UNCHANGED <<pstream, supply, deliverer, circ>>
  BY <1>5 DEF CircuitSendme, e
<1>7. PICK x \in Seq(OpenData) : Charged(e, x, <<>>)
  BY <1>0, <1>3, <1>6, Resumes, PackOnly
<1>8. Balanced(e, <<>>)
  <2>1. /\ back' \in Seq(Cells)
        /\ CircuitWay(back) = CircuitWay(back') + CircIncrement
        /\ \A s \in Streams : StreamWay(back, s) = StreamWay(back', s)
        /\ CircuitWay(back') \in Nat /\ \A s : StreamWay(back', s) \in Nat
        /\ \A s : HasEnd(back', s) => HasEnd(back, s)
    <3>1. "SENDME" \in {"DATA", "END", "SENDME"}
      OBVIOUS
    <3>2. \A s \in Streams : s # Circuit
      BY FlowAssumption
    <3>3. /\ back' \in Seq(Cells)
          /\ CircuitWay(back) = CircuitWay(back') + CircIncrement
          /\ \A s : StreamWay(back, s) = StreamWay(back', s) + (IF Circuit = s THEN StreamIncrement ELSE 0)
          /\ CircuitWay(back') \in Nat /\ \A s : StreamWay(back', s) \in Nat
          /\ \A s : HasEnd(back', s) => HasEnd(back, s)
      BY <1>0, <1>4, <1>6, <3>1, Takes
    <3>4. \A s \in Streams : StreamWay(back, s) = StreamWay(back', s)
      BY <3>2, <3>3
    <3> QED
      BY <3>3, <3>4
  <2>2. e.pw + CircuitWay(back') = pw + CircuitWay(back)
    <3> DEFINE b == CircuitWay(back)
               c == CircuitWay(back')
               ep == e.pw
    <3>1. b = c + CircIncrement /\ c \in Nat /\ ep = pw + CircIncrement /\ pw \in Nat
      BY <1>0, <1>2, <2>1 DEF TypeOK
    <3> HIDE DEF b, c, ep
    <3>2. ep + c = pw + b
      BY <3>1, Numbers
    <3> QED
      BY <3>2 DEF ep, b, c
  <2>3. ASSUME NEW s \in Streams
        PROVE  /\ e.spw[s] + StreamWay(back', s) <= spw[s] + StreamWay(back, s)
               /\ pstream[s] = "new" => e.spw[s] = spw[s]
               /\ e.inbuf[s] + supply'[s] = inbuf[s] + supply[s]
               /\ HasEnd(back', s) => HasEnd(back, s)
               /\ pstream'[s] = pstream[s]
               /\ pstream[s] = "closed" => supply'[s] = 0 /\ e.inbuf[s] = 0
    <3>1. EndsLast(s) /\ spw[s] \in Nat /\ supply' = supply /\ pstream' = pstream
      BY <1>0, <1>6 DEF TypeOK
    <3>2. spw[s] + StreamWay(back', s) <= spw[s] + StreamWay(back, s)
      <4> DEFINE b == StreamWay(back', s)
                 u == spw[s]
      <4>1. StreamWay(back, s) = b /\ b \in Nat /\ u \in Nat
        BY <2>1, <3>1
      <4> HIDE DEF b, u
      <4>2. u + b <= u + b
        BY <4>1
      <4> QED
        BY <4>1, <4>2 DEF b, u
    <3>3. /\ pstream[s] = "new" => e.spw[s] = spw[s]
          /\ e.inbuf[s] + supply'[s] = inbuf[s] + supply[s]
          /\ pstream'[s] = pstream[s]
          /\ pstream[s] = "closed" => supply'[s] = 0 /\ e.inbuf[s] = 0
      BY <1>2, <3>1 DEF EndsLast
    <3>4. e.spw[s] = spw[s] /\ (HasEnd(back', s) => HasEnd(back, s))
      BY <1>2, <2>1
    <3> QED
      BY <3>2, <3>3, <3>4
  <2>4. /\ UNCHANGED <<side, deliverer, circ>>
        /\ pstream' \in [Streams -> {"new", "open", "closed"}] /\ supply' \in [Streams -> Nat]
    BY <1>0, <1>6 DEF TypeOK
  <2> QED
    BY <2>1, <2>2, <2>3, <2>4, NothingBehind DEF Balanced
<1> QED
  BY <1>3, <1>5, <1>7, <1>8 DEF e

\* What a stream's SENDME in flight says of its window.
LEMMA SendmeRoom ==
  ASSUME IInv, NEW s \in Streams, NextBack("SENDME"), Head(back).stream = s
  PROVE  spw[s] + StreamIncrement <= StreamStart
<1>1. TypeOK /\ back # <<>> /\ back \in Seq(Cells)
  BY DEF NextBack, TypeOK, IInv
<1>2. Head(back) \in SendmesTo(s)
  <2>1. Head(back) \in Cells
    BY <1>1, TakeFirst
  <2> QED
    BY <2>1, CellIs DEF NextBack, SendmesTo
<1> DEFINE n == Count(Tail(back), SendmesTo(s))
<1>3. n \in Nat /\ Count(back, SendmesTo(s)) = n + 1
  BY <1>1, <1>2, CountFirst
<1> HIDE DEF n
<1>4. StreamIncrement * (n + 1) = StreamIncrement * n + StreamIncrement * 1
      /\ StreamIncrement * 1 = StreamIncrement /\ StreamIncrement * n \in Nat
  BY <1>3, Numbers, TimesMore
<1> DEFINE m == StreamIncrement * n
           u == spw[s]
           w == StreamWay(back, s)
<1>5. w = m + StreamIncrement /\ m \in Nat
  BY <1>3, <1>4 DEF StreamWay
<1>6. u + w <= StreamStart /\ u \in Nat
  BY <1>1, WindowBounds DEF TypeOK
<1> HIDE DEF m, u, w
<1>7. u + StreamIncrement <= StreamStart
  BY <1>5, <1>6, Numbers
<1> QED
  BY <1>7 DEF u

\* RELAY_COMMAND_SENDME of a stream.
StreamSendmeBase(s, e) ==
  /\ e.pw = pw /\ e.inbuf = inbuf
  /\ \/ pstream[s] # "open" /\ e.spw = spw
     \/ s \in Library /\ e.spw = spw
     \/ pstream[s] = "open" /\ e.spw = [spw EXCEPT ![s] = @ + StreamIncrement]

LEMMA StreamSendmeCharges ==
  ASSUME IInv, NEW s \in Streams, NEW idle \in CanBeIdle, StreamSendme(s, idle)
  PROVE  \E e \in GoodEdges, x \in Seq(OpenData) :
           Charged(e, x, <<>>) /\ StreamSendmeBase(s, e)
<1> DEFINE c == [spw EXCEPT ![s] = @ + StreamIncrement]
           e == [Now(idle) EXCEPT !.spw = c]
           r == [reading EXCEPT ![s] = TRUE]
           e2 == [e EXCEPT !.reading = r]
<1>0. TypeOK /\ QueueMarks /\ \A t \in Streams : EndsLast(t)
  BY DEF IInv
<1>1. Now(idle) \in GoodEdges /\ EdgeLine(Now(idle)) = Line
  BY <1>0, NowIsGood
<1>2. /\ NextBack("SENDME") /\ Head(back).stream = s
      /\ \/ (pstream[s] # "open" \/ s \in Library) /\ Becomes(Now(idle))
         \/ pstream[s] = "open" /\ blocked /\ Becomes(e)
         \/ pstream[s] = "open" /\ ~blocked /\ Becomes(PackageRaw(e2, s, NoMax))
  <2> DEFINE ee == [Now(idle) EXCEPT !.spw[s] = @ + StreamIncrement]
             ff == [ee EXCEPT !.reading[s] = TRUE]
  <2>1. ee = e /\ ff = e2 /\ ee.blocked = blocked
    BY DEF Now
  <2> HIDE DEF e, e2
  <2> QED
    BY <2>1 DEF StreamSendme, StreamsAreBlocked
<1>3. spw[s] + StreamIncrement <= StreamStart
  BY <1>2, SendmeRoom
<1>4. c \in [Streams -> Nat] /\ r \in [Streams -> BOOLEAN]
  BY <1>0, Numbers DEF TypeOK
<1> HIDE DEF c, r
<1>5. /\ e \in Edges /\ e.pw = pw /\ e.spw = c /\ e.inbuf = inbuf
      /\ e.wire = wire /\ e.queue = queue /\ e.idle = idle /\ e.blocked = blocked /\ e.reading = reading
  <2>1. Now(idle) \in Edges
    BY <1>1, GoodAre
  <2> QED
    BY <1>4, <2>1 DEF Now, Edges
<1>6. /\ e2 \in Edges /\ e2.pw = pw /\ e2.spw = c /\ e2.inbuf = inbuf
      /\ e2.wire = wire /\ e2.queue = queue /\ e2.idle = idle /\ e2.blocked = blocked /\ e2.reading = r
  <2> HIDE DEF e
  <2> QED
    BY <1>4, <1>5 DEF Edges
<1> HIDE DEF e, e2
<1>7. \A t \in Streams : t # s => c[t] = spw[t]
  BY <1>0 DEF c, TypeOK
<1>8. /\ Now(idle).idle = idle /\ Now(idle).queue = queue /\ Now(idle).blocked = blocked
      /\ Now(idle).reading = reading /\ Now(idle).spw = spw /\ Now(idle).pw = pw
      /\ Now(idle).inbuf = inbuf /\ Marks(Now(idle))
  BY <1>1 DEF Now, GoodEdges
<1>9. ASSUME blocked, pstream[s] = "open" PROVE e \in GoodEdges /\ EdgeLine(e) = Line
  <2>1. blocked /\ reading[s] => spw[s] = StreamStart
    BY <1>8 DEF Marks
  <2>2. ~reading[s]
    <3>1. spw[s] \in Nat
      BY <1>0 DEF TypeOK
    <3> QED
      BY <1>3, <1>9, <2>1, <3>1, Numbers
  <2>3. Marks(e)
    BY <1>5, <1>7, <1>8, <2>2 DEF Marks
  <2> QED
    BY <1>5, <2>3 DEF GoodEdges, EdgeLine, Line
<1>10. ASSUME ~blocked PROVE e2 \in GoodEdges /\ EdgeLine(e2) = Line
  <2>1. Marks(e2)
    BY <1>6, <1>8, <1>10 DEF Marks
  <2> QED
    BY <1>6, <2>1 DEF GoodEdges, EdgeLine, Line
<1>11. CASE (pstream[s] # "open" \/ s \in Library) /\ Becomes(Now(idle))
  <2>1. PICK x \in Seq(OpenData) : Charged(Now(idle), x, <<>>)
    BY <1>0, <1>1, <1>11, PackagedNothing, PackOnly
  <2>2. StreamSendmeBase(s, Now(idle))
    BY <1>8, <1>11 DEF StreamSendmeBase
  <2> QED
    BY <1>1, <2>1, <2>2
<1>12. CASE pstream[s] = "open" /\ blocked /\ Becomes(e)
  <2>1. PICK x \in Seq(OpenData) : Charged(e, x, <<>>)
    BY <1>0, <1>9, <1>12, PackagedNothing, PackOnly
  <2>2. StreamSendmeBase(s, e)
    BY <1>5, <1>12 DEF StreamSendmeBase, c
  <2> QED
    BY <1>9, <1>12, <2>1, <2>2
<1>13. CASE pstream[s] = "open" /\ ~blocked /\ Becomes(PackageRaw(e2, s, NoMax))
  <2>1. NoMax \in Nat /\ s \in OpenStreams
    BY <1>13, Numbers DEF NoMax, OpenStreams
  <2>2. PackageRaw(e2, s, NoMax) \in Packaged(e2)
    BY <1>10, <1>13, <2>1, Packages
  <2>3. PICK x \in Seq(OpenData) : Charged(e2, x, <<>>)
    BY <1>0, <1>10, <1>13, <2>2, PackOnly
  <2>4. StreamSendmeBase(s, e2)
    BY <1>6, <1>13 DEF StreamSendmeBase, c
  <2> QED
    BY <1>10, <1>13, <2>3, <2>4
<1> QED
  BY <1>2, <1>11, <1>12, <1>13

LEMMA StreamSendmePacks ==
  ASSUME IInv, NEW s \in Streams, NEW idle \in CanBeIdle, StreamSendme(s, idle), UNCHANGED side
  PROVE  \E e \in GoodEdges, x \in Seq(OpenData) :
           Charged(e, x, <<>>) /\ StreamSendmeBase(s, e) /\ Balanced(e, <<>>)
<1>0. TypeOK /\ \A t \in Streams : EndsLast(t)
  BY DEF IInv
<1>1. PICK e \in GoodEdges, x \in Seq(OpenData) : Charged(e, x, <<>>) /\ StreamSendmeBase(s, e)
  BY StreamSendmeCharges
<1>2. /\ NextBack("SENDME") /\ Head(back).stream = s /\ TakeBack
      /\ UNCHANGED <<pstream, supply, deliverer, circ>>
  BY DEF StreamSendme
<1>3. /\ back' \in Seq(Cells)
      /\ CircuitWay(back) = CircuitWay(back')
      /\ \A t : StreamWay(back, t) = StreamWay(back', t) + (IF s = t THEN StreamIncrement ELSE 0)
      /\ CircuitWay(back') \in Nat /\ \A t : StreamWay(back', t) \in Nat
      /\ \A t : HasEnd(back', t) => HasEnd(back, t)
  <2>1. "SENDME" \in {"DATA", "END", "SENDME"} /\ s # Circuit
    BY FlowAssumption
  <2>2. CircuitWay(back) = CircuitWay(back') + 0 /\ CircuitWay(back') \in Nat
    BY <1>0, <1>2, <2>1, Takes
  <2>3. /\ back' \in Seq(Cells)
        /\ \A t : StreamWay(back, t) = StreamWay(back', t) + (IF s = t THEN StreamIncrement ELSE 0)
        /\ \A t : StreamWay(back', t) \in Nat
        /\ \A t : HasEnd(back', t) => HasEnd(back, t)
    BY <1>0, <1>2, <2>1, Takes
  <2> QED
    BY <2>2, <2>3
<1>4. e.pw + CircuitWay(back') = pw + CircuitWay(back) /\ e.pw = pw /\ e.inbuf = inbuf
  BY <1>1, <1>3 DEF StreamSendmeBase
<1>5. ASSUME NEW t \in Streams
      PROVE  /\ e.spw[t] + StreamWay(back', t) <= spw[t] + StreamWay(back, t)
             /\ pstream[t] = "new" => e.spw[t] = spw[t]
             /\ e.inbuf[t] + supply'[t] = inbuf[t] + supply[t]
             /\ HasEnd(back', t) => HasEnd(back, t)
             /\ pstream'[t] = pstream[t]
             /\ pstream[t] = "closed" => supply'[t] = 0 /\ e.inbuf[t] = 0
  <2>1. EndsLast(t) /\ spw \in [Streams -> Nat] /\ supply' = supply /\ pstream' = pstream
    BY <1>0, <1>2 DEF TypeOK
  <2>2. e.spw[t] = spw[t] \/ (t = s /\ pstream[s] = "open" /\ e.spw[t] = spw[t] + StreamIncrement)
    BY <1>1, <2>1 DEF StreamSendmeBase
  <2>3. e.spw[t] + StreamWay(back', t) <= spw[t] + StreamWay(back, t)
    <3> DEFINE b == StreamWay(back', t)
               w == StreamWay(back, t)
               u == spw[t]
               v == e.spw[t]
    <3>1. b \in Nat /\ u \in Nat /\ (v = u \/ (t = s /\ v = u + StreamIncrement))
          /\ w = b + (IF s = t THEN StreamIncrement ELSE 0)
      BY <1>3, <2>1, <2>2
    <3> HIDE DEF b, w, u, v
    <3>2. v + b <= u + w
      BY <3>1, Numbers
    <3> QED
      BY <3>2 DEF b, w, u, v
  <2>4. e.inbuf[t] + supply'[t] = inbuf[t] + supply[t] /\ pstream'[t] = pstream[t]
        /\ (pstream[t] = "closed" => supply'[t] = 0 /\ e.inbuf[t] = 0)
    BY <1>4, <2>1 DEF EndsLast
  <2>5. pstream[t] = "new" => e.spw[t] = spw[t]
    BY <2>2
  <2>6. HasEnd(back', t) => HasEnd(back, t)
    BY <1>3
  <2> QED
    BY <2>3, <2>4, <2>5, <2>6
<1>6. /\ UNCHANGED <<side, deliverer, circ>>
      /\ pstream' \in [Streams -> {"new", "open", "closed"}] /\ supply' \in [Streams -> Nat]
  BY <1>0, <1>2 DEF TypeOK
<1>7. Balanced(e, <<>>)
  BY <1>3, <1>4, <1>5, <1>6, NothingBehind DEF Balanced
<1> QED
  BY <1>1, <1>7

\* What a read or a write puts on the inbuf.
ReadBase(s, k, e) ==
  e.pw = pw /\ e.spw = spw /\ e.inbuf = [inbuf EXCEPT ![s] = @ + k]

LEMMA FilledIsGood ==
  ASSUME IInv, NEW s \in Streams, NEW k \in Nat, NEW idle \in CanBeIdle,
         NEW e, e = [Now(idle) EXCEPT !.inbuf[s] = @ + k]
  PROVE  e \in GoodEdges /\ EdgeLine(e) = Line /\ ReadBase(s, k, e)
<1> DEFINE i == [inbuf EXCEPT ![s] = @ + k]
<1>0. TypeOK /\ QueueMarks
  BY DEF IInv
<1>1. Now(idle) \in GoodEdges /\ EdgeLine(Now(idle)) = Line /\ Now(idle) \in Edges
  BY <1>0, NowIsGood, GoodAre
<1>2. e = [Now(idle) EXCEPT !.inbuf = i]
  BY DEF Now
<1>3. i \in [Streams -> Nat]
  BY <1>0 DEF TypeOK
<1> HIDE DEF i
<1>4. /\ e \in Edges /\ e.pw = pw /\ e.spw = spw /\ e.inbuf = i
      /\ e.wire = wire /\ e.queue = queue /\ e.idle = idle /\ e.blocked = blocked /\ e.reading = reading
  BY <1>1, <1>2, <1>3 DEF Now, Edges
<1>5. Marks(e)
  BY <1>1, <1>4 DEF GoodEdges, Marks, Now
<1> QED
  BY <1>4, <1>5 DEF GoodEdges, EdgeLine, Line, ReadBase, i

LEMMA WritePacks ==
  ASSUME IInv, NEW s \in Streams, NEW idle \in CanBeIdle, NEW k \in 1 .. supply[s],
         Write(s, k, idle), UNCHANGED side
  PROVE  \E e \in GoodEdges, x \in Seq(OpenData) :
           Charged(e, x, <<>>) /\ ReadBase(s, k, e) /\ Balanced(e, <<>>)
<1> DEFINE e == [Now(idle) EXCEPT !.inbuf[s] = @ + k]
<1>0. TypeOK /\ \A t \in Streams : EndsLast(t)
  BY DEF IInv
<1>1. k \in Nat /\ k <= supply[s] /\ supply \in [Streams -> Nat]
  BY <1>0 DEF TypeOK
<1>2. e \in GoodEdges /\ EdgeLine(e) = Line /\ ReadBase(s, k, e)
  BY <1>1, FilledIsGood
<1>3. /\ pstream[s] = "open" /\ Becomes(PackageRaw(e, s, NoMax))
      /\ supply' = [supply EXCEPT ![s] = @ - k]
      /\ UNCHANGED <<pstream, back, deliverer, circ>>
  BY DEF Write
<1> HIDE DEF e
<1>4. PackageRaw(e, s, NoMax) \in Packaged(e)
  <2>1. NoMax \in Nat /\ s \in OpenStreams
    BY <1>3, Numbers DEF NoMax, OpenStreams
  <2> QED
    BY <1>2, <2>1, Packages
<1>5. PICK x \in Seq(OpenData) : Charged(e, x, <<>>)
  BY <1>0, <1>2, <1>3, <1>4, PackOnly
<1>6. Balanced(e, <<>>)
  <2>1. /\ UNCHANGED <<side, deliverer, circ>> /\ back' \in Seq(Cells) /\ back' = back
        /\ pstream' \in [Streams -> {"new", "open", "closed"}] /\ supply' \in [Streams -> Nat]
        /\ pstream' = pstream
    BY <1>0, <1>1, <1>3 DEF TypeOK
  <2>2. e.pw + CircuitWay(back') = pw + CircuitWay(back)
    BY <1>2, <2>1 DEF ReadBase
  <2>3. ASSUME NEW t \in Streams
        PROVE  /\ e.spw[t] + StreamWay(back', t) <= spw[t] + StreamWay(back, t)
               /\ pstream[t] = "new" => e.spw[t] = spw[t]
               /\ e.inbuf[t] + supply'[t] = inbuf[t] + supply[t]
               /\ pstream[t] = "closed" => supply'[t] = 0 /\ e.inbuf[t] = 0
    <3>1. spw[t] + StreamWay(back, t) <= spw[t] + StreamWay(back, t)
      <4> DEFINE b == StreamWay(back, t)
                 u == spw[t]
      <4>1. b \in Nat /\ u \in Nat
        BY <1>0, WaysAre DEF TypeOK
      <4> HIDE DEF b, u
      <4>2. u + b <= u + b
        BY <4>1
      <4> QED
        BY <4>2 DEF b, u
    <3>2. e.inbuf[t] = IF t = s THEN inbuf[t] + k ELSE inbuf[t]
      BY <1>0, <1>2 DEF ReadBase, TypeOK
    <3>3. supply'[t] = IF t = s THEN supply[t] - k ELSE supply[t]
      BY <1>1, <1>3
    <3>4. inbuf[t] \in Nat /\ supply[t] \in Nat
      BY <1>0 DEF TypeOK
    <3>5. e.inbuf[t] + supply'[t] = inbuf[t] + supply[t]
      BY <1>1, <3>2, <3>3, <3>4
    <3>6. pstream[t] = "closed" => supply'[t] = 0 /\ e.inbuf[t] = 0
      BY <1>0, <1>3, <3>2, <3>3 DEF EndsLast
    <3> QED
      BY <1>2, <2>1, <3>1, <3>5, <3>6 DEF ReadBase
  <2> QED
    BY <2>1, <2>2, <2>3, NothingBehind DEF Balanced
<1> QED
  BY <1>2, <1>5, <1>6

LEMMA ReadPacks ==
  ASSUME IInv, NEW s \in Streams, NEW idle \in CanBeIdle, NEW k \in 0 .. supply[s],
         NEW eof \in BOOLEAN, Read(s, k, eof, idle), UNCHANGED side
  PROVE  \E e \in GoodEdges, x \in Seq(OpenData), y \in Seq(Cells) :
           /\ Behind(y) /\ Charged(e, x, y) /\ ReadBase(s, k, e) /\ Balanced(e, y)
           /\ \A t \in Streams : pstream'[t] # pstream[t] => pstream'[t] = "closed"
<1> DEFINE e == [Now(idle) EXCEPT !.inbuf[s] = @ + k]
           f == PackageRaw(e, s, NoMax)
           done == ReachedEof(eof, f.inbuf[s])
           g == [AppendCells(f, Cell("END", s), 1) EXCEPT !.reading[s] = FALSE]
<1>0. TypeOK /\ \A t \in Streams : EndsLast(t)
  BY DEF IInv
<1>1. k \in Nat /\ k <= supply[s] /\ supply \in [Streams -> Nat]
  BY <1>0 DEF TypeOK
<1>2. e \in GoodEdges /\ EdgeLine(e) = Line /\ ReadBase(s, k, e)
  BY <1>1, FilledIsGood
<1>3. /\ pstream[s] = "open" /\ (eof => k = supply[s])
      /\ supply' = [supply EXCEPT ![s] = @ - k]
      /\ pstream' = [pstream EXCEPT ![s] = IF done THEN "closed" ELSE @]
      /\ Becomes(IF done THEN g ELSE f)
      /\ UNCHANGED <<back, deliverer, circ>>
  BY DEF Read
<1> HIDE DEF e
<1>4. f \in Packaged(e)
  <2>1. NoMax \in Nat /\ s \in OpenStreams
    BY <1>3, Numbers DEF NoMax, OpenStreams
  <2> QED
    BY <1>2, <2>1, Packages
<1>5. f \in GoodEdges
  BY <1>4 DEF Packaged
<1> HIDE DEF f
<1>6. ASSUME NEW y, Behind(y), NEW x \in Seq(OpenData), Charged(e, x, y), \A t : HasEnd(y, t) => done /\ t = s,
             done => inbuf'[s] = 0
      PROVE  Balanced(e, y)
  <2>1. /\ UNCHANGED <<side, deliverer, circ>> /\ back' \in Seq(Cells) /\ back' = back
        /\ pstream' \in [Streams -> {"new", "open", "closed"}] /\ supply' \in [Streams -> Nat]
    <3> HIDE DEF done
    <3> QED
      BY <1>0, <1>1, <1>3 DEF TypeOK
  <2>2. e.pw + CircuitWay(back') = pw + CircuitWay(back)
    BY <1>2, <2>1 DEF ReadBase
  <2>3. ASSUME NEW t \in Streams
        PROVE  /\ e.spw[t] + StreamWay(back', t) <= spw[t] + StreamWay(back, t)
               /\ pstream[t] = "new" => e.spw[t] = spw[t]
               /\ e.inbuf[t] + supply'[t] = inbuf[t] + supply[t]
               /\ \/ pstream'[t] = pstream[t]
                  \/ pstream[t] = "open" /\ pstream'[t] = "closed" /\ supply'[t] = 0 /\ inbuf'[t] = 0
               /\ HasEnd(y, t) => pstream'[t] = "closed"
               /\ pstream[t] = "closed" => supply'[t] = 0 /\ e.inbuf[t] = 0
    <3>1. spw[t] + StreamWay(back, t) <= spw[t] + StreamWay(back, t)
      <4> DEFINE b == StreamWay(back, t)
                 u == spw[t]
      <4>1. b \in Nat /\ u \in Nat
        BY <1>0, WaysAre DEF TypeOK
      <4> HIDE DEF b, u
      <4>2. u + b <= u + b
        BY <4>1
      <4> QED
        BY <4>2 DEF b, u
    <3>2. e.inbuf[t] = IF t = s THEN inbuf[t] + k ELSE inbuf[t]
      BY <1>0, <1>2 DEF ReadBase, TypeOK
    <3>3. supply'[t] = IF t = s THEN supply[t] - k ELSE supply[t]
      BY <1>1, <1>3
    <3>4. inbuf[t] \in Nat /\ supply[t] \in Nat
      BY <1>0 DEF TypeOK
    <3>5. e.inbuf[t] + supply'[t] = inbuf[t] + supply[t]
      BY <1>1, <3>2, <3>3, <3>4
    <3>6. pstream[t] = "closed" => supply'[t] = 0 /\ e.inbuf[t] = 0
      BY <1>0, <1>3, <3>2, <3>3 DEF EndsLast
    <3>7. done => eof
      BY DEF ReachedEof
    <3> HIDE DEF done
    <3>8. /\ \/ pstream'[t] = pstream[t]
             \/ pstream[t] = "open" /\ pstream'[t] = "closed" /\ done /\ t = s
          /\ HasEnd(y, t) => pstream'[t] = "closed"
      BY <1>0, <1>3, <1>6 DEF TypeOK
    <3>9. done /\ t = s => supply'[t] = 0
      BY <1>3, <3>3, <3>4, <3>7
    <3>10. \/ pstream'[t] = pstream[t]
           \/ pstream[t] = "open" /\ pstream'[t] = "closed" /\ supply'[t] = 0 /\ inbuf'[t] = 0
      BY <1>6, <3>8, <3>9
    <3> QED
      BY <1>2, <2>1, <3>1, <3>5, <3>6, <3>8, <3>10 DEF ReadBase
  <2> QED
    BY <2>1, <2>2, <2>3 DEF Balanced
<1>7. \A t \in Streams : pstream'[t] # pstream[t] => pstream'[t] = "closed"
  BY <1>0, <1>3 DEF TypeOK
<1>8. CASE ~done
  <2>1. PICK x \in Seq(OpenData) : Charged(e, x, <<>>)
    BY <1>0, <1>2, <1>3, <1>4, <1>8, PackOnly
  <2>2. Balanced(e, <<>>)
    BY <1>6, <1>8, <2>1, NothingBehind
  <2>3. <<>> \in Seq(Cells)
    BY EmptySeq
  <2> QED
    BY <1>2, <1>7, <2>1, <2>2, <2>3, NothingBehind
<1>9. CASE done
  <2> DEFINE y == <<Cell("END", s)>>
             h == AppendCells(f, Cell("END", s), 1)
             r == [h.reading EXCEPT ![s] = FALSE]
  <2>1. /\ y \in Seq(Cells) /\ Len(y) = 1 /\ y[1] = Cell("END", s)
    BY CellsAre, CountOne
  <2>2. Behind(y) /\ \A t : HasEnd(y, t) => t = s
    <3>1. \A i \in 1 .. Len(y) : y[i] = Cell("END", s)
      BY <2>1
    <3> HIDE DEF y
    <3>2. \A i \in 1 .. Len(y) : y[i].cmd # "DATA"
      BY <3>1, CellsAre
    <3>3. \A t : HasEnd(y, t) => t = s
      BY <3>1, CellsAre DEF HasEnd
    <3> QED
      BY <2>1, <3>2, <3>3 DEF Behind
  <2>3. /\ h \in GoodEdges /\ h.inbuf = f.inbuf /\ h.spw = f.spw /\ h.pw = f.pw
        /\ EdgeLine(h) = EdgeLine(f) \o Copies(Cell("END", s), 1)
    <3> HIDE DEF h, g, y, r, done
    <3>1. h = AppendCells(f, Cell("END", s), 1) => EndAppended(f, h, s)
      BY <1>5, AppendsEnd
    <3>2. h = AppendCells(f, Cell("END", s), 1)
      BY DEF h
    <3> QED
      BY <3>1, <3>2 DEF EndAppended
  <2>4. Copies(Cell("END", s), 1) = y
    BY DEF Copies
  <2>5. g = [h EXCEPT !.reading = r]
    BY <2>3 DEF GoodEdges, Edges
  <2> HIDE DEF y, h
  <2>6. r \in [Streams -> BOOLEAN] /\ \A t \in Streams : r[t] => h.reading[t]
    BY <2>3 DEF GoodEdges, Edges
  <2> HIDE DEF r
  <2>7. /\ g \in Edges /\ g.inbuf = h.inbuf /\ g.spw = h.spw /\ g.pw = h.pw /\ g.reading = r
        /\ g.wire = h.wire /\ g.queue = h.queue /\ g.idle = h.idle /\ g.blocked = h.blocked
    BY <2>3, <2>5, <2>6 DEF GoodEdges, Edges
  <2> HIDE DEF g
  <2>8. Marks(g)
    <3>1. Marks(h)
      BY <2>3 DEF GoodEdges
    <3> QED
      BY <2>6, <2>7, <3>1 DEF Marks
  <2>9. g \in GoodEdges /\ EdgeLine(g) = EdgeLine(f) \o y
    BY <2>3, <2>4, <2>7, <2>8 DEF GoodEdges, EdgeLine
  <2>10. Becomes(g) /\ g.pw = f.pw /\ g.spw = f.spw /\ g.inbuf = f.inbuf
    BY <1>3, <1>9, <2>3, <2>7
  <2>11. PICK x \in Seq(OpenData) : Charged(e, x, y)
    BY <1>0, <1>2, <1>4, <2>2, <2>9, <2>10, PackStep
  <2>12. inbuf'[s] = 0
    BY <1>9, <2>10 DEF Becomes, ReachedEof
  <2>13. Balanced(e, y)
    BY <1>6, <1>9, <2>2, <2>11, <2>12
  <2> QED
    BY <1>2, <1>7, <2>1, <2>2, <2>11, <2>13
<1> QED
  BY <1>8, <1>9
-----------------------------------------------------------------------------
(* The inductive invariant, through the other handlers. *)

\* What a handler that packages nothing does to the accounts.
Settled(s) ==
  /\ Count(Line', DataOf(s)) + StreamWay(back', s) + sdw[s]
       <= Count(Line, DataOf(s)) + StreamWay(back, s) + sdw'[s]
  /\ sdw'[s] <= StreamStart
  /\ pstream'[s] = "new" => pstream[s] = "new"
  /\ dstream[s] = "hungup" => dstream'[s] = "hungup"
  /\ dstream[s] = "ended" => dstream'[s] \in {"ended", "hungup"}
  /\ dstream'[s] # "hungup" =>
       got'[s] + Count(Line', DataOf(s)) + inbuf'[s] + supply'[s]
         = got[s] + Count(Line, DataOf(s)) + inbuf[s] + supply[s]
  /\ HasEnd(back', s) => HasEnd(back, s) \/ dstream'[s] = "hungup"
  /\ HasEnd(Line', s) => HasEnd(Line, s)
  /\ InOrder(Line, s) => InOrder(Line', s)
  /\ pstream[s] = "closed" => pstream'[s] = "closed"
  /\ pstream'[s] = "closed" =>
       \/ pstream[s] = "closed" /\ supply'[s] = supply[s] /\ inbuf'[s] = inbuf[s]
       \/ supply'[s] = 0 /\ inbuf'[s] = 0
  /\ dstream'[s] = "ended" =>
       \/ dstream[s] = "ended" /\ Count(Line', DataOf(s)) = Count(Line, DataOf(s))
       \/ pstream'[s] = "closed" /\ Count(Line', DataOf(s)) = 0

Settles ==
  /\ TypeOK' /\ QueueMarks'
  /\ UNCHANGED <<side, pw, spw, circ>>
  /\ Count(Line', DataCells) + CircuitWay(back') + dw
       = Count(Line, DataCells) + CircuitWay(back) + dw'
  /\ dw' <= CircStart
  /\ \A s \in Streams : Settled(s)

\* A handler that packages nothing keeps the invariant.
LEMMA SettlesIInv ==
  ASSUME IInv, Settles
  PROVE  IInv'
<1>0. TypeOK /\ Live /\ CircuitAccount /\ QueueMarks /\ TypeOK'
      /\ \A s \in Streams : StreamAccount(s) /\ DataAccount(s) /\ EndsLast(s)
  BY DEF IInv, Settles
<1>1. TypeOK' /\ Live' /\ QueueMarks'
  BY <1>0 DEF Settles, Live
<1>2. /\ CircuitWay(back) \in Nat /\ CircuitWay(back') \in Nat
      /\ \A s : StreamWay(back, s) \in Nat /\ StreamWay(back', s) \in Nat
  BY <1>0, WaysAre DEF TypeOK
<1>3. \A C : Count(Line, C) \in Nat
  BY <1>0, LineTyped
<1>4. \A C : Count(Line', C) \in Nat
  <2>1. Line' \in Seq(Cells)
    BY <1>0, ConcatProperties DEF TypeOK, Line
  <2> QED
    BY <2>1, CountConcat
<1>5. CircuitAccount'
  <2> DEFINE cl == Count(Line, DataCells)
             cm == Count(Line', DataCells)
             b == CircuitWay(back)
             c == CircuitWay(back')
             u == dw
             v == dw'
             w == CircStart - CircInitial
             p == pw
  <2>1. p + cl + b + w = u
    BY <1>0 DEF CircuitAccount, CircuitWay
  <2>2. cm + c + u = cl + b + v /\ v <= CircStart /\ pw' = p
    BY DEF Settles
  <2>3. cl \in Nat /\ cm \in Nat /\ b \in Nat /\ c \in Nat /\ u \in Nat /\ v \in Nat /\ p \in Nat /\ w \in Int
    BY <1>0, <1>2, <1>3, <1>4, Numbers DEF TypeOK
  <2> HIDE DEF cl, cm, b, c, u, v, w, p
  <2>4. p + cm + c + w = v
    BY <2>1, <2>2, <2>3
  <2> QED
    BY <2>2, <2>4 DEF CircuitAccount, CircuitWay, cm, c, v, w
<1>6. ASSUME NEW s \in Streams PROVE StreamAccount(s)'
  <2> DEFINE d == Count(Line, DataOf(s))
             e == Count(Line', DataOf(s))
             b == StreamWay(back, s)
             c == StreamWay(back', s)
             u == sdw[s]
             v == sdw'[s]
             p == spw[s]
  <2>1. p + d + b <= u /\ (pstream[s] = "new" => p = StreamStart)
    BY <1>0 DEF StreamAccount, StreamWay
  <2>2. e + c + u <= d + b + v /\ v <= StreamStart /\ spw' = spw
        /\ (pstream'[s] = "new" => pstream[s] = "new")
    BY DEF Settles, Settled
  <2>3. d \in Nat /\ e \in Nat /\ b \in Nat /\ c \in Nat /\ u \in Nat /\ v \in Nat /\ p \in Nat
    BY <1>0, <1>2, <1>3, <1>4 DEF TypeOK
  <2> HIDE DEF d, e, b, c, u, v, p
  <2>4. p + e + c <= v
    BY <2>1, <2>2, <2>3
  <2> QED
    BY <2>1, <2>2, <2>4 DEF StreamAccount, StreamWay, e, c, v, p
<1>7. ASSUME NEW s \in Streams PROVE DataAccount(s)'
  <2>1. Supply' = Supply
    BY DEF Settles, Supply
  <2>2. dstream[s] # "hungup" =>
          got[s] + Count(Line, DataOf(s)) + inbuf[s] + supply[s] = Supply[s]
    BY <1>0 DEF DataAccount
  <2>3. dstream'[s] # "hungup" =>
          /\ dstream[s] # "hungup"
          /\ got'[s] + Count(Line', DataOf(s)) + inbuf'[s] + supply'[s]
               = got[s] + Count(Line, DataOf(s)) + inbuf[s] + supply[s]
    BY DEF Settles, Settled
  <2> QED
    BY <2>1, <2>2, <2>3 DEF DataAccount
<1>8. ASSUME NEW s \in Streams PROVE EndsLast(s)'
  <2>1. EndsLast(s) /\ Settled(s)
    BY <1>0 DEF Settles
  <2>2. /\ HasEnd(back', s) => dstream'[s] = "hungup"
        /\ HasEnd(Line', s) => pstream'[s] = "closed"
        /\ InOrder(Line', s)
    BY <2>1 DEF EndsLast, Settled
  <2>3. pstream'[s] = "closed" => supply'[s] = 0 /\ inbuf'[s] = 0
    BY <2>1 DEF EndsLast, Settled
  <2>4. dstream'[s] = "ended" => pstream'[s] = "closed" /\ Count(Line', DataOf(s)) = 0
    BY <2>1 DEF EndsLast, Settled
  <2> HIDE DEF Line
  <2> QED
    BY <2>2, <2>3, <2>4 DEF EndsLast
<1> QED
  BY <1>1, <1>5, <1>6, <1>7, <1>8 DEF IInv

LEMMA AccountNumbers ==
  ASSUME TypeOK
  PROVE  /\ Count(Line, DataCells) \in Nat /\ CircuitWay(back) \in Nat /\ dw \in Nat
         /\ \A s \in Streams :
              /\ Count(Line, DataOf(s)) \in Nat /\ StreamWay(back, s) \in Nat /\ sdw[s] \in Nat
              /\ got[s] \in Nat /\ inbuf[s] \in Nat /\ supply[s] \in Nat
BY LineTyped, WaysAre DEF TypeOK

\* A handler that leaves the line, the way back and the windows alone.
LEMMA SteadySettles ==
  ASSUME IInv, TypeOK', QueueMarks', Line' = Line,
         UNCHANGED <<side, pw, spw, circ, back, sdw, dw, got, inbuf, supply>>,
         \A s \in Streams :
           /\ pstream'[s] = pstream[s] \/ (pstream[s] = "new" /\ pstream'[s] = "open")
           /\ dstream'[s] = dstream[s] \/ (dstream[s] = "connecting" /\ dstream'[s] = "open")
  PROVE  Settles
<1>1. TypeOK /\ CircuitAccount /\ \A s \in Streams : StreamAccount(s) /\ EndsLast(s)
  BY DEF IInv
<1>2. Count(Line', DataCells) + CircuitWay(back') + dw
        = Count(Line, DataCells) + CircuitWay(back) + dw' /\ dw' <= CircStart
  BY <1>1 DEF CircuitAccount
<1>3. ASSUME NEW s \in Streams PROVE Settled(s)
  <2>1. /\ Count(Line', DataOf(s)) = Count(Line, DataOf(s))
        /\ StreamWay(back', s) = StreamWay(back, s) /\ sdw'[s] = sdw[s]
    OBVIOUS
  <2>2. Count(Line', DataOf(s)) + StreamWay(back', s) + sdw[s]
          <= Count(Line, DataOf(s)) + StreamWay(back, s) + sdw'[s]
    <3> DEFINE a == Count(Line, DataOf(s))
               b == StreamWay(back, s)
               c == sdw[s]
    <3>1. a \in Nat /\ b \in Nat /\ c \in Nat
      BY <1>1, AccountNumbers
    <3> HIDE DEF a, b, c
    <3>2. a + b + c <= a + b + c
      BY <3>1
    <3> QED
      BY <2>1, <3>2 DEF a, b, c
  <2>3. StreamAccount(s)
    BY <1>1
  <2>4. got'[s] + Count(Line', DataOf(s)) + inbuf'[s] + supply'[s]
         = got[s] + Count(Line, DataOf(s)) + inbuf[s] + supply[s]
    OBVIOUS
  <2> HIDE DEF Line
  <2>5. /\ pstream'[s] = "new" => pstream[s] = "new"
        /\ dstream[s] = "hungup" => dstream'[s] = "hungup"
        /\ dstream[s] = "ended" => dstream'[s] \in {"ended", "hungup"}
        /\ pstream[s] = "closed" => pstream'[s] = "closed"
        /\ pstream'[s] = "closed" => pstream[s] = "closed" /\ supply'[s] = supply[s] /\ inbuf'[s] = inbuf[s]
        /\ dstream'[s] = "ended" => dstream[s] = "ended"
    OBVIOUS
  <2>6. /\ HasEnd(back', s) => HasEnd(back, s)
        /\ HasEnd(Line', s) => HasEnd(Line, s)
        /\ InOrder(Line, s) => InOrder(Line', s)
        /\ sdw'[s] <= StreamStart
    BY <2>3 DEF StreamAccount
  <2> QED
    BY <2>1, <2>2, <2>4, <2>5, <2>6 DEF Settled
<1> QED
  BY <1>2, <1>3 DEF Settles

LEMMA OpenSettles ==
  ASSUME IInv, NEW s \in Streams, Open(s), UNCHANGED side
  PROVE  Settles
<1>1. TypeOK /\ QueueMarks /\ StreamAccount(s)
  BY DEF IInv
<1>2. TypeOK'
  BY <1>1 DEF TypeOK, Open, deliverer
<1>3. Line' = Line /\ UNCHANGED <<side, pw, spw, circ, back, sdw, dw, got, inbuf, supply>>
  BY DEF Open, Line, deliverer
<1>4. QueueMarks'
  <2>1. ASSUME NEW t \in Streams, blocked', reading'[t] PROVE spw'[t] = StreamStart
    <3>1. CASE t = s
      BY <1>1, <3>1 DEF Open, StreamAccount
    <3>2. CASE t # s
      BY <1>1, <2>1, <3>2 DEF Open, QueueMarks, BlockedIsSilent, TypeOK
    <3> QED
      BY <3>1, <3>2
  <2> QED
    BY <1>1, <2>1 DEF QueueMarks, BlockedIsSilent, Open
<1>5. \A t \in Streams :
        /\ pstream'[t] = pstream[t] \/ (pstream[t] = "new" /\ pstream'[t] = "open")
        /\ dstream'[t] = dstream[t] \/ (dstream[t] = "connecting" /\ dstream'[t] = "open")
  BY <1>1 DEF Open, TypeOK, deliverer
<1> QED
  BY <1>2, <1>3, <1>4, <1>5, SteadySettles

LEMMA ConnectedSettles ==
  ASSUME IInv, NEW s \in Streams, Connected(s), UNCHANGED side
  PROVE  Settles
<1>1. TypeOK /\ QueueMarks
  BY DEF IInv
<1>2. TypeOK'
  BY <1>1 DEF TypeOK, Connected, packager
<1>3. Line' = Line /\ UNCHANGED <<side, pw, spw, circ, back, sdw, dw, got, inbuf, supply>>
  BY DEF Connected, Line, packager
<1>4. QueueMarks'
  BY <1>1 DEF QueueMarks, BlockedIsSilent, Connected, packager
<1>5. \A t \in Streams :
        /\ pstream'[t] = pstream[t] \/ (pstream[t] = "new" /\ pstream'[t] = "open")
        /\ dstream'[t] = dstream[t] \/ (dstream[t] = "connecting" /\ dstream'[t] = "open")
  BY <1>1 DEF Connected, TypeOK, packager
<1> QED
  BY <1>2, <1>3, <1>4, <1>5, SteadySettles

\* connection_or_flush_from_first_active_circuit: the line is the same.
LEMMA LineMoves ==
  ASSUME NEW w \in Seq(Cells), NEW q \in Seq(Cells), q # <<>>
  PROVE  Append(w, Head(q)) \o Tail(q) = w \o q
<1>1. Head(q) \in Cells /\ Tail(q) \in Seq(Cells) /\ q = <<Head(q)>> \o Tail(q)
  BY TakeFirst
<1>2. <<Head(q)>> \in Seq(Cells) /\ Append(w, Head(q)) = w \o <<Head(q)>>
  BY <1>1, AppendIsConcat
<1>3. (w \o <<Head(q)>>) \o Tail(q) = w \o (<<Head(q)>> \o Tail(q))
  BY <1>1, <1>2, LineAssociative
<1> QED
  BY <1>1, <1>2, <1>3

LEMMA FlushSettles ==
  ASSUME IInv, Flush, UNCHANGED side
  PROVE  Settles
<1>1. TypeOK /\ QueueMarks
  BY DEF IInv
<1>2. /\ queue \in Seq(Cells) /\ wire \in Seq(Cells) /\ queue # <<>>
      /\ wire' = Append(wire, Head(queue)) /\ queue' = Tail(queue)
  BY <1>1 DEF TypeOK, Flush
<1>3. /\ Head(queue) \in Cells /\ queue' \in Seq(Cells)
      /\ Len(queue) \in Nat \ {0} /\ Len(queue') = Len(queue) - 1
  BY <1>2, TakeFirst
<1>4. wire' \in Seq(Cells)
  BY <1>2, <1>3, AppendProperties
<1>5. Line' = Line
  BY <1>2, LineMoves DEF Line
<1>6. /\ \/ blocked /\ Len(queue') <= Low /\ blocked' = FALSE
            /\ reading' = [s \in Streams |-> Restarted(s)]
         \/ ~(blocked /\ Len(queue') <= Low) /\ UNCHANGED <<blocked, reading>>
      /\ UNCHANGED <<pstream, supply, inbuf, spw, pw, back, deliverer, circ>>
  BY DEF Flush, IsLow
<1>7. reading' \in [Streams -> BOOLEAN] /\ blocked' \in BOOLEAN
  <2>1. \A s \in Streams : Restarted(s) \in BOOLEAN
    BY <1>1 DEF Restarted, TypeOK
  <2> QED
    BY <1>1, <1>6, <2>1 DEF TypeOK
<1>8. TypeOK'
  BY <1>1, <1>3, <1>4, <1>6, <1>7 DEF TypeOK, deliverer
<1>9. QueueMarks'
  <2> DEFINE n == Len(queue)
             m == Len(queue')
  <2>1. n \in Nat /\ m = n - 1 /\ m \in Nat
    BY <1>3
  <2>2. (blocked => n > Low) /\ (~blocked => n < High)
    BY <1>1 DEF QueueMarks
  <2> HIDE DEF n, m
  <2>3. CASE blocked /\ m <= Low /\ blocked' = FALSE
    <3>1. m < High
      BY <2>1, <2>3, Numbers
    <3> QED
      BY <2>3, <3>1 DEF QueueMarks, BlockedIsSilent, m
  <2>4. CASE ~(blocked /\ m <= Low) /\ UNCHANGED <<blocked, reading>>
    <3>1. (blocked => m > Low) /\ (~blocked => m < High)
      BY <2>1, <2>2, <2>4, Numbers
    <3>2. spw' = spw
      BY <1>6
    <3> QED
      BY <1>1, <2>4, <3>1, <3>2 DEF QueueMarks, BlockedIsSilent, m
  <2> QED
    BY <1>6, <2>3, <2>4 DEF m
<1>10. /\ UNCHANGED <<side, pw, spw, circ, back, sdw, dw, got, inbuf, supply>>
       /\ \A t \in Streams : pstream'[t] = pstream[t] /\ dstream'[t] = dstream[t]
  BY <1>6 DEF deliverer
<1> QED
  BY <1>5, <1>8, <1>9, <1>10, SteadySettles
-----------------------------------------------------------------------------
(* What a handler of the delivering end takes from the line and sends back. *)

\* The rounds of a top-up loop, for windows as the code keeps them.
LEMMA DueRounds ==
  ASSUME NEW w \in Nat, NEW start \in Nat, NEW inc \in Nat \ {0}, w <= start, inc <= start,
         NEW m, m = Due(w, start, inc)
  PROVE  /\ m \in 0 .. start
         /\ w + m * inc > start - inc /\ w + m * inc <= start
         /\ m > 0 => w + (m - 1) * inc <= start - inc
<1>1. CASE w > start - inc
  <2>1. m = 0 /\ 0 * inc = 0
    BY <1>1 DEF Due
  <2> QED
    BY <1>1, <2>1
<1>2. CASE ~(w > start - inc)
  <2> DEFINE d == start - inc - w
             q == d \div inc
  <2>1. d \in Nat /\ m = q + 1
    BY <1>2 DEF Due
  <2> HIDE DEF d
  <2>2. q \in Nat /\ q * inc <= d /\ d < q * inc + inc /\ q <= d
    BY <2>1
  <2> HIDE DEF q
  <2>3. (q + 1) * inc = q * inc + inc /\ (m - 1) = q /\ q * inc \in Nat
    BY <2>1, <2>2
  <2> DEFINE z == q * inc
  <2>4. m * inc = z + inc /\ (m - 1) * inc = z /\ z \in Nat /\ z <= d /\ d < z + inc
    BY <2>1, <2>2, <2>3
  <2> HIDE DEF z
  <2>5. m \in 0 .. start
    BY <2>1, <2>2 DEF d
  <2>6. w + m * inc > start - inc /\ w + m * inc <= start /\ w + (m - 1) * inc <= start - inc
    BY <2>4 DEF d
  <2> QED
    BY <2>5, <2>6
<1> QED
  BY <1>1, <1>2

\* The SENDMEs a handler puts on the way back.
SentBack(b, c, t, n) ==
  \A s : Count(c, SendmesTo(s)) = Count(b, SendmesTo(s)) + (IF s = t THEN n ELSE 0)

LEMMA SendsBack ==
  ASSUME NEW b \in Seq(Cells), NEW t \in Streams \cup {Circuit}, NEW n \in Nat,
         NEW c, c = b \o Sendmes(t, n)
  PROVE  /\ c \in Seq(Cells)
         /\ SentBack(b, c, t, n)
         /\ \A s : HasEnd(c, s) <=> HasEnd(b, s)
<1> DEFINE d == Copies(Cell("SENDME", t), n)
<1>1. d = Sendmes(t, n) /\ Cell("SENDME", t) \in Cells
  BY CellsAre DEF Copies, Sendmes
<1>2. d \in Seq(Cells) /\ Len(d) = n /\ (\A i \in 1 .. n : d[i] = Cell("SENDME", t))
  <2>1. ASSUME NEW x \in Cells
        PROVE  /\ Copies(x, n) \in Seq(Cells) /\ Len(Copies(x, n)) = n
               /\ \A i \in 1 .. n : Copies(x, n)[i] = x
    BY CountCopies
  <2> QED
    BY <1>1, <2>1
<1>3. ASSUME NEW s PROVE Count(d, SendmesTo(s)) = IF s = t THEN n ELSE 0
  <2>1. Count(d, SendmesTo(s)) = IF Cell("SENDME", t) \in SendmesTo(s) THEN n ELSE 0
    BY <1>1, CountCopies
  <2> QED
    BY <2>1, SendmesAre
<1> HIDE DEF d
<1>4. c = b \o d
  BY <1>1
<1>5. ASSUME NEW s PROVE Count(c, SendmesTo(s)) = Count(b, SendmesTo(s)) + (IF s = t THEN n ELSE 0)
  <2>1. Count(b \o d, SendmesTo(s)) = Count(b, SendmesTo(s)) + Count(d, SendmesTo(s))
    BY <1>2, CountConcat
  <2> QED
    BY <1>3, <1>4, <2>1
<1>6. ASSUME NEW s PROVE HasEnd(c, s) <=> HasEnd(b, s)
  <2>1. ~HasEnd(d, s)
    <3>1. "SENDME" # "END"
      OBVIOUS
    <3> QED
      BY <1>2, <3>1, CellsAre DEF HasEnd
  <2>2. HasEnd(b \o d, s) <=> HasEnd(b, s) \/ HasEnd(d, s)
    BY <1>2, OrderConcat
  <2> QED
    BY <1>4, <2>1, <2>2
<1> QED
  BY <1>2, <1>4, <1>5, <1>6, ConcatProperties DEF SentBack

LEMMA MoreWay ==
  ASSUME NEW b \in Seq(Cells), NEW c \in Seq(Cells), NEW t, NEW n \in Nat, SentBack(b, c, t, n)
  PROVE  /\ CircuitWay(c) = CircuitWay(b) + (IF t = Circuit THEN CircIncrement * n ELSE 0)
         /\ \A s : StreamWay(c, s) = StreamWay(b, s) + (IF s = t THEN StreamIncrement * n ELSE 0)
<1>1. ASSUME NEW a \in Nat, NEW s
      PROVE  a * Count(c, SendmesTo(s)) = a * Count(b, SendmesTo(s)) + (IF s = t THEN a * n ELSE 0)
  <2> DEFINE k == Count(b, SendmesTo(s))
  <2>1. k \in Nat /\ Count(c, SendmesTo(s)) = k + (IF s = t THEN n ELSE 0)
    BY CountConcat DEF SentBack
  <2> HIDE DEF k
  <2>2. a * (k + n) = a * k + a * n /\ a * k \in Nat
    BY <2>1, TimesMore
  <2>3. CASE s = t
    BY <2>1, <2>2, <2>3 DEF k
  <2>4. CASE s # t
    <3>1. k + 0 = k /\ a * k + 0 = a * k
      BY <2>1, <2>2
    <3> QED
      BY <2>1, <2>4, <3>1 DEF k
  <2> QED
    BY <2>3, <2>4
<1>2. CircIncrement \in Nat /\ StreamIncrement \in Nat
  BY Numbers
<1> QED
  BY <1>1, <1>2 DEF CircuitWay, StreamWay

\* The first cell of the wire is the first of the line.
LEMMA LineTail ==
  ASSUME NEW w \in Seq(Cells), NEW q \in Seq(Cells), w # <<>>
  PROVE  /\ w \o q # <<>> /\ Head(w \o q) = Head(w) /\ Tail(w \o q) = Tail(w) \o q
<1> DEFINE l == w \o q
           t == Tail(w)
           u == t \o q
<1>1. /\ Head(w) = w[1] /\ t \in Seq(Cells) /\ Len(w) \in Nat \ {0} /\ Len(t) = Len(w) - 1
      /\ \A i \in 1 .. Len(t) : t[i] = w[i + 1]
  BY TakeFirst
<1>2. /\ l \in Seq(Cells) /\ Len(l) = Len(w) + Len(q) /\ Len(q) \in Nat
      /\ \A i \in 1 .. Len(w) + Len(q) : l[i] = IF i <= Len(w) THEN w[i] ELSE q[i - Len(w)]
  BY ConcatProperties, LenProperties
<1> HIDE DEF t
<1>3. /\ u \in Seq(Cells) /\ Len(u) = Len(t) + Len(q)
      /\ \A i \in 1 .. Len(t) + Len(q) : u[i] = IF i <= Len(t) THEN t[i] ELSE q[i - Len(t)]
  BY <1>1, ConcatProperties
<1> HIDE DEF l, u
<1>4. Len(l) # 0 /\ l # <<>>
  BY <1>1, <1>2, EmptySeq
<1>5. /\ Head(l) = l[1] /\ Tail(l) \in Seq(Cells) /\ Len(Tail(l)) = Len(l) - 1
      /\ \A i \in 1 .. Len(Tail(l)) : Tail(l)[i] = l[i + 1]
  BY <1>2, <1>4, TakeFirst
<1> DEFINE v == Tail(l)
<1>6. v \in Seq(Cells) /\ Len(v) = Len(l) - 1 /\ \A i \in 1 .. Len(v) : v[i] = l[i + 1]
  BY <1>5
<1> HIDE DEF v
<1>7. Len(v) = Len(u) /\ Len(v) = Len(t) + Len(q) /\ Len(v) \in Nat
  BY <1>1, <1>2, <1>3, <1>6
<1>8. ASSUME NEW i \in 1 .. Len(v) PROVE v[i] = u[i]
  <2>1. v[i] = l[i + 1] /\ i + 1 \in 1 .. Len(w) + Len(q)
    BY <1>2, <1>6, <1>7, <1>1
  <2>2. CASE i <= Len(t)
    <3>1. i + 1 <= Len(w) /\ i \in 1 .. Len(t)
      BY <1>1, <2>2
    <3> QED
      BY <1>1, <1>2, <1>3, <1>7, <2>1, <2>2, <3>1
  <2>3. CASE ~(i <= Len(t))
    <3>1. ~(i + 1 <= Len(w)) /\ (i + 1) - Len(w) = i - Len(t)
      BY <1>1, <2>3
    <3> QED
      BY <1>2, <1>3, <1>7, <2>1, <2>3, <3>1
  <2> QED
    BY <2>2, <2>3
<1>9. v = u
  BY <1>3, <1>6, <1>7, <1>8, SeqEqual
<1>10. Head(l) = Head(w)
  <2>1. 1 \in 1 .. Len(w) + Len(q) /\ 1 <= Len(w)
    BY <1>1, <1>2
  <2> QED
    BY <1>1, <1>2, <1>5, <2>1
<1> QED
  BY <1>4, <1>9, <1>10 DEF l, v, u, t

\* A handler takes the first cell of the line.
LEMMA TakesLine ==
  ASSUME TypeOK, NEW c \in {"DATA", "END"}, NEW s \in Streams, NextForward(c), Head(wire).stream = s,
         wire' = Tail(wire), queue' = queue
  PROVE  /\ wire' \in Seq(Cells) /\ Line' \in Seq(Cells)
         /\ Count(Line', DataCells) \in Nat
         /\ Count(Line, DataCells) = Count(Line', DataCells) + (IF c = "DATA" THEN 1 ELSE 0)
         /\ \A t \in Streams :
              /\ Count(Line', DataOf(t)) \in Nat
              /\ Count(Line, DataOf(t)) = Count(Line', DataOf(t)) + (IF c = "DATA" /\ t = s THEN 1 ELSE 0)
              /\ HasEnd(Line, t) <=> HasEnd(Line', t) \/ (c = "END" /\ t = s)
              /\ InOrder(Line, t) => InOrder(Line', t)
              /\ InOrder(Line, t) /\ c = "END" /\ t = s => Count(Line', DataOf(t)) = 0
<1>1. wire \in Seq(Cells) /\ queue \in Seq(Cells) /\ wire # <<>> /\ Head(wire).cmd = c
  BY DEF TypeOK, NextForward
<1>2. Line \in Seq(Cells) /\ Line # <<>> /\ Head(Line) = Head(wire) /\ Line' = Tail(Line)
  BY <1>1, LineTail, ConcatProperties DEF Line
<1>3. Head(wire) \in Cells /\ wire' \in Seq(Cells)
  BY <1>1, TakeFirst
<1>4. Head(Line) = Cell(c, s)
  BY <1>1, <1>2, <1>3, CellIs
<1> HIDE DEF Line
<1>5. Tail(Line) \in Seq(Cells)
  BY <1>2, TakeFirst
<1>6. \A C : Count(Tail(Line), C) \in Nat
             /\ Count(Line, C) = Count(Tail(Line), C) + (IF Head(Line) \in C THEN 1 ELSE 0)
  BY <1>2, CountFirst
<1>7. Cell(c, s) \in DataCells <=> c = "DATA"
  BY CellsAre DEF DataCells
<1>8. \A t : Cell(c, s) \in DataOf(t) <=> c = "DATA" /\ t = s
  BY SendmesAre
<1>9. \A t : /\ HasEnd(Line, t) <=> HasEnd(Tail(Line), t) \/ Head(Line) = Cell("END", t)
             /\ InOrder(Line, t) => InOrder(Tail(Line), t)
             /\ InOrder(Line, t) /\ Head(Line) = Cell("END", t) => Count(Tail(Line), DataOf(t)) = 0
  BY <1>2, OrderTail
<1>10. \A t : Cell(c, s) = Cell("END", t) <=> c = "END" /\ t = s
  BY CellsAre
<1>11. Count(Line', DataCells) \in Nat
       /\ Count(Line, DataCells) = Count(Line', DataCells) + (IF c = "DATA" THEN 1 ELSE 0)
  BY <1>2, <1>4, <1>6, <1>7
<1>12. ASSUME NEW t \in Streams
       PROVE  /\ Count(Line', DataOf(t)) \in Nat
              /\ Count(Line, DataOf(t)) = Count(Line', DataOf(t)) + (IF c = "DATA" /\ t = s THEN 1 ELSE 0)
              /\ HasEnd(Line, t) <=> HasEnd(Line', t) \/ (c = "END" /\ t = s)
              /\ InOrder(Line, t) => InOrder(Line', t)
              /\ InOrder(Line, t) /\ c = "END" /\ t = s => Count(Line', DataOf(t)) = 0
  BY <1>2, <1>4, <1>6, <1>8, <1>9, <1>10
<1> QED
  BY <1>2, <1>3, <1>5, <1>11, <1>12
-----------------------------------------------------------------------------
(* The inductive invariant, through the handlers of the delivering end and   *)
(* the ENDs.                                                                 *)

\* What a DATA cell does to the accounts of both windows.
DataTaken(s, m, n) ==
  /\ dw' = dw - 1 + m * CircIncrement /\ dw \in Nat \ {0}
  /\ m \in 0 .. CircStart
  /\ dw - 1 + m * CircIncrement > CircStart - CircIncrement
  /\ dw - 1 + m * CircIncrement <= CircStart
  /\ m > 0 => dw - 1 + (m - 1) * CircIncrement <= CircStart - CircIncrement
  /\ n \in 0 .. StreamStart
  /\ dstream[s] \in {"open", "connecting", "hungup"}
  /\ dstream[s] = "hungup" => n = 0 /\ UNCHANGED <<sdw, outbuf, got>>
  /\ dstream[s] # "hungup" =>
       /\ sdw[s] \in Nat \ {0}
       /\ sdw' = [sdw EXCEPT ![s] = sdw[s] - 1 + n * StreamIncrement]
       /\ sdw[s] - 1 + n * StreamIncrement <= StreamStart
       /\ n > 0 =>
            /\ sdw[s] - 1 + n * StreamIncrement > StreamStart - StreamIncrement
            /\ sdw[s] - 1 + (n - 1) * StreamIncrement <= StreamStart - StreamIncrement
       /\ outbuf' = [outbuf EXCEPT ![s] = outbuf[s] + 1]
       /\ got' = [got EXCEPT ![s] = got[s] + 1]
  /\ back' = (back \o Sendmes(Circuit, m)) \o Sendmes(s, n)
  /\ wire' = Tail(wire)
  /\ UNCHANGED <<packager, dstream, circ>>

LEMMA DataTakes ==
  ASSUME IInv, NEW s \in Streams, Data(s)
  PROVE  \E m, n \in Nat : DataTaken(s, m, n)
<1> DEFINE left == CircuitWindowTaking(s)
           m == Due(left, CircStart, CircIncrement)
           out == outbuf[s] + 1
           n == IF dstream[s] = "open" THEN StreamDue(s, sdw[s] - 1, out) ELSE 0
<1>0. /\ TypeOK /\ CircuitAccount /\ StreamAccount(s) /\ EndsLast(s)
  BY DEF IInv
<1>1. /\ NextForward("DATA") /\ Head(wire).stream = s
      /\ IF left < 0 \/ (Here(s) /\ sdw[s] - 1 < 0)
           THEN Kill
           ELSE /\ wire' = Tail(wire)
                /\ dw' = left + m * CircIncrement
                /\ back' = (back \o Sendmes(Circuit, m)) \o Sendmes(s, n)
                /\ IF Here(s)
                     THEN /\ sdw' = [sdw EXCEPT ![s] = sdw[s] - 1 + n * StreamIncrement]
                          /\ outbuf' = [outbuf EXCEPT ![s] = out]
                          /\ got' = [got EXCEPT ![s] = got[s] + 1]
                     ELSE UNCHANGED <<sdw, outbuf, got>>
                /\ UNCHANGED <<packager, dstream, circ>>
  BY DEF Data
<1> HIDE DEF m, n
<1>2. Count(Line, DataCells) \in Nat \ {0} /\ Count(Line, DataOf(s)) \in Nat \ {0}
  <2> DEFINE l == Tail(Line)
  <2>1. wire \in Seq(Cells) /\ queue \in Seq(Cells) /\ wire # <<>> /\ Head(wire).cmd = "DATA"
    BY <1>0, <1>1 DEF TypeOK, NextForward
  <2>2. Line \in Seq(Cells) /\ Line # <<>> /\ Head(Line) = Head(wire) /\ Head(wire) \in Cells
    BY <2>1, LineTail, TakeFirst, ConcatProperties DEF Line
  <2>3. Head(Line) = Cell("DATA", s)
    BY <1>1, <2>1, <2>2, CellIs
  <2>4. Head(Line) \in DataCells /\ Head(Line) \in DataOf(s)
    BY <2>3 DEF DataCells, DataOf
  <2> HIDE DEF l, Line
  <2>5. \A C : Count(Tail(Line), C) \in Nat
               /\ Count(Line, C) = Count(Tail(Line), C) + (IF Head(Line) \in C THEN 1 ELSE 0)
    BY <2>2, CountFirst
  <2>6. ASSUME NEW C, Head(Line) \in C PROVE Count(Line, C) \in Nat \ {0}
    BY <2>5, <2>6
  <2> QED
    BY <2>4, <2>6
<1>3. dw \in Nat \ {0} /\ dw <= CircStart
  <2> DEFINE d == Count(Line, DataCells)
             b == CircuitWay(back)
  <2>1. pw + d + b + (CircStart - CircInitial) = dw /\ dw <= CircStart
    BY <1>0 DEF CircuitAccount, CircuitWay
  <2>2. d \in Nat \ {0} /\ b \in Nat /\ pw \in Nat /\ dw \in Nat
    BY <1>0, <1>2, WaysAre DEF TypeOK
  <2> HIDE DEF d, b
  <2>3. dw # 0
    BY <2>1, <2>2, Numbers
  <2> QED
    BY <2>1, <2>2, <2>3
<1>4. sdw[s] \in Nat \ {0} /\ sdw[s] <= StreamStart
  <2> DEFINE d == Count(Line, DataOf(s))
             b == StreamWay(back, s)
             u == spw[s]
             v == sdw[s]
  <2>1. u + d + b <= v /\ v <= StreamStart
    BY <1>0 DEF StreamAccount, StreamWay
  <2>2. d \in Nat \ {0} /\ b \in Nat /\ u \in Nat /\ v \in Nat
    BY <1>0, <1>2, WaysAre DEF TypeOK
  <2> HIDE DEF d, b, u, v
  <2>3. v # 0
    BY <2>1, <2>2
  <2> QED
    BY <2>1, <2>2, <2>3 DEF v
<1>5. left = dw - 1 /\ left \in Nat /\ left <= CircStart
  BY <1>3, Numbers DEF CircuitWindowTaking
<1>6. ~(left < 0 \/ (Here(s) /\ sdw[s] - 1 < 0))
  BY <1>4, <1>5
<1> HIDE DEF left
<1>7. /\ m \in 0 .. CircStart
      /\ left + m * CircIncrement > CircStart - CircIncrement
      /\ left + m * CircIncrement <= CircStart
      /\ m > 0 => left + (m - 1) * CircIncrement <= CircStart - CircIncrement
  <2>1. CircIncrement <= CircStart /\ CircIncrement \in Nat \ {0} /\ CircStart \in Nat
    BY Numbers
  <2>2. m = Due(left, CircStart, CircIncrement)
    BY DEF m
  <2> QED
    BY <1>5, <2>1, <2>2, DueRounds
<1>8. /\ n \in 0 .. StreamStart
      /\ dstream[s] # "open" => n = 0
      /\ sdw[s] - 1 + n * StreamIncrement <= StreamStart
      /\ n > 0 => /\ sdw[s] - 1 + n * StreamIncrement > StreamStart - StreamIncrement
                  /\ sdw[s] - 1 + (n - 1) * StreamIncrement <= StreamStart - StreamIncrement
  <2>1. StreamIncrement <= StreamStart /\ StreamIncrement \in Nat \ {0} /\ StreamStart \in Nat
    BY Numbers
  <2>2. CASE n = 0
    <3>1. 0 * StreamIncrement = 0
      BY <2>1
    <3>2. sdw[s] - 1 + 0 <= StreamStart
      BY <1>4, <2>1
    <3> QED
      BY <2>1, <2>2, <3>1, <3>2
  <2>3. CASE n # 0
    <3> DEFINE w == sdw[s] - 1
    <3>1. n = Due(w, StreamStart, StreamIncrement) /\ dstream[s] = "open"
      BY <2>3 DEF n, StreamDue
    <3>2. w \in Nat /\ w <= StreamStart
      BY <1>4, <2>1
    <3> HIDE DEF w
    <3>3. /\ n \in 0 .. StreamStart
          /\ w + n * StreamIncrement > StreamStart - StreamIncrement
          /\ w + n * StreamIncrement <= StreamStart
          /\ n > 0 => w + (n - 1) * StreamIncrement <= StreamStart - StreamIncrement
      BY <2>1, <3>1, <3>2, DueRounds
    <3> QED
      BY <3>1, <3>3 DEF w
  <2> QED
    BY <2>2, <2>3
<1>9. dstream[s] \in {"open", "connecting", "hungup"}
  <2>1. dstream[s] # "ended"
    BY <1>0, <1>2 DEF EndsLast
  <2> QED
    BY <1>0, <2>1 DEF TypeOK
<1>10. Here(s) <=> dstream[s] # "hungup"
  BY <1>9 DEF Here
<1>11. m \in Nat /\ n \in Nat
  BY <1>7, <1>8, Numbers
<1>12. DataTaken(s, m, n)
  <2>1. /\ wire' = Tail(wire)
        /\ dw' = left + m * CircIncrement
        /\ back' = (back \o Sendmes(Circuit, m)) \o Sendmes(s, n)
        /\ IF Here(s)
             THEN /\ sdw' = [sdw EXCEPT ![s] = sdw[s] - 1 + n * StreamIncrement]
                  /\ outbuf' = [outbuf EXCEPT ![s] = outbuf[s] + 1]
                  /\ got' = [got EXCEPT ![s] = got[s] + 1]
             ELSE UNCHANGED <<sdw, outbuf, got>>
        /\ UNCHANGED <<packager, dstream, circ>>
    BY <1>1, <1>6
  <2>2. dw' = dw - 1 + m * CircIncrement
    BY <1>5, <2>1
  <2>3. /\ dw - 1 + m * CircIncrement > CircStart - CircIncrement
        /\ dw - 1 + m * CircIncrement <= CircStart
        /\ m > 0 => dw - 1 + (m - 1) * CircIncrement <= CircStart - CircIncrement
    BY <1>5, <1>7
  <2>4. dstream[s] = "hungup" => n = 0 /\ UNCHANGED <<sdw, outbuf, got>>
    BY <1>8, <1>10, <2>1
  <2>5. dstream[s] # "hungup" =>
          /\ sdw' = [sdw EXCEPT ![s] = sdw[s] - 1 + n * StreamIncrement]
          /\ outbuf' = [outbuf EXCEPT ![s] = outbuf[s] + 1]
          /\ got' = [got EXCEPT ![s] = got[s] + 1]
    BY <1>10, <2>1
  <2> QED
    BY <1>3, <1>4, <1>7, <1>8, <1>9, <2>1, <2>2, <2>3, <2>4, <2>5 DEF DataTaken
<1> QED
  BY <1>11, <1>12

\* What it does to the way back.
LEMMA DataWay ==
  ASSUME TypeOK, NEW s \in Streams, NEW m \in Nat, NEW n \in Nat,
         back' = (back \o Sendmes(Circuit, m)) \o Sendmes(s, n)
  PROVE  /\ back' \in Seq(Cells)
         /\ Count(back', SendmesTo(Circuit)) = Count(back, SendmesTo(Circuit)) + m
         /\ \A t \in Streams : Count(back', SendmesTo(t)) = Count(back, SendmesTo(t)) + (IF t = s THEN n ELSE 0)
         /\ CircuitWay(back') = CircuitWay(back) + CircIncrement * m
         /\ \A t \in Streams : StreamWay(back', t) = StreamWay(back, t) + (IF t = s THEN StreamIncrement * n ELSE 0)
         /\ \A t : HasEnd(back', t) <=> HasEnd(back, t)
<1> DEFINE b == back \o Sendmes(Circuit, m)
           c == b \o Sendmes(s, n)
<1>1. back \in Seq(Cells) /\ \A t \in Streams : t # Circuit
  BY FlowAssumption DEF TypeOK
<1>21. /\ b \in Seq(Cells) /\ SentBack(back, b, Circuit, m)
       /\ \A t : HasEnd(b, t) <=> HasEnd(back, t)
  BY <1>1, SendsBack
<1>2. /\ b \in Seq(Cells)
      /\ \A t : Count(b, SendmesTo(t)) = Count(back, SendmesTo(t)) + (IF t = Circuit THEN m ELSE 0)
      /\ \A t : HasEnd(b, t) <=> HasEnd(back, t)
  BY <1>21 DEF SentBack
<1> HIDE DEF b
<1>31. /\ c \in Seq(Cells) /\ SentBack(b, c, s, n)
       /\ \A t : HasEnd(c, t) <=> HasEnd(b, t)
  BY <1>2, SendsBack
<1>3. /\ c \in Seq(Cells)
      /\ \A t : Count(c, SendmesTo(t)) = Count(b, SendmesTo(t)) + (IF t = s THEN n ELSE 0)
      /\ \A t : HasEnd(c, t) <=> HasEnd(b, t)
  BY <1>31 DEF SentBack
<1> HIDE DEF c
<1>4. back' = c
  BY DEF c, b
<1>5. \A t : Count(back, SendmesTo(t)) \in Nat
  BY <1>1, CountConcat
<1>6. /\ CircuitWay(b) = CircuitWay(back) + CircIncrement * m
      /\ \A t \in Streams : StreamWay(b, t) = StreamWay(back, t) + 0
  BY <1>1, <1>21, MoreWay
<1>7. /\ CircuitWay(c) = CircuitWay(b) + 0
      /\ \A t \in Streams : StreamWay(c, t) = StreamWay(b, t) + (IF t = s THEN StreamIncrement * n ELSE 0)
  BY <1>1, <1>21, <1>31, MoreWay
<1>8. CircuitWay(b) \in Nat /\ CircuitWay(back) \in Nat
      /\ \A t : StreamWay(b, t) \in Nat /\ StreamWay(back, t) \in Nat
  BY <1>1, <1>2, WaysAre
<1>9. CircuitWay(c) = CircuitWay(back) + CircIncrement * m
  BY <1>6, <1>7, <1>8
<1>10. ASSUME NEW t \in Streams
       PROVE  StreamWay(c, t) = StreamWay(back, t) + (IF t = s THEN StreamIncrement * n ELSE 0)
  <2>1. StreamWay(b, t) = StreamWay(back, t)
    BY <1>6, <1>8
  <2> QED
    BY <1>7, <2>1
<1>11. Count(c, SendmesTo(Circuit)) = Count(back, SendmesTo(Circuit)) + m
  <2>1. Count(b, SendmesTo(Circuit)) = Count(back, SendmesTo(Circuit)) + m
    BY <1>2
  <2>2. Count(c, SendmesTo(Circuit)) = Count(b, SendmesTo(Circuit)) + 0
    BY <1>1, <1>3
  <2> QED
    BY <1>5, <2>1, <2>2
<1>12. ASSUME NEW t \in Streams
       PROVE  Count(c, SendmesTo(t)) = Count(back, SendmesTo(t)) + (IF t = s THEN n ELSE 0)
  <2>1. Count(b, SendmesTo(t)) = Count(back, SendmesTo(t))
    BY <1>1, <1>2, <1>5
  <2> QED
    BY <1>3, <2>1
<1>13. \A t : HasEnd(c, t) <=> HasEnd(back, t)
  BY <1>2, <1>3
<1> QED
  BY <1>3, <1>4, <1>9, <1>10, <1>11, <1>12, <1>13

\* RELAY_COMMAND_DATA at the delivering end.
LEMMA DataSettles ==
  ASSUME IInv, NEW s \in Streams, Data(s), UNCHANGED side
  PROVE  Settles
<1>0. TypeOK /\ QueueMarks /\ CircuitAccount /\ \A t \in Streams : StreamAccount(t) /\ EndsLast(t)
  BY DEF IInv
<1>1. PICK m \in Nat, n \in Nat : DataTaken(s, m, n)
  BY DataTakes
<1>2. NextForward("DATA") /\ Head(wire).stream = s /\ wire' = Tail(wire) /\ queue' = queue
  BY <1>1 DEF Data, DataTaken, packager
<1>3. /\ wire' \in Seq(Cells)
      /\ Count(Line', DataCells) \in Nat
      /\ Count(Line, DataCells) = Count(Line', DataCells) + 1
      /\ \A t \in Streams :
           /\ Count(Line', DataOf(t)) \in Nat
           /\ Count(Line, DataOf(t)) = Count(Line', DataOf(t)) + (IF t = s THEN 1 ELSE 0)
           /\ HasEnd(Line, t) <=> HasEnd(Line', t)
           /\ InOrder(Line, t) => InOrder(Line', t)
  <2>1. "DATA" \in {"DATA", "END"} /\ "DATA" # "END"
    OBVIOUS
  <2>2. /\ wire' \in Seq(Cells)
        /\ Count(Line', DataCells) \in Nat
        /\ Count(Line, DataCells) = Count(Line', DataCells) + 1
    BY <1>0, <1>2, <2>1, TakesLine
  <2>3. \A t \in Streams :
           /\ Count(Line', DataOf(t)) \in Nat
           /\ Count(Line, DataOf(t)) = Count(Line', DataOf(t)) + (IF t = s THEN 1 ELSE 0)
           /\ HasEnd(Line, t) <=> HasEnd(Line', t)
           /\ InOrder(Line, t) => InOrder(Line', t)
    BY <1>0, <1>2, <2>1, TakesLine
  <2> QED
    BY <2>2, <2>3
<1>4. /\ back' \in Seq(Cells)
      /\ CircuitWay(back') = CircuitWay(back) + CircIncrement * m
      /\ \A t \in Streams : StreamWay(back', t) = StreamWay(back, t) + (IF t = s THEN StreamIncrement * n ELSE 0)
      /\ \A t : HasEnd(back', t) <=> HasEnd(back, t)
  <2>1. back' = (back \o Sendmes(Circuit, m)) \o Sendmes(s, n)
    BY <1>1 DEF DataTaken
  <2> QED
    BY <1>0, <2>1, DataWay
<1>5. /\ UNCHANGED <<side, packager, dstream, circ>>
      /\ UNCHANGED <<pstream, supply, inbuf, reading, spw, pw, blocked, queue>>
  BY <1>1 DEF DataTaken, packager
<1>6. /\ m * CircIncrement = CircIncrement * m /\ CircIncrement * m \in Nat
      /\ n * StreamIncrement = StreamIncrement * n /\ StreamIncrement * n \in Nat
  <2>1. ASSUME NEW a \in Nat, NEW b \in Nat PROVE a * b = b * a /\ b * a \in Nat
    BY <2>1
  <2> QED
    BY <2>1, Numbers
<1>7. /\ dw' \in Nat /\ dw' <= CircStart
      /\ Count(Line', DataCells) + CircuitWay(back') + dw
           = Count(Line, DataCells) + CircuitWay(back) + dw'
  <2> DEFINE d == Count(Line', DataCells)
             e == Count(Line, DataCells)
             b == CircuitWay(back)
             c == CircuitWay(back')
             z == CircIncrement * m
             y == m * CircIncrement
  <2>1. d \in Nat /\ e = d + 1 /\ c = b + z /\ z \in Nat /\ y = z
    BY <1>3, <1>4, <1>6
  <2>2. b \in Nat
    BY <1>0, AccountNumbers
  <2>3. dw' = dw - 1 + y /\ dw \in Nat \ {0} /\ dw - 1 + y <= CircStart
    BY <1>1 DEF DataTaken
  <2> HIDE DEF d, e, b, c, z, y
  <2>4. dw' \in Nat /\ dw' <= CircStart /\ d + c + dw = e + b + dw'
    BY <2>1, <2>2, <2>3
  <2> QED
    BY <2>4 DEF d, e, b, c
<1>8. /\ sdw' \in [Streams -> Nat] /\ outbuf' \in [Streams -> Nat] /\ got' \in [Streams -> Nat]
      /\ sdw[s] - 1 + n * StreamIncrement <= StreamStart \/ dstream[s] = "hungup"
      /\ \A t \in Streams :
           /\ t # s \/ dstream[s] = "hungup" => sdw'[t] = sdw[t] /\ got'[t] = got[t]
           /\ t = s /\ dstream[s] # "hungup" =>
                sdw'[t] = sdw[t] - 1 + n * StreamIncrement /\ got'[t] = got[t] + 1
  <2>1. sdw \in [Streams -> Nat] /\ outbuf \in [Streams -> Nat] /\ got \in [Streams -> Nat]
    BY <1>0 DEF TypeOK
  <2>2. CASE dstream[s] = "hungup"
    BY <1>1, <2>1, <2>2 DEF DataTaken
  <2>3. CASE dstream[s] # "hungup"
    <3> DEFINE z == n * StreamIncrement
    <3>1. z \in Nat
      BY <1>6
    <3>2. /\ sdw[s] \in Nat \ {0}
          /\ sdw' = [sdw EXCEPT ![s] = sdw[s] - 1 + z]
          /\ sdw[s] - 1 + z <= StreamStart
          /\ outbuf' = [outbuf EXCEPT ![s] = outbuf[s] + 1]
          /\ got' = [got EXCEPT ![s] = got[s] + 1]
      BY <1>1, <2>3 DEF DataTaken
    <3> HIDE DEF z
    <3>3. sdw[s] - 1 + z \in Nat
      BY <3>1, <3>2
    <3>4. sdw' \in [Streams -> Nat] /\ outbuf' \in [Streams -> Nat] /\ got' \in [Streams -> Nat]
      BY <2>1, <3>2, <3>3
    <3> QED
      BY <2>1, <2>3, <3>2, <3>4 DEF z
  <2> QED
    BY <2>2, <2>3
<1>9. TypeOK'
  BY <1>0, <1>3, <1>4, <1>5, <1>7, <1>8 DEF TypeOK
<1>10. QueueMarks'
  BY <1>0, <1>5 DEF QueueMarks, BlockedIsSilent
<1>11. ASSUME NEW t \in Streams PROVE Settled(t)
  <2> DEFINE d == Count(Line', DataOf(t))
             e == Count(Line, DataOf(t))
             b == StreamWay(back, t)
             c == StreamWay(back', t)
             z == StreamIncrement * n
             u == sdw[t]
             v == sdw'[t]
             g == got[t]
             h == got'[t]
             i == inbuf[t]
             j == supply[t]
  <2>1. d \in Nat /\ e = d + (IF t = s THEN 1 ELSE 0)
    BY <1>3
  <2>2. c = b + (IF t = s THEN z ELSE 0)
    BY <1>4
  <2>3. b \in Nat /\ z \in Nat /\ u \in Nat /\ g \in Nat /\ i \in Nat /\ j \in Nat /\ e \in Nat /\ v \in Nat
    BY <1>0, <1>6, <1>8, AccountNumbers
  <2>4. /\ t # s \/ dstream[s] = "hungup" => v = u /\ h = g
        /\ t = s /\ dstream[s] # "hungup" => v = u - 1 + z /\ h = g + 1
    BY <1>6, <1>8
  <2>5. dstream[t] = "hungup" /\ t = s => z = 0
    <3>1. dstream[s] = "hungup" => n = 0
      BY <1>1 DEF DataTaken
    <3>2. StreamIncrement * 0 = 0
      BY Numbers
    <3> QED
      BY <3>1, <3>2
  <2>6. u <= StreamStart
    BY <1>0 DEF StreamAccount
  <2>7. v <= StreamStart
    BY <1>8, <2>4, <2>6
  <2>8. dstream' = dstream /\ inbuf' = inbuf /\ supply' = supply /\ pstream' = pstream
    BY <1>5
  <2>9. dstream[t] = "ended" => t # s
    BY <1>1 DEF DataTaken
  <2> HIDE DEF d, e, b, c, z, u, v, g, h, i, j, Line
  <2>10. d + c + u <= e + b + v
    <3>1. CASE t # s
      BY <2>1, <2>2, <2>3, <2>4, <3>1
    <3>2. CASE t = s /\ dstream[s] = "hungup"
      BY <2>1, <2>2, <2>3, <2>4, <2>5, <3>2
    <3>3. CASE t = s /\ dstream[s] # "hungup"
      BY <2>1, <2>2, <2>3, <2>4, <3>3
    <3> QED
      BY <3>1, <3>2, <3>3
  <2>11. dstream[t] # "hungup" => h + d + i + j = g + e + i + j
    <3>1. CASE t # s
      BY <2>1, <2>3, <2>4, <3>1
    <3>2. CASE t = s
      BY <2>1, <2>3, <2>4, <3>2
    <3> QED
      BY <3>1, <3>2
  <2>12. dstream[t] = "ended" => d = e
    BY <2>1, <2>9
  <2>13. /\ HasEnd(back', t) => HasEnd(back, t)
         /\ HasEnd(Line', t) => HasEnd(Line, t)
         /\ InOrder(Line, t) => InOrder(Line', t)
    BY <1>3, <1>4
  <2>14. /\ dstream'[t] = dstream[t] /\ pstream'[t] = pstream[t]
         /\ inbuf'[t] = inbuf[t] /\ supply'[t] = supply[t]
    BY <2>8
  <2>15. dstream'[t] # "hungup" =>
           got'[t] + Count(Line', DataOf(t)) + inbuf'[t] + supply'[t]
             = got[t] + Count(Line, DataOf(t)) + inbuf[t] + supply[t]
    BY <2>11, <2>14 DEF h, d, i, j, g, e
  <2>16. dstream'[t] = "ended" => dstream[t] = "ended" /\ Count(Line', DataOf(t)) = Count(Line, DataOf(t))
    BY <2>12, <2>14 DEF d, e
  <2>17. Count(Line', DataOf(t)) + StreamWay(back', t) + sdw[t]
           <= Count(Line, DataOf(t)) + StreamWay(back, t) + sdw'[t]
    BY <2>10 DEF d, c, u, e, b, v
  <2>18. sdw'[t] <= StreamStart
    BY <2>7 DEF v
  <2> QED
    BY <2>13, <2>14, <2>15, <2>16, <2>17, <2>18 DEF Settled
<1> QED
  BY <1>5, <1>7, <1>9, <1>10, <1>11 DEF Settles

\* RELAY_COMMAND_END at the delivering end.
LEMMA EndSettles ==
  ASSUME IInv, NEW s \in Streams, End(s), UNCHANGED side
  PROVE  Settles
<1>0. TypeOK /\ QueueMarks /\ CircuitAccount
      /\ \A t \in Streams : StreamAccount(t) /\ EndsLast(t)
  BY DEF IInv
<1>1. /\ NextForward("END") /\ Head(wire).stream = s /\ wire' = Tail(wire)
      /\ dstream' = [dstream EXCEPT ![s] = IF @ = "hungup" THEN @ ELSE "ended"]
      /\ UNCHANGED <<pstream, supply, inbuf, reading, spw, pw, blocked, queue, back, sdw, dw, outbuf, got, circ>>
  BY DEF End, packager
<1>2. /\ wire' \in Seq(Cells)
      /\ Count(Line', DataCells) \in Nat
      /\ Count(Line, DataCells) = Count(Line', DataCells) + 0
      /\ \A t \in Streams :
           /\ Count(Line', DataOf(t)) \in Nat
           /\ Count(Line, DataOf(t)) = Count(Line', DataOf(t)) + 0
           /\ HasEnd(Line, t) <=> HasEnd(Line', t) \/ t = s
           /\ InOrder(Line, t) => InOrder(Line', t)
           /\ InOrder(Line, t) /\ t = s => Count(Line', DataOf(t)) = 0
  <2>1. "END" \in {"DATA", "END"} /\ "DATA" # "END"
    OBVIOUS
  <2>2. /\ wire' \in Seq(Cells)
        /\ Count(Line', DataCells) \in Nat
        /\ Count(Line, DataCells) = Count(Line', DataCells) + 0
    BY <1>0, <1>1, <2>1, TakesLine
  <2>3. \A t \in Streams :
           /\ Count(Line', DataOf(t)) \in Nat
           /\ Count(Line, DataOf(t)) = Count(Line', DataOf(t)) + 0
           /\ HasEnd(Line, t) <=> HasEnd(Line', t) \/ t = s
           /\ InOrder(Line, t) => InOrder(Line', t)
           /\ InOrder(Line, t) /\ t = s => Count(Line', DataOf(t)) = 0
    BY <1>0, <1>1, <2>1, TakesLine
  <2> QED
    BY <2>2, <2>3
<1>3. dstream' \in [Streams -> {"connecting", "open", "ended", "hungup"}]
      /\ \A t \in Streams : dstream'[t] = dstream[t] \/ (t = s /\ dstream[t] # "hungup" /\ dstream'[t] = "ended")
  BY <1>0, <1>1 DEF TypeOK
<1>4. TypeOK'
  BY <1>0, <1>1, <1>2, <1>3 DEF TypeOK
<1>5. QueueMarks'
  BY <1>0, <1>1 DEF QueueMarks, BlockedIsSilent
<1>6. ASSUME NEW t \in Streams PROVE Settled(t)
  <2>1. Count(Line', DataOf(t)) = Count(Line, DataOf(t))
    BY <1>2
  <2>2. Count(Line', DataOf(t)) + StreamWay(back', t) + sdw[t]
          <= Count(Line, DataOf(t)) + StreamWay(back, t) + sdw'[t]
    <3> DEFINE a == Count(Line, DataOf(t))
               b == StreamWay(back, t)
               c == sdw[t]
    <3>1. a \in Nat /\ b \in Nat /\ c \in Nat
      BY <1>0, AccountNumbers
    <3> HIDE DEF a, b, c
    <3>2. a + b + c <= a + b + c
      BY <3>1
    <3>3. back' = back /\ sdw' = sdw
      BY <1>1
    <3> QED
      BY <2>1, <3>2, <3>3 DEF a, b, c
  <2>3. got'[t] + Count(Line', DataOf(t)) + inbuf'[t] + supply'[t]
          = got[t] + Count(Line, DataOf(t)) + inbuf[t] + supply[t]
    BY <1>1, <2>1
  <2>4. /\ sdw'[t] <= StreamStart
        /\ pstream'[t] = pstream[t] /\ supply'[t] = supply[t] /\ inbuf'[t] = inbuf[t]
        /\ back' = back
    BY <1>0, <1>1 DEF StreamAccount
  <2>5. /\ HasEnd(Line', t) => HasEnd(Line, t)
        /\ InOrder(Line, t) => InOrder(Line', t)
    BY <1>2
  <2>6. ASSUME dstream'[t] = "ended"
        PROVE  \/ dstream[t] = "ended" /\ Count(Line', DataOf(t)) = Count(Line, DataOf(t))
               \/ pstream'[t] = "closed" /\ Count(Line', DataOf(t)) = 0
    <3>1. CASE t = s
      <4>1. HasEnd(Line, t) /\ EndsLast(t)
        BY <1>0, <1>2, <3>1
      <4>2. pstream[t] = "closed" /\ InOrder(Line, t)
        BY <4>1 DEF EndsLast
      <4> QED
        BY <1>2, <2>4, <3>1, <4>2
    <3>2. CASE t # s
      BY <1>3, <2>1, <2>6, <3>2
    <3> QED
      BY <3>1, <3>2
  <2>7. /\ dstream[t] = "hungup" => dstream'[t] = "hungup"
        /\ dstream[t] = "ended" => dstream'[t] \in {"ended", "hungup"}
    BY <1>3
  <2> HIDE DEF Line
  <2> QED
    BY <2>2, <2>3, <2>4, <2>5, <2>6, <2>7 DEF Settled
<1>7. Count(Line', DataCells) + CircuitWay(back') + dw
        = Count(Line, DataCells) + CircuitWay(back) + dw' /\ dw' <= CircStart
  <2>1. Count(Line', DataCells) = Count(Line, DataCells)
    BY <1>2
  <2> QED
    BY <1>0, <1>1, <2>1 DEF CircuitAccount
<1> QED
  BY <1>1, <1>4, <1>5, <1>6, <1>7 DEF Settles

\* connection_edge_flushed_some: what the top-up adds, and sends back.
Drained(s, n) ==
  /\ n \in 0 .. StreamStart
  /\ sdw' = [sdw EXCEPT ![s] = sdw[s] + n * StreamIncrement]
  /\ sdw[s] + n * StreamIncrement <= StreamStart
  /\ n > 0 => /\ sdw[s] + n * StreamIncrement > StreamStart - StreamIncrement
              /\ sdw[s] + (n - 1) * StreamIncrement <= StreamStart - StreamIncrement
  /\ back' = back \o Sendmes(s, n)
  /\ outbuf' = [outbuf EXCEPT ![s] = outbuf[s] - 1] /\ outbuf[s] > 0
  /\ dstream[s] = "open"
  /\ UNCHANGED <<packager, wire, dstream, dw, got, circ>>

LEMMA DrainTops ==
  ASSUME IInv, NEW s \in Streams, Drain(s)
  PROVE  \E n \in Nat : Drained(s, n)
<1> DEFINE n == StreamDue(s, sdw[s], outbuf[s] - 1)
<1>0. TypeOK /\ StreamAccount(s)
  BY DEF IInv
<1>1. /\ dstream[s] = "open" /\ outbuf[s] > 0
      /\ outbuf' = [outbuf EXCEPT ![s] = outbuf[s] - 1]
      /\ sdw' = [sdw EXCEPT ![s] = sdw[s] + n * StreamIncrement]
      /\ back' = back \o Sendmes(s, n)
      /\ UNCHANGED <<packager, wire, dstream, dw, got, circ>>
  BY DEF Drain
<1> HIDE DEF n
<1> DEFINE w == sdw[s]
<1>2. w \in Nat /\ w <= StreamStart
  BY <1>0 DEF TypeOK, StreamAccount
<1> HIDE DEF w
<1>3. StreamIncrement <= StreamStart /\ StreamIncrement \in Nat \ {0} /\ StreamStart \in Nat
  BY Numbers
<1>4. /\ n \in 0 .. StreamStart /\ w + n * StreamIncrement <= StreamStart
      /\ n > 0 => /\ w + n * StreamIncrement > StreamStart - StreamIncrement
                  /\ w + (n - 1) * StreamIncrement <= StreamStart - StreamIncrement
  <2>1. CASE n = 0
    <3>1. 0 * StreamIncrement = 0
      BY <1>3
    <3> QED
      BY <1>2, <1>3, <2>1, <3>1
  <2>2. CASE n # 0
    <3>1. n = Due(w, StreamStart, StreamIncrement)
      BY <2>2 DEF n, StreamDue, w
    <3> QED
      BY <1>2, <1>3, <3>1, DueRounds
  <2> QED
    BY <2>1, <2>2
<1>5. n \in Nat
  BY <1>3, <1>4
<1>6. Drained(s, n)
  BY <1>1, <1>4 DEF Drained, w
<1> QED
  BY <1>5, <1>6

\* What one stream's SENDMEs do to the way back.
LEMMA StreamSends ==
  ASSUME TypeOK, NEW s \in Streams, NEW n \in Nat, back' = back \o Sendmes(s, n)
  PROVE  /\ back' \in Seq(Cells)
         /\ Count(back', SendmesTo(Circuit)) = Count(back, SendmesTo(Circuit))
         /\ \A t \in Streams : Count(back', SendmesTo(t)) = Count(back, SendmesTo(t)) + (IF t = s THEN n ELSE 0)
         /\ CircuitWay(back') = CircuitWay(back)
         /\ \A t \in Streams : StreamWay(back', t) = StreamWay(back, t) + (IF t = s THEN StreamIncrement * n ELSE 0)
         /\ \A t : HasEnd(back', t) <=> HasEnd(back, t)
<1> DEFINE c == back \o Sendmes(s, n)
<1>1. back \in Seq(Cells) /\ s # Circuit
  BY FlowAssumption DEF TypeOK
<1>2. c \in Seq(Cells) /\ SentBack(back, c, s, n) /\ \A t : HasEnd(c, t) <=> HasEnd(back, t)
  BY <1>1, SendsBack
<1> HIDE DEF c
<1>3. back' = c
  BY DEF c
<1>4. /\ CircuitWay(c) = CircuitWay(back) + 0
      /\ \A t \in Streams : StreamWay(c, t) = StreamWay(back, t) + (IF t = s THEN StreamIncrement * n ELSE 0)
  BY <1>1, <1>2, MoreWay
<1>5. CircuitWay(back) \in Nat /\ Count(back, SendmesTo(Circuit)) \in Nat
  BY <1>1, WaysAre, CountConcat
<1>6. CircuitWay(c) = CircuitWay(back)
  BY <1>4, <1>5
<1>7. /\ \A t \in Streams : Count(c, SendmesTo(t)) = Count(back, SendmesTo(t)) + (IF t = s THEN n ELSE 0)
      /\ Count(c, SendmesTo(Circuit)) = Count(back, SendmesTo(Circuit)) + 0
  BY <1>1, <1>2 DEF SentBack
<1>8. Count(c, SendmesTo(Circuit)) = Count(back, SendmesTo(Circuit))
  BY <1>5, <1>7
<1> QED
  BY <1>2, <1>3, <1>4, <1>6, <1>7, <1>8

\* connection_edge_flushed_some.
LEMMA DrainSettles ==
  ASSUME IInv, NEW s \in Streams, Drain(s), UNCHANGED side
  PROVE  Settles
<1>0. TypeOK /\ QueueMarks /\ CircuitAccount /\ \A t \in Streams : StreamAccount(t) /\ EndsLast(t)
  BY DEF IInv
<1>1. PICK n \in Nat : Drained(s, n)
  BY DrainTops
<1>2. UNCHANGED <<pstream, supply, inbuf, reading, spw, pw, blocked, queue, wire, dstream, dw, got, circ>>
  BY <1>1 DEF Drained, packager
<1>3. /\ back' \in Seq(Cells) /\ CircuitWay(back') = CircuitWay(back)
      /\ \A t \in Streams : StreamWay(back', t) = StreamWay(back, t) + (IF t = s THEN StreamIncrement * n ELSE 0)
      /\ \A t : HasEnd(back', t) <=> HasEnd(back, t)
  <2>1. back' = back \o Sendmes(s, n)
    BY <1>1 DEF Drained
  <2> QED
    BY <1>0, <2>1, StreamSends
<1>4. n * StreamIncrement = StreamIncrement * n /\ StreamIncrement * n \in Nat
  <2>1. ASSUME NEW a \in Nat, NEW b \in Nat PROVE a * b = b * a /\ b * a \in Nat
    BY <2>1
  <2> QED
    BY <2>1, Numbers
<1>5. /\ sdw' \in [Streams -> Nat] /\ outbuf' \in [Streams -> Nat]
      /\ \A t \in Streams :
           /\ sdw'[t] = sdw[t] + (IF t = s THEN StreamIncrement * n ELSE 0)
           /\ sdw'[t] <= StreamStart
  <2> DEFINE z == StreamIncrement * n
  <2>1. sdw \in [Streams -> Nat] /\ outbuf \in [Streams -> Nat] /\ \A t \in Streams : sdw[t] <= StreamStart
    BY <1>0 DEF TypeOK, StreamAccount
  <2>2. /\ z \in Nat
        /\ sdw' = [sdw EXCEPT ![s] = sdw[s] + z] /\ sdw[s] + z <= StreamStart
        /\ outbuf' = [outbuf EXCEPT ![s] = outbuf[s] - 1] /\ outbuf[s] > 0
    BY <1>1, <1>4 DEF Drained
  <2> HIDE DEF z
  <2>3. sdw[s] + z \in Nat /\ outbuf[s] - 1 \in Nat
    BY <2>1, <2>2
  <2>4. ASSUME NEW t \in Streams
        PROVE  sdw'[t] = sdw[t] + (IF t = s THEN z ELSE 0) /\ sdw'[t] <= StreamStart
    <3>1. CASE t = s
      BY <2>1, <2>2, <3>1
    <3>2. CASE t # s
      <4>1. sdw'[t] = sdw[t] /\ sdw[t] \in Nat /\ sdw[t] <= StreamStart
        BY <2>1, <2>2, <3>2
      <4> QED
        BY <3>2, <4>1
    <3> QED
      BY <3>1, <3>2
  <2>5. sdw' \in [Streams -> Nat] /\ outbuf' \in [Streams -> Nat]
    BY <2>1, <2>2, <2>3
  <2> QED
    BY <2>4, <2>5 DEF z
<1>6. Line' = Line
  BY <1>2 DEF Line
<1>7. TypeOK'
  BY <1>0, <1>2, <1>3, <1>5 DEF TypeOK
<1>8. QueueMarks'
  BY <1>0, <1>2 DEF QueueMarks, BlockedIsSilent
<1>9. ASSUME NEW t \in Streams PROVE Settled(t)
  <2> DEFINE a == Count(Line, DataOf(t))
             b == StreamWay(back, t)
             c == StreamWay(back', t)
             u == sdw[t]
             v == sdw'[t]
             z == IF t = s THEN StreamIncrement * n ELSE 0
  <2>1. a \in Nat /\ b \in Nat /\ u \in Nat /\ z \in Nat /\ c = b + z /\ v = u + z
    BY <1>0, <1>3, <1>4, <1>5, AccountNumbers
  <2> HIDE DEF a, b, c, u, v, z
  <2>2. a + c + u <= a + b + v
    BY <2>1
  <2>3. Count(Line', DataOf(t)) + StreamWay(back', t) + sdw[t]
           <= Count(Line, DataOf(t)) + StreamWay(back, t) + sdw'[t]
    BY <1>6, <2>2 DEF a, b, c, u, v
  <2>4. got'[t] + Count(Line', DataOf(t)) + inbuf'[t] + supply'[t]
          = got[t] + Count(Line, DataOf(t)) + inbuf[t] + supply[t]
    BY <1>2, <1>6
  <2> HIDE DEF Line
  <2>5. /\ sdw'[t] <= StreamStart
        /\ pstream'[t] = pstream[t] /\ supply'[t] = supply[t] /\ inbuf'[t] = inbuf[t]
        /\ dstream'[t] = dstream[t]
        /\ HasEnd(back', t) => HasEnd(back, t)
        /\ HasEnd(Line', t) => HasEnd(Line, t)
        /\ InOrder(Line, t) => InOrder(Line', t)
        /\ Count(Line', DataOf(t)) = Count(Line, DataOf(t))
    BY <1>2, <1>3, <1>5, <1>6
  <2> QED
    BY <2>3, <2>4, <2>5 DEF Settled
<1>10. Count(Line', DataCells) + CircuitWay(back') + dw
         = Count(Line, DataCells) + CircuitWay(back) + dw' /\ dw' <= CircStart
  BY <1>0, <1>2, <1>3, <1>6 DEF CircuitAccount
<1> QED
  BY <1>2, <1>7, <1>8, <1>9, <1>10 DEF Settles

\* An END on the way back is on no account of a window.
LEMMA EndSent ==
  ASSUME TypeOK, NEW s \in Streams, back' = Append(back, Cell("END", s))
  PROVE  /\ back' \in Seq(Cells)
         /\ \A t : Count(back', SendmesTo(t)) = Count(back, SendmesTo(t))
         /\ \A t : HasEnd(back', t) => HasEnd(back, t) \/ t = s
<1> DEFINE x == Cell("END", s)
           d == <<x>>
<1>1. back \in Seq(Cells) /\ x \in Cells
  BY CellsAre DEF TypeOK
<1>2. back' = back \o d /\ d \in Seq(Cells) /\ Len(d) = 1 /\ d[1] = x
  BY <1>1, AppendIsConcat
<1>3. ASSUME NEW t PROVE Count(d, SendmesTo(t)) = 0
  <2>1. Count(d, SendmesTo(t)) = IF x \in SendmesTo(t) THEN 1 ELSE 0
    BY <1>1, CountOne
  <2>2. "SENDME" # "END"
    OBVIOUS
  <2> QED
    BY <2>1, <2>2, SendmesAre
<1>4. ASSUME NEW t, HasEnd(d, t) PROVE t = s
  <2>1. PICK i \in 1 .. Len(d) : d[i] = Cell("END", t)
    BY <1>4 DEF HasEnd
  <2>2. x = Cell("END", t)
    BY <1>2, <2>1
  <2> QED
    BY <2>2, CellsAre
<1> HIDE DEF d
<1>5. ASSUME NEW t PROVE Count(back', SendmesTo(t)) = Count(back, SendmesTo(t))
  <2>1. Count(back \o d, SendmesTo(t)) = Count(back, SendmesTo(t)) + Count(d, SendmesTo(t))
        /\ Count(back, SendmesTo(t)) \in Nat
    BY <1>1, <1>2, CountConcat
  <2>2. Count(back \o d, SendmesTo(t)) = Count(back, SendmesTo(t))
    BY <1>3, <2>1
  <2> QED
    BY <1>2, <2>2
<1>6. ASSUME NEW t, HasEnd(back', t) PROVE HasEnd(back, t) \/ t = s
  <2>1. HasEnd(back \o d, t) <=> HasEnd(back, t) \/ HasEnd(d, t)
    BY <1>1, <1>2, OrderConcat
  <2> QED
    BY <1>2, <1>4, <1>6, <2>1
<1>7. back' \in Seq(Cells)
  BY <1>1, <1>2, ConcatProperties
<1> QED
  BY <1>5, <1>6, <1>7

\* Either end closes the stream, and the line stays.
LEMMA ClosingSettles ==
  ASSUME IInv, NEW s \in Streams, TypeOK', QueueMarks', Line' = Line,
         UNCHANGED <<side, pw, spw, circ, sdw, dw, got>>,
         CircuitWay(back') = CircuitWay(back),
         \A t \in Streams : /\ StreamWay(back', t) = StreamWay(back, t)
                            /\ HasEnd(back', t) => HasEnd(back, t) \/ (t = s /\ dstream'[s] = "hungup"),
         \A t \in Streams \ {s} : /\ pstream'[t] = pstream[t] /\ dstream'[t] = dstream[t]
                                  /\ supply'[t] = supply[t] /\ inbuf'[t] = inbuf[t],
         dstream'[s] = "hungup",
         \/ pstream'[s] = "closed" /\ supply'[s] = 0 /\ inbuf'[s] = 0
         \/ pstream'[s] = pstream[s] /\ supply'[s] = supply[s] /\ inbuf'[s] = inbuf[s]
  PROVE  Settles
<1>0. TypeOK /\ CircuitAccount /\ \A t \in Streams : StreamAccount(t) /\ EndsLast(t)
  BY DEF IInv
<1>1. ASSUME NEW t \in Streams PROVE Settled(t)
  <2>1. Count(Line', DataOf(t)) + StreamWay(back', t) + sdw[t]
           <= Count(Line, DataOf(t)) + StreamWay(back, t) + sdw'[t]
    <3> DEFINE a == Count(Line, DataOf(t))
               b == StreamWay(back, t)
               c == sdw[t]
    <3>1. a \in Nat /\ b \in Nat /\ c \in Nat
      BY <1>0, AccountNumbers
    <3> HIDE DEF a, b, c
    <3>2. a + b + c <= a + b + c
      BY <3>1
    <3> QED
      BY <3>2 DEF a, b, c
  <2>2. sdw'[t] <= StreamStart
    BY <1>0 DEF StreamAccount
  <2>3. /\ t # s => pstream'[t] = pstream[t] /\ dstream'[t] = dstream[t]
                    /\ supply'[t] = supply[t] /\ inbuf'[t] = inbuf[t]
        /\ HasEnd(back', t) => HasEnd(back, t) \/ dstream'[t] = "hungup"
    OBVIOUS
  <2>4. dstream'[t] # "hungup" =>
          got'[t] + Count(Line', DataOf(t)) + inbuf'[t] + supply'[t]
            = got[t] + Count(Line, DataOf(t)) + inbuf[t] + supply[t]
    BY <2>3
  <2> HIDE DEF Line
  <2>5. /\ HasEnd(Line', t) => HasEnd(Line, t)
        /\ InOrder(Line, t) => InOrder(Line', t)
        /\ Count(Line', DataOf(t)) = Count(Line, DataOf(t))
    OBVIOUS
  <2>6. CASE t = s
    BY <2>1, <2>2, <2>4, <2>5, <2>6 DEF Settled
  <2>7. CASE t # s
    BY <2>1, <2>2, <2>3, <2>4, <2>5, <2>7 DEF Settled
  <2> QED
    BY <2>6, <2>7
<1>2. Count(Line', DataCells) + CircuitWay(back') + dw
        = Count(Line, DataCells) + CircuitWay(back) + dw' /\ dw' <= CircStart
  BY <1>0 DEF CircuitAccount
<1> QED
  BY <1>1, <1>2 DEF Settles

\* The delivering application hangs up.
LEMMA HangupSettles ==
  ASSUME IInv, NEW s \in Streams, Hangup(s), UNCHANGED side
  PROVE  Settles
<1>0. TypeOK /\ QueueMarks
  BY DEF IInv
<1>1. /\ dstream' = [dstream EXCEPT ![s] = "hungup"] /\ back' = Append(back, Cell("END", s))
      /\ UNCHANGED <<pstream, supply, inbuf, reading, spw, pw, blocked, queue, wire, sdw, dw, outbuf, got, circ>>
  BY DEF Hangup, packager
<1>2. /\ back' \in Seq(Cells)
      /\ \A t : Count(back', SendmesTo(t)) = Count(back, SendmesTo(t))
      /\ \A t : HasEnd(back', t) => HasEnd(back, t) \/ t = s
  BY <1>0, <1>1, EndSent
<1>3. CircuitWay(back') = CircuitWay(back) /\ \A t : StreamWay(back', t) = StreamWay(back, t)
  BY <1>2 DEF CircuitWay, StreamWay
<1>4. /\ dstream' \in [Streams -> {"connecting", "open", "ended", "hungup"}] /\ dstream'[s] = "hungup"
      /\ \A t \in Streams \ {s} : dstream'[t] = dstream[t]
  BY <1>0, <1>1 DEF TypeOK
<1>5. TypeOK'
  BY <1>0, <1>1, <1>2, <1>4 DEF TypeOK
<1>6. QueueMarks'
  BY <1>0, <1>1 DEF QueueMarks, BlockedIsSilent
<1>7. Line' = Line
  BY <1>1 DEF Line
<1>8. /\ \A t \in Streams : /\ StreamWay(back', t) = StreamWay(back, t)
                            /\ HasEnd(back', t) => HasEnd(back, t) \/ (t = s /\ dstream'[s] = "hungup")
      /\ \A t \in Streams \ {s} : /\ pstream'[t] = pstream[t] /\ dstream'[t] = dstream[t]
                                  /\ supply'[t] = supply[t] /\ inbuf'[t] = inbuf[t]
      /\ pstream'[s] = pstream[s] /\ supply'[s] = supply[s] /\ inbuf'[s] = inbuf[s]
  BY <1>1, <1>2, <1>3, <1>4
<1> QED
  BY <1>1, <1>3, <1>4, <1>5, <1>6, <1>7, <1>8, ClosingSettles

\* RELAY_COMMAND_END at the packaging end.
LEMMA StreamEndSettles ==
  ASSUME IInv, NEW s \in Streams, StreamEnd(s), UNCHANGED side
  PROVE  Settles
<1>0. TypeOK /\ QueueMarks /\ EndsLast(s)
  BY DEF IInv
<1>1. /\ NextBack("END") /\ Head(back).stream = s /\ TakeBack
      /\ pstream' = [pstream EXCEPT ![s] = "closed"] /\ supply' = [supply EXCEPT ![s] = 0]
      /\ inbuf' = [inbuf EXCEPT ![s] = 0] /\ reading' = [reading EXCEPT ![s] = FALSE]
      /\ UNCHANGED <<spw, pw, blocked, queue, wire, dstream, sdw, dw, outbuf, got, circ>>
  BY DEF StreamEnd, deliverer
<1>2. /\ back' \in Seq(Cells)
      /\ CircuitWay(back) = CircuitWay(back') + 0
      /\ \A t : StreamWay(back, t) = StreamWay(back', t) + 0
      /\ CircuitWay(back') \in Nat /\ \A t : StreamWay(back', t) \in Nat
      /\ \A t : HasEnd(back, t) <=> HasEnd(back', t) \/ t = s
  <2>1. "END" \in {"DATA", "END", "SENDME"} /\ "END" # "SENDME"
    OBVIOUS
  <2>2. /\ back' \in Seq(Cells)
        /\ CircuitWay(back) = CircuitWay(back') + 0
        /\ CircuitWay(back') \in Nat /\ \A t : StreamWay(back', t) \in Nat
    BY <1>0, <1>1, <2>1, Takes
  <2>3. \A t : StreamWay(back, t) = StreamWay(back', t) + 0
    BY <1>0, <1>1, <2>1, Takes
  <2>4. \A t : HasEnd(back, t) <=> HasEnd(back', t) \/ t = s
    BY <1>0, <1>1, <2>1, Takes
  <2> QED
    BY <2>2, <2>3, <2>4
<1>3. dstream'[s] = "hungup"
  <2>1. HasEnd(back, s)
    BY <1>2
  <2>2. dstream[s] = "hungup"
    BY <1>0, <2>1 DEF EndsLast
  <2> QED
    BY <1>1, <2>2
<1>4. CircuitWay(back') = CircuitWay(back) /\ \A t : StreamWay(back', t) = StreamWay(back, t)
  BY <1>2
<1>5. /\ pstream' \in [Streams -> {"new", "open", "closed"}] /\ supply' \in [Streams -> Nat]
      /\ inbuf' \in [Streams -> Nat] /\ reading' \in [Streams -> BOOLEAN]
      /\ pstream'[s] = "closed" /\ supply'[s] = 0 /\ inbuf'[s] = 0
      /\ \A t \in Streams : reading'[t] => reading[t]
      /\ \A t \in Streams \ {s} : /\ pstream'[t] = pstream[t]
                                  /\ supply'[t] = supply[t] /\ inbuf'[t] = inbuf[t]
  BY <1>0, <1>1 DEF TypeOK
<1>6. TypeOK'
  BY <1>0, <1>1, <1>2, <1>5 DEF TypeOK
<1>7. QueueMarks'
  BY <1>0, <1>1, <1>5 DEF QueueMarks, BlockedIsSilent
<1>8. Line' = Line
  BY <1>1 DEF Line
<1>9. /\ \A t \in Streams : /\ StreamWay(back', t) = StreamWay(back, t)
                            /\ HasEnd(back', t) => HasEnd(back, t) \/ (t = s /\ dstream'[s] = "hungup")
      /\ \A t \in Streams \ {s} : /\ pstream'[t] = pstream[t] /\ dstream'[t] = dstream[t]
                                  /\ supply'[t] = supply[t] /\ inbuf'[t] = inbuf[t]
  BY <1>1, <1>2, <1>4, <1>5
<1> QED
  BY <1>1, <1>3, <1>4, <1>5, <1>6, <1>7, <1>8, <1>9, ClosingSettles
-----------------------------------------------------------------------------
(* The inductive invariant, from the start and through every step. *)

\* It holds at the start.
LEMMA InitIInv ==
  ASSUME Init
  PROVE  IInv
<1>1. /\ side \in Sides /\ side.supply \in [Streams -> Nat]
  BY FlowAssumption DEF Init
<1>2. /\ <<>> \in Seq(Cells) /\ Len(<<>>) = 0 /\ queue = <<>> /\ wire = <<>> /\ back = <<>>
      /\ Line = <<>>
  BY EmptySeq, ConcatEmptySeq DEF Init, Line
<1>3. TypeOK
  BY <1>1, <1>2, Numbers DEF Init, TypeOK, Supply
<1>4. Live
  BY DEF Init, Live
<1>5. \A C : Count(Line, C) = 0 /\ Count(back, C) = 0
  BY <1>2, CountEmpty
<1>6. CircIncrement * 0 = 0 /\ StreamIncrement * 0 = 0
  BY Numbers
<1>7. CircuitAccount
  <2>1. pw = CircInitial /\ dw = CircStart
    BY DEF Init
  <2>2. CircInitial + 0 + 0 + (CircStart - CircInitial) = CircStart
    BY Numbers
  <2> QED
    BY <1>5, <1>6, <2>1, <2>2, Numbers DEF CircuitAccount
<1>8. ASSUME NEW s \in Streams PROVE StreamAccount(s) /\ DataAccount(s) /\ EndsLast(s)
  <2>1. /\ spw[s] = StreamStart /\ sdw[s] = StreamStart /\ got[s] = 0 /\ inbuf[s] = 0
        /\ supply[s] = Supply[s] /\ Supply[s] \in Nat /\ pstream[s] = "new" /\ dstream[s] # "ended"
    BY <1>1 DEF Init, Supply
  <2>2. StreamAccount(s)
    <3>1. StreamStart + 0 + 0 <= StreamStart /\ StreamStart <= StreamStart
      BY Numbers
    <3> QED
      BY <1>5, <1>6, <2>1, <3>1 DEF StreamAccount
  <2>3. DataAccount(s)
    BY <1>5, <2>1 DEF DataAccount
  <2>4. ~HasEnd(back, s) /\ ~HasEnd(Line, s) /\ InOrder(Line, s)
    BY <1>2 DEF HasEnd, InOrder
  <2> QED
    BY <2>1, <2>2, <2>3, <2>4 DEF EndsLast
<1>9. QueueMarks
  BY <1>2, Numbers DEF QueueMarks, BlockedIsSilent, Init
<1> QED
  BY <1>3, <1>4, <1>7, <1>8, <1>9 DEF IInv

LEMMA StutterIInv ==
  ASSUME IInv, UNCHANGED vars
  PROVE  IInv'
BY DEF IInv, vars, packager, deliverer, TypeOK, Live, CircuitAccount, StreamAccount, DataAccount,
       EndsLast, QueueMarks, BlockedIsSilent, Line, Supply

\* The handlers, one by one.
Handled ==
  \/ Flush
  \/ \E s \in Streams : Open(s) \/ Data(s) \/ End(s) \/ Connected(s) \/ Drain(s) \/ StreamEnd(s) \/ Hangup(s)
  \/ \E idle \in CanBeIdle : CircuitSendme(idle)
  \/ \E s \in Streams, idle \in CanBeIdle :
       \/ StreamSendme(s, idle)
       \/ \E k \in 1 .. supply[s] : Write(s, k, idle)
       \/ \E k \in 0 .. supply[s], eof \in BOOLEAN : Read(s, k, eof, idle)

LEMMA NextIsHandled ==
  ASSUME Next
  PROVE  UNCHANGED side /\ Handled
<1>1. UNCHANGED side
  BY DEF Next, Progress
<1>2. ASSUME Progress PROVE Handled
  <2>1. ASSUME Flush PROVE Handled
    BY <2>1 DEF Handled
  <2>2. ASSUME NEW s \in Streams, Open(s) \/ Data(s) \/ End(s) \/ Connected(s) \/ Drain(s) PROVE Handled
    BY <2>2 DEF Handled
  <2>3. ASSUME NEW s \in Streams, StreamEnd(s) \/ TakeStreamSendme(s) \/ ReadSome(s) PROVE Handled
    BY <2>3 DEF Handled, TakeStreamSendme, ReadSome
  <2>4. ASSUME TakeCircuitSendme PROVE Handled
    BY <2>4 DEF Handled, TakeCircuitSendme
  <2> QED
    BY <1>2, <2>1, <2>2, <2>3, <2>4 DEF Progress
<1>3. ASSUME NEW s \in Streams, Hangup(s) \/ \E k \in 1 .. supply[s], idle \in CanBeIdle : Write(s, k, idle)
      PROVE  Handled
  BY <1>3 DEF Handled
<1> QED
  BY <1>1, <1>2, <1>3 DEF Next

\* Every handler keeps it.
LEMMA StepIInv ==
  ASSUME IInv, [Next]_vars
  PROVE  IInv'
<1>1. CASE UNCHANGED vars
  BY <1>1, StutterIInv
<1>2. ASSUME Next PROVE IInv'
  <2>0. UNCHANGED side /\ Handled
    BY <1>2, NextIsHandled
  <2>1. ASSUME Flush PROVE IInv'
    BY <2>0, <2>1, FlushSettles, SettlesIInv
  <2>2. ASSUME NEW s \in Streams, Open(s) PROVE IInv'
    BY <2>0, <2>2, OpenSettles, SettlesIInv
  <2>3. ASSUME NEW s \in Streams, Data(s) PROVE IInv'
    BY <2>0, <2>3, DataSettles, SettlesIInv
  <2>4. ASSUME NEW s \in Streams, End(s) PROVE IInv'
    BY <2>0, <2>4, EndSettles, SettlesIInv
  <2>5. ASSUME NEW s \in Streams, Connected(s) PROVE IInv'
    BY <2>0, <2>5, ConnectedSettles, SettlesIInv
  <2>6. ASSUME NEW s \in Streams, Drain(s) PROVE IInv'
    BY <2>0, <2>6, DrainSettles, SettlesIInv
  <2>7. ASSUME NEW s \in Streams, StreamEnd(s) PROVE IInv'
    BY <2>0, <2>7, StreamEndSettles, SettlesIInv
  <2>8. ASSUME NEW s \in Streams, Hangup(s) PROVE IInv'
    BY <2>0, <2>8, HangupSettles, SettlesIInv
  <2>9. ASSUME NEW idle \in CanBeIdle, CircuitSendme(idle) PROVE IInv'
    <3>1. PICK e \in GoodEdges, x \in Seq(OpenData) : Charged(e, x, <<>>) /\ Balanced(e, <<>>)
      BY <2>0, <2>9, CircuitSendmePacks
    <3> QED
      BY <3>1, NothingBehind, PackIInv
  <2>10. ASSUME NEW s \in Streams, NEW idle \in CanBeIdle, StreamSendme(s, idle) PROVE IInv'
    <3>1. PICK e \in GoodEdges, x \in Seq(OpenData) : Charged(e, x, <<>>) /\ Balanced(e, <<>>)
      BY <2>0, <2>10, StreamSendmePacks
    <3> QED
      BY <3>1, NothingBehind, PackIInv
  <2>11. ASSUME NEW s \in Streams, NEW idle \in CanBeIdle, NEW k \in 1 .. supply[s], Write(s, k, idle)
         PROVE IInv'
    <3>1. PICK e \in GoodEdges, x \in Seq(OpenData) : Charged(e, x, <<>>) /\ Balanced(e, <<>>)
      BY <2>0, <2>11, WritePacks
    <3> QED
      BY <3>1, NothingBehind, PackIInv
  <2>12. ASSUME NEW s \in Streams, NEW idle \in CanBeIdle, NEW k \in 0 .. supply[s], NEW eof \in BOOLEAN,
                Read(s, k, eof, idle)
         PROVE IInv'
    <3>1. PICK e \in GoodEdges, x \in Seq(OpenData), y \in Seq(Cells) :
             Behind(y) /\ Charged(e, x, y) /\ Balanced(e, y)
      BY <2>0, <2>12, ReadPacks
    <3> QED
      BY <3>1, PackIInv
  <2> QED
    BY <2>0, <2>1, <2>2, <2>3, <2>4, <2>5, <2>6, <2>7, <2>8, <2>9, <2>10, <2>11, <2>12 DEF Handled
<1> QED
  BY <1>1, <1>2

\* So it is an invariant of the specification.
LEMMA AlwaysIInv == Spec => []IInv
<1>1. Init => IInv
  BY InitIInv
<1>2. IInv /\ [Next]_vars => IInv'
  BY StepIInv
<1> QED
  BY <1>1, <1>2, PTL DEF Spec

\* The variables of the circuit, its streams and its queues keep their types.
THEOREM TypeCorrect == Spec => []TypeOK
<1>1. IInv => TypeOK
  BY DEF IInv
<1> QED
  BY <1>1, AlwaysIInv, PTL

\* relay.c: neither end ever sees an unexpected SENDME or a cell beyond a window, so
\* circuit_package_relay_cell and connection_edge_process_relay_cell never kill a circuit
\* whose two ends both run this code.
THEOREM NeverKilled == Spec => []Live
<1>1. IInv => Live
  BY DEF IInv
<1> QED
  BY <1>1, AlwaysIInv, PTL

\* relay.c: while streams are blocked on the queue a flush is to come that unblocks them,
\* no stream that has packaged anything is read meanwhile, and a stream that ended in
\* order has handed the other side all that its application wrote.
THEOREM AlwaysBlocksEnd == Spec => []BlocksEnd
<1>1. IInv => BlocksEnd
  <2> SUFFICES ASSUME IInv PROVE BlocksEnd
    OBVIOUS
  <2>1. BlockedHasQueue /\ BlockedIsSilent
    BY DEF IInv, QueueMarks, BlockedHasQueue
  <2>2. ASSUME NEW s \in Streams, dstream[s] = "ended" PROVE got[s] = Supply[s]
    <3>1. /\ TypeOK /\ DataAccount(s) /\ EndsLast(s)
      BY DEF IInv
    <3>2. Count(Line, DataOf(s)) = 0 /\ supply[s] = 0 /\ inbuf[s] = 0
      BY <2>2, <3>1 DEF EndsLast
    <3>3. got[s] + 0 + 0 + 0 = Supply[s] /\ got[s] \in Nat
      BY <2>2, <3>1, <3>2 DEF DataAccount, TypeOK
    <3> QED
      BY <3>3
  <2> QED
    BY <2>1, <2>2 DEF BlocksEnd, EndAfterData
<1> QED
  BY <1>1, AlwaysIInv, PTL
-----------------------------------------------------------------------------
(* The circuit's window is a WindowProtocol. *)

\* Counting cells of two kinds.
LEMMA CountTwo ==
  \A w, q \in Seq(Cells) : \A C : Count(q, C) + Count(w, C) = Count(w \o q, C)
<1> SUFFICES ASSUME NEW w \in Seq(Cells), NEW q \in Seq(Cells), NEW C
             PROVE  Count(q, C) + Count(w, C) = Count(w \o q, C)
  OBVIOUS
<1>1. /\ Count(w, C) \in Nat /\ Count(q, C) \in Nat
      /\ Count(w \o q, C) = Count(w, C) + Count(q, C)
  BY CountConcat
<1> QED
  BY <1>1

LEMMA InFlightIs ==
  TypeOK => \A C : InFlight(C) = Count(Line, C)
BY CountTwo DEF TypeOK, InFlight, Line

LEMMA InFlightWillBe ==
  TypeOK' => \A C : InFlight(C)' = Count(Line', C)
BY CountTwo DEF TypeOK, InFlight, Line

\* What the instance sees of a state of the invariant.
CircuitStep ==
  [CircuitWindow!Next]_(CircuitWindow!vars)

LEMMA CircuitSeen ==
  ASSUME IInv
  PROVE  /\ IfLive(pw) = pw /\ IfLive(dw) = dw
         /\ IfLive(InFlight({Cell("DATA", s) : s \in Streams})) = Count(Line, DataCells)
         /\ IfLive(Count(back, {Cell("SENDME", Circuit)})) = Count(back, SendmesTo(Circuit))
         /\ (IF Live THEN "open" ELSE "killed") = "open"
<1>1. TypeOK /\ Live
  BY DEF IInv
<1>2. InFlight(DataCells) = Count(Line, DataCells)
  BY <1>1, InFlightIs
<1> QED
  BY <1>1, <1>2 DEF IfLive, DataCells, SendmesTo

LEMMA CircuitSeenNext ==
  ASSUME IInv'
  PROVE  /\ IfLive(pw)' = pw' /\ IfLive(dw)' = dw'
         /\ IfLive(InFlight({Cell("DATA", s) : s \in Streams}))' = Count(Line', DataCells)
         /\ IfLive(Count(back, {Cell("SENDME", Circuit)}))' = Count(back', SendmesTo(Circuit))
         /\ (IF Live THEN "open" ELSE "killed")' = "open"
<1>1. TypeOK' /\ Live'
  BY DEF IInv
<1>2. InFlight(DataCells)' = Count(Line', DataCells)
  BY <1>1, InFlightWillBe
<1> QED
  BY <1>1, <1>2 DEF IfLive, DataCells, SendmesTo

LEMMA CircuitInit ==
  ASSUME Init
  PROVE  CircuitWindow!Init
<1>1. IInv
  BY InitIInv
<1>2. Count(Line, DataCells) = 0 /\ Count(back, SendmesTo(Circuit)) = 0
  <2>1. Line = <<>> /\ back = <<>>
    BY EmptySeq, ConcatEmptySeq DEF Init, Line
  <2> QED
    BY <2>1, CountEmpty
<1>3. pw = CircInitial /\ dw = CircStart
  BY DEF Init
<1> QED
  BY <1>1, <1>2, <1>3, CircuitSeen DEF CircuitWindow!Init

LEMMA CircuitStutters ==
  ASSUME IInv, IInv', pw' = pw, dw' = dw, Count(Line', DataCells) = Count(Line, DataCells),
         Count(back', SendmesTo(Circuit)) = Count(back, SendmesTo(Circuit))
  PROVE  CircuitStep
BY CircuitSeen, CircuitSeenNext DEF CircuitStep, CircuitWindow!vars

LEMMA CircuitPackages ==
  ASSUME IInv, IInv', NEW k \in Nat, pw' + k = pw, dw' = dw,
         Count(Line', DataCells) = Count(Line, DataCells) + k,
         Count(back', SendmesTo(Circuit)) = Count(back, SendmesTo(Circuit))
  PROVE  CircuitStep
<1>1. pw \in Nat /\ pw' \in Nat /\ Count(Line, DataCells) \in Nat
  BY LineTyped DEF IInv, TypeOK
<1> DEFINE p == pw
           q == pw'
           c == Count(Line, DataCells)
<1>4. p \in Nat /\ q \in Nat /\ c \in Nat /\ q + k = p
  BY <1>1
<1> HIDE DEF p, q, c
<1>5. (k = 0 => q = p /\ c + k = c) /\ (k > 0 => k \in 1 .. p /\ q = p - k)
  BY <1>4
<1>2. CASE k = 0
  <2>1. pw' = pw /\ Count(Line', DataCells) = Count(Line, DataCells)
    BY <1>2, <1>5 DEF p, q, c
  <2> QED
    BY <2>1, CircuitStutters
<1>3. CASE k > 0
  <2>1. k \in 1 .. pw /\ pw' = pw - k
    BY <1>3, <1>5 DEF p, q
  <2>2. CircuitWindow!Package(k)
    BY <2>1, CircuitSeen, CircuitSeenNext DEF CircuitWindow!Package
  <2>3. k \in 1 .. IfLive(pw)
    BY <2>1, CircuitSeen
  <2> QED
    BY <2>2, <2>3 DEF CircuitStep, CircuitWindow!Next
<1> QED
  BY <1>2, <1>3

LEMMA CircuitReceives ==
  ASSUME IInv, IInv', NEW k \in Nat, pw' + k = pw + CircIncrement, dw' = dw,
         pw + CircIncrement <= CircStart,
         Count(Line', DataCells) = Count(Line, DataCells) + k,
         Count(back', SendmesTo(Circuit)) + 1 = Count(back, SendmesTo(Circuit)),
         Count(back', SendmesTo(Circuit)) \in Nat
  PROVE  CircuitStep
<1>1. pw \in Nat /\ pw' \in Nat
  BY DEF IInv, TypeOK
<1> DEFINE a == Count(back, SendmesTo(Circuit))
           b == Count(back', SendmesTo(Circuit))
<1>2. b + 1 = a /\ b \in Nat
  OBVIOUS
<1> HIDE DEF a, b
<1>3. a > 0 /\ b = a - 1
  BY <1>2
<1>4. /\ k \in 0 .. pw + CircIncrement /\ pw' = pw + CircIncrement - k
      /\ ~(pw + CircIncrement > CircStart)
  <2> DEFINE p == pw
             q == pw'
  <2>1. p \in Nat /\ q \in Nat /\ q + k = p + CircIncrement /\ p + CircIncrement <= CircStart
    BY <1>1
  <2> HIDE DEF p, q
  <2>2. /\ k \in 0 .. p + CircIncrement /\ q = p + CircIncrement - k
        /\ ~(p + CircIncrement > CircStart)
    BY <2>1, Numbers
  <2> QED
    BY <2>2 DEF p, q
<1>5. CircuitWindow!ReceiveSendme(k)
  BY <1>3, <1>4, CircuitSeen, CircuitSeenNext DEF CircuitWindow!ReceiveSendme, a, b
<1>6. k \in 0 .. IfLive(pw) + CircIncrement
  BY <1>4, CircuitSeen
<1> QED
  BY <1>5, <1>6 DEF CircuitStep, CircuitWindow!Next

LEMMA CircuitDelivers ==
  ASSUME IInv, IInv', NEW m \in 0 .. CircStart,
         dw \in Nat \ {0}, dw' = dw - 1 + m * CircIncrement,
         dw - 1 + m * CircIncrement > CircStart - CircIncrement,
         m > 0 => dw - 1 + (m - 1) * CircIncrement <= CircStart - CircIncrement,
         pw' = pw, Count(Line', DataCells) \in Nat,
         Count(Line', DataCells) + 1 = Count(Line, DataCells),
         Count(back', SendmesTo(Circuit)) = Count(back, SendmesTo(Circuit)) + m
  PROVE  CircuitStep
<1> DEFINE a == Count(Line, DataCells)
           b == Count(Line', DataCells)
<1>1. b + 1 = a /\ b \in Nat
  OBVIOUS
<1> HIDE DEF a, b
<1>2. a > 0 /\ b = a - 1
  BY <1>1
<1>3. ~(dw - 1 < 0)
  OBVIOUS
<1>4. CircuitWindow!Rounds(IfLive(dw) - 1, m)
  BY CircuitSeen DEF CircuitWindow!Rounds
<1>5. CircuitWindow!TopUpFrom(IfLive(dw) - 1)
  <2>1. /\ IfLive(dw)' = IfLive(dw) - 1 + m * CircIncrement
        /\ IfLive(Count(back, {Cell("SENDME", Circuit)}))'
             = IfLive(Count(back, {Cell("SENDME", Circuit)})) + m
    BY CircuitSeen, CircuitSeenNext
  <2> QED
    BY <1>4, <2>1 DEF CircuitWindow!TopUpFrom
<1>6. CircuitWindow!Deliver
  <2>1. /\ IfLive(InFlight({Cell("DATA", s) : s \in Streams})) > 0
        /\ IfLive(InFlight({Cell("DATA", s) : s \in Streams}))'
             = IfLive(InFlight({Cell("DATA", s) : s \in Streams})) - 1
        /\ ~(IfLive(dw) - 1 < 0)
        /\ (IF Live THEN "open" ELSE "killed") = "open"
        /\ IfLive(pw)' = IfLive(pw)
        /\ (IF Live THEN "open" ELSE "killed")' = (IF Live THEN "open" ELSE "killed")
    BY <1>2, <1>3, CircuitSeen, CircuitSeenNext DEF a, b
  <2> QED
    BY <1>5, <2>1 DEF CircuitWindow!Deliver
<1> QED
  BY <1>6 DEF CircuitStep, CircuitWindow!Next

\* The counts behind the accounts, through the handlers that package.
LEMMA TakesCount ==
  ASSUME TypeOK, NEW c \in {"DATA", "END", "SENDME"}, NextBack(c), TakeBack, NEW s
  PROVE  /\ Count(back', SendmesTo(s)) \in Nat
         /\ Count(back, SendmesTo(s))
              = Count(back', SendmesTo(s)) + (IF c = "SENDME" /\ s = Head(back).stream THEN 1 ELSE 0)
<1>1. back \in Seq(Cells) /\ back # <<>> /\ Head(back).cmd = c /\ back' = Tail(back)
  BY DEF TypeOK, NextBack, TakeBack
<1>2. Head(back) \in Cells
  BY <1>1, TakeFirst
<1>3. Head(back) \in SendmesTo(s) <=> c = "SENDME" /\ s = Head(back).stream
  BY <1>1, <1>2, CellIs, CellsAre DEF SendmesTo
<1>4. /\ Count(Tail(back), SendmesTo(s)) \in Nat
      /\ Count(back, SendmesTo(s)) = Count(Tail(back), SendmesTo(s)) + (IF Head(back) \in SendmesTo(s) THEN 1 ELSE 0)
  BY <1>1, CountFirst
<1> QED
  BY <1>1, <1>3, <1>4

LEMMA TakesLineCount ==
  ASSUME TypeOK, NEW c \in {"DATA", "END"}, NEW s \in Streams, NextForward(c), Head(wire).stream = s,
         wire' = Tail(wire), queue' = queue
  PROVE  /\ c = "DATA" => Count(Line', DataCells) + 1 = Count(Line, DataCells)
         /\ c = "END" => Count(Line', DataCells) = Count(Line, DataCells)
         /\ Count(Line', DataCells) \in Nat
         /\ \A t \in Streams :
              /\ Count(Line', DataOf(t)) \in Nat
              /\ c = "DATA" /\ t = s => Count(Line', DataOf(t)) + 1 = Count(Line, DataOf(t))
              /\ c = "END" \/ t # s => Count(Line', DataOf(t)) = Count(Line, DataOf(t))
<1>1. "DATA" # "END"
  OBVIOUS
<1>2. /\ Count(Line', DataCells) \in Nat
      /\ Count(Line, DataCells) = Count(Line', DataCells) + (IF c = "DATA" THEN 1 ELSE 0)
  BY TakesLine
<1>3. \A t \in Streams :
        /\ Count(Line', DataOf(t)) \in Nat
        /\ Count(Line, DataOf(t)) = Count(Line', DataOf(t)) + (IF c = "DATA" /\ t = s THEN 1 ELSE 0)
  BY TakesLine
<1> HIDE DEF Line
<1> QED
  BY <1>1, <1>2, <1>3

\* Handlers that leave a window alone, with what they change of the counts.
Steady ==
  /\ pw' = pw /\ dw' = dw /\ spw' = spw
  /\ Count(Line', DataCells) = Count(Line, DataCells)
  /\ \A t \in Streams : Count(Line', DataOf(t)) = Count(Line, DataOf(t))
  /\ Count(back', SendmesTo(Circuit)) = Count(back, SendmesTo(Circuit))

LEMMA EndSteady ==
  ASSUME IInv, NEW s \in Streams, End(s)
  PROVE  Steady /\ back' = back /\ sdw' = sdw
<1>1. /\ NextForward("END") /\ Head(wire).stream = s /\ wire' = Tail(wire)
      /\ UNCHANGED <<queue, pw, dw, spw, back, sdw>> /\ TypeOK
  BY DEF End, packager, IInv
<1>2. "END" \in {"DATA", "END"}
  OBVIOUS
<1>3. /\ Count(Line', DataCells) = Count(Line, DataCells)
      /\ \A t \in Streams : Count(Line', DataOf(t)) = Count(Line, DataOf(t))
  BY <1>1, <1>2, TakesLineCount
<1> QED
  BY <1>1, <1>3 DEF Steady

LEMMA LineSteady ==
  ASSUME IInv, \/ Flush
               \/ \E s \in Streams : Open(s) \/ Connected(s)
  PROVE  Steady /\ back' = back /\ sdw' = sdw
<1>1. CASE Flush
  <2>1. queue \in Seq(Cells) /\ wire \in Seq(Cells) /\ queue # <<>>
        /\ wire' = Append(wire, Head(queue)) /\ queue' = Tail(queue)
        /\ UNCHANGED <<pw, dw, spw, back, sdw>>
    BY <1>1 DEF IInv, TypeOK, Flush, deliverer
  <2>2. Line' = Line
    BY <2>1, LineMoves DEF Line
  <2> QED
    BY <2>1, <2>2 DEF Steady
<1>2. ASSUME NEW s \in Streams, Open(s) \/ Connected(s) PROVE Steady /\ back' = back /\ sdw' = sdw
  <2>1. UNCHANGED <<wire, queue, pw, dw, spw, back, sdw>>
    BY <1>2 DEF Open, Connected, packager, deliverer
  <2>2. Line' = Line
    BY <2>1 DEF Line
  <2> QED
    BY <2>1, <2>2 DEF Steady
<1> QED
  BY <1>1, <1>2

LEMMA HangupSteady ==
  ASSUME IInv, NEW s \in Streams, Hangup(s)
  PROVE  /\ Steady /\ sdw' = sdw
         /\ \A t : Count(back', SendmesTo(t)) = Count(back, SendmesTo(t))
<1>1. /\ UNCHANGED <<wire, queue, pw, dw, spw, sdw>> /\ back' = Append(back, Cell("END", s)) /\ TypeOK
  BY DEF Hangup, packager, IInv
<1>2. \A t : Count(back', SendmesTo(t)) = Count(back, SendmesTo(t))
  BY <1>1, EndSent
<1>3. Line' = Line
  BY <1>1 DEF Line
<1> QED
  BY <1>1, <1>2, <1>3 DEF Steady

LEMMA StreamEndSteady ==
  ASSUME IInv, NEW s \in Streams, StreamEnd(s)
  PROVE  /\ Steady /\ sdw' = sdw
         /\ \A t : Count(back', SendmesTo(t)) = Count(back, SendmesTo(t))
<1>1. /\ UNCHANGED <<wire, queue, pw, dw, spw, sdw>> /\ NextBack("END") /\ TakeBack /\ TypeOK
  BY DEF StreamEnd, deliverer, IInv
<1>2. ASSUME NEW t PROVE Count(back', SendmesTo(t)) = Count(back, SendmesTo(t))
  <2>1. "END" \in {"DATA", "END", "SENDME"} /\ "END" # "SENDME"
    OBVIOUS
  <2>2. Count(back', SendmesTo(t)) \in Nat /\ Count(back, SendmesTo(t)) = Count(back', SendmesTo(t)) + 0
    BY <1>1, <2>1, TakesCount
  <2> QED
    BY <2>2
<1>3. Line' = Line
  BY <1>1 DEF Line
<1> QED
  BY <1>1, <1>2, <1>3 DEF Steady

LEMMA DrainSteady ==
  ASSUME IInv, NEW s \in Streams, NEW n \in Nat, Drained(s, n)
  PROVE  /\ Steady
         /\ \A t \in Streams : Count(back', SendmesTo(t)) = Count(back, SendmesTo(t)) + (IF t = s THEN n ELSE 0)
<1>1. /\ UNCHANGED <<wire, queue, pw, dw, spw>> /\ back' = back \o Sendmes(s, n) /\ TypeOK
  BY DEF Drained, packager, IInv
<1>2. /\ Count(back', SendmesTo(Circuit)) = Count(back, SendmesTo(Circuit))
      /\ \A t \in Streams : Count(back', SendmesTo(t)) = Count(back, SendmesTo(t)) + (IF t = s THEN n ELSE 0)
  BY <1>1, StreamSends
<1>3. Line' = Line
  BY <1>1 DEF Line
<1> QED
  BY <1>1, <1>2, <1>3 DEF Steady

LEMMA SteadyStep ==
  ASSUME IInv, IInv', Steady
  PROVE  CircuitStep
BY CircuitStutters DEF Steady

\* A handler that packages, and takes nothing from the circuit's way back.
LEMMA PackagingStep ==
  ASSUME IInv, IInv', NEW e, NEW x, NEW y, Charged(e, x, y), Balanced(e, y), e.pw = pw,
         Count(back', SendmesTo(Circuit)) = Count(back, SendmesTo(Circuit))
  PROVE  CircuitStep
<1>1. /\ Len(x) \in Nat /\ pw' + Len(x) = pw
      /\ Count(Line', DataCells) = Count(Line, DataCells) + Len(x)
  BY DEF Charged
<1>2. dw' = dw
  BY DEF Balanced, deliverer
<1> QED
  BY <1>1, <1>2, CircuitPackages

\* Every handler is a step of the window, or leaves it alone.
LEMMA CircuitSteps ==
  ASSUME IInv, IInv', Next
  PROVE  CircuitStep
<1>0. UNCHANGED side /\ Handled /\ TypeOK
  BY NextIsHandled DEF IInv
<1>1. CASE Flush \/ \E s \in Streams : Open(s) \/ Connected(s)
  BY <1>1, LineSteady, SteadyStep
<1>2. ASSUME NEW s \in Streams, Data(s) PROVE CircuitStep
  <2>1. PICK m \in Nat, n \in Nat : DataTaken(s, m, n)
    BY <1>2, DataTakes
  <2>2. NextForward("DATA") /\ Head(wire).stream = s /\ wire' = Tail(wire) /\ queue' = queue
        /\ back' = (back \o Sendmes(Circuit, m)) \o Sendmes(s, n) /\ pw' = pw
    BY <1>2, <2>1 DEF Data, DataTaken, packager
  <2>3. Count(Line', DataCells) + 1 = Count(Line, DataCells) /\ Count(Line', DataCells) \in Nat
    <3>1. "DATA" \in {"DATA", "END"}
      OBVIOUS
    <3> QED
      BY <1>0, <2>2, <3>1, TakesLineCount
  <2>4. Count(back', SendmesTo(Circuit)) = Count(back, SendmesTo(Circuit)) + m
    BY <1>0, <2>2, DataWay
  <2>5. /\ m \in 0 .. CircStart /\ dw \in Nat \ {0} /\ dw' = dw - 1 + m * CircIncrement
        /\ dw - 1 + m * CircIncrement > CircStart - CircIncrement
        /\ m > 0 => dw - 1 + (m - 1) * CircIncrement <= CircStart - CircIncrement
    BY <2>1 DEF DataTaken
  <2> QED
    BY <2>2, <2>3, <2>4, <2>5, CircuitDelivers
<1>3. ASSUME NEW s \in Streams, End(s) PROVE CircuitStep
  BY <1>3, EndSteady, SteadyStep
<1>4. ASSUME NEW s \in Streams, Drain(s) PROVE CircuitStep
  <2>1. PICK n \in Nat : Drained(s, n)
    BY <1>4, DrainTops
  <2> QED
    BY <2>1, DrainSteady, SteadyStep
<1>5. ASSUME NEW s \in Streams, StreamEnd(s) PROVE CircuitStep
  BY <1>5, StreamEndSteady, SteadyStep
<1>6. ASSUME NEW s \in Streams, Hangup(s) PROVE CircuitStep
  BY <1>6, HangupSteady, SteadyStep
<1>7. ASSUME NEW idle \in CanBeIdle, CircuitSendme(idle) PROVE CircuitStep
  <2>1. PICK e \in GoodEdges, x \in Seq(OpenData) :
          /\ Charged(e, x, <<>>) /\ Balanced(e, <<>>)
          /\ e = [Now(idle) EXCEPT !.pw = @ + CircIncrement]
          /\ ~(pw + CircIncrement > CircStart)
    BY <1>0, <1>7, CircuitSendmePacks
  <2>2. e.pw = pw + CircIncrement
    BY <2>1 DEF Now
  <2>3. /\ Len(x) \in Nat /\ pw' + Len(x) = pw + CircIncrement
        /\ Count(Line', DataCells) = Count(Line, DataCells) + Len(x)
    BY <2>1, <2>2 DEF Charged
  <2>4. dw' = dw
    BY <2>1 DEF Balanced, deliverer
  <2>5. NextBack("SENDME") /\ Head(back).stream = Circuit /\ TakeBack
    BY <1>7, <2>1 DEF CircuitSendme
  <2>6. /\ Count(back', SendmesTo(Circuit)) \in Nat
        /\ Count(back, SendmesTo(Circuit)) = Count(back', SendmesTo(Circuit)) + 1
    <3>1. "SENDME" \in {"DATA", "END", "SENDME"}
      OBVIOUS
    <3> QED
      BY <1>0, <2>5, <3>1, TakesCount
  <2>7. pw + CircIncrement <= CircStart
    <3>1. pw \in Nat
      BY <1>0 DEF TypeOK
    <3> QED
      BY <2>1, <3>1, Numbers
  <2> QED
    BY <2>3, <2>4, <2>6, <2>7, CircuitReceives
<1>8. ASSUME NEW s \in Streams, NEW idle \in CanBeIdle, StreamSendme(s, idle) PROVE CircuitStep
  <2>1. PICK e \in GoodEdges, x \in Seq(OpenData) :
          Charged(e, x, <<>>) /\ StreamSendmeBase(s, e) /\ Balanced(e, <<>>)
    BY <1>0, <1>8, StreamSendmePacks
  <2>2. NextBack("SENDME") /\ Head(back).stream = s /\ TakeBack /\ s # Circuit
    BY <1>8, FlowAssumption DEF StreamSendme
  <2>3. Count(back', SendmesTo(Circuit)) = Count(back, SendmesTo(Circuit))
    <3>1. "SENDME" \in {"DATA", "END", "SENDME"}
      OBVIOUS
    <3>2. /\ Count(back', SendmesTo(Circuit)) \in Nat
          /\ Count(back, SendmesTo(Circuit)) = Count(back', SendmesTo(Circuit)) + 0
      BY <1>0, <2>2, <3>1, TakesCount
    <3> QED
      BY <3>2
  <2> QED
    BY <2>1, <2>3, PackagingStep DEF StreamSendmeBase
<1>9. ASSUME NEW s \in Streams, NEW idle \in CanBeIdle, NEW k \in 1 .. supply[s], Write(s, k, idle)
      PROVE CircuitStep
  <2>1. PICK e \in GoodEdges, x \in Seq(OpenData) :
          Charged(e, x, <<>>) /\ ReadBase(s, k, e) /\ Balanced(e, <<>>)
    BY <1>0, <1>9, WritePacks
  <2>2. back' = back
    BY <1>9 DEF Write
  <2> QED
    BY <2>1, <2>2, PackagingStep DEF ReadBase
<1>10. ASSUME NEW s \in Streams, NEW idle \in CanBeIdle, NEW k \in 0 .. supply[s], NEW eof \in BOOLEAN,
              Read(s, k, eof, idle)
       PROVE CircuitStep
  <2>1. PICK e \in GoodEdges, x \in Seq(OpenData), y \in Seq(Cells) :
          Charged(e, x, y) /\ ReadBase(s, k, e) /\ Balanced(e, y)
    BY <1>0, <1>10, ReadPacks
  <2>2. back' = back
    BY <1>10 DEF Read
  <2> QED
    BY <2>1, <2>2, PackagingStep DEF ReadBase
<1> QED
  BY <1>0, <1>1, <1>2, <1>3, <1>4, <1>5, <1>6, <1>7, <1>8, <1>9, <1>10 DEF Handled

\* The circuit's package_window and deliver_window, with the cells and SENDMEs in flight,
\* start as a WindowProtocol does, and every handler is a step of it or leaves it alone.
THEOREM CircuitWindowImplemented == Spec => ImplementsCircuitWindow
<1>1. Init => CircuitWindow!Init
  BY CircuitInit
<1>2. IInv /\ IInv' /\ [Next]_vars => [CircuitWindow!Next]_(CircuitWindow!vars)
  <2> SUFFICES ASSUME IInv, IInv', [Next]_vars PROVE CircuitStep
    BY DEF CircuitStep
  <2>1. CASE Next
    BY <2>1, CircuitSteps
  <2>2. CASE UNCHANGED vars
    <3>1. UNCHANGED <<pw, dw, wire, queue, back>>
      BY <2>2 DEF vars, packager, deliverer
    <3>2. Line' = Line
      BY <3>1 DEF Line
    <3> QED
      BY <3>1, <3>2, CircuitStutters
  <2> QED
    BY <2>1, <2>2
<1> QED
  BY <1>1, <1>2, AlwaysIInv, PTL DEF Spec, ImplementsCircuitWindow, CircuitWindow!Spec
-----------------------------------------------------------------------------
(* So is the window of every stream that both ends still have. *)

StreamStep(s) ==
  [StreamWindow(s)!Next]_(StreamWindow(s)!vars)

LifeOf(s) == IF ~Live THEN "killed" ELSE IF Both(s) THEN "open" ELSE "ended"

\* What the instance sees of a stream that both ends have, and of one they have not.
LEMMA StreamSeen ==
  ASSUME IInv, NEW s \in Streams, Both(s)
  PROVE  /\ IfBoth(s, spw[s]) = spw[s] /\ IfBoth(s, sdw[s]) = sdw[s]
         /\ IfBoth(s, InFlight({Cell("DATA", s)})) = Count(Line, DataOf(s))
         /\ IfBoth(s, Count(back, {Cell("SENDME", s)})) = Count(back, SendmesTo(s))
         /\ LifeOf(s) = "open"
<1>1. TypeOK /\ Live
  BY DEF IInv
<1>2. InFlight(DataOf(s)) = Count(Line, DataOf(s))
  BY <1>1, InFlightIs
<1> QED
  BY <1>1, <1>2 DEF IfBoth, DataOf, SendmesTo, LifeOf

LEMMA StreamSeenNext ==
  ASSUME IInv', NEW s \in Streams, Both(s)'
  PROVE  /\ IfBoth(s, spw[s])' = spw'[s] /\ IfBoth(s, sdw[s])' = sdw'[s]
         /\ IfBoth(s, InFlight({Cell("DATA", s)}))' = Count(Line', DataOf(s))
         /\ IfBoth(s, Count(back, {Cell("SENDME", s)}))' = Count(back', SendmesTo(s))
         /\ LifeOf(s)' = "open"
<1>1. TypeOK' /\ Live'
  BY DEF IInv
<1>2. InFlight(DataOf(s))' = Count(Line', DataOf(s))
  BY <1>1, InFlightWillBe
<1> QED
  BY <1>1, <1>2 DEF IfBoth, DataOf, SendmesTo, LifeOf

LEMMA StreamGone ==
  ASSUME IInv, NEW s \in Streams, ~Both(s)
  PROVE  /\ IfBoth(s, spw[s]) = 0 /\ IfBoth(s, sdw[s]) = 0
         /\ IfBoth(s, InFlight({Cell("DATA", s)})) = 0
         /\ IfBoth(s, Count(back, {Cell("SENDME", s)})) = 0
         /\ LifeOf(s) = "ended"
BY DEF IInv, IfBoth, LifeOf

LEMMA StreamGoneNext ==
  ASSUME IInv', NEW s \in Streams, ~Both(s)'
  PROVE  /\ IfBoth(s, spw[s])' = 0 /\ IfBoth(s, sdw[s])' = 0
         /\ IfBoth(s, InFlight({Cell("DATA", s)}))' = 0
         /\ IfBoth(s, Count(back, {Cell("SENDME", s)}))' = 0
         /\ LifeOf(s)' = "ended"
BY DEF IInv, IfBoth, LifeOf

LEMMA StreamInit ==
  ASSUME Init, NEW s \in Streams
  PROVE  StreamWindow(s)!Init
<1>1. IInv
  BY InitIInv
<1>2. Count(Line, DataOf(s)) = 0 /\ Count(back, SendmesTo(s)) = 0
  <2>1. Line = <<>> /\ back = <<>>
    BY EmptySeq, ConcatEmptySeq DEF Init, Line
  <2> QED
    BY <2>1, CountEmpty
<1>3. spw[s] = StreamStart /\ sdw[s] = StreamStart /\ Both(s)
  BY DEF Init, Both
<1> QED
  BY <1>1, <1>2, <1>3, StreamSeen DEF StreamWindow!Init, LifeOf

LEMMA StreamStaysGone ==
  ASSUME IInv, IInv', NEW s \in Streams, ~Both(s), ~Both(s)'
  PROVE  StreamStep(s)
BY StreamGone, StreamGoneNext DEF StreamStep, StreamWindow!vars, LifeOf

LEMMA StreamCloses ==
  ASSUME IInv, IInv', NEW s \in Streams, Both(s), ~Both(s)'
  PROVE  StreamStep(s)
<1>1. StreamWindow(s)!End
  BY StreamSeen, StreamGoneNext DEF StreamWindow!End, StreamWindow!Close, LifeOf
<1> QED
  BY <1>1 DEF StreamStep, StreamWindow!Next

LEMMA StreamStutters ==
  ASSUME IInv, IInv', NEW s \in Streams, Both(s), Both(s)', spw'[s] = spw[s], sdw'[s] = sdw[s],
         Count(Line', DataOf(s)) = Count(Line, DataOf(s)),
         Count(back', SendmesTo(s)) = Count(back, SendmesTo(s))
  PROVE  StreamStep(s)
BY StreamSeen, StreamSeenNext DEF StreamStep, StreamWindow!vars, LifeOf

LEMMA StreamPackages ==
  ASSUME IInv, IInv', NEW s \in Streams, Both(s), Both(s)',
         NEW k \in Nat, spw'[s] + k = spw[s], sdw'[s] = sdw[s],
         Count(Line', DataOf(s)) = Count(Line, DataOf(s)) + k,
         Count(back', SendmesTo(s)) = Count(back, SendmesTo(s))
  PROVE  StreamStep(s)
<1>1. spw[s] \in Nat /\ spw'[s] \in Nat /\ Count(Line, DataOf(s)) \in Nat
  BY LineTyped DEF IInv, TypeOK
<1> DEFINE p == spw[s]
           q == spw'[s]
           c == Count(Line, DataOf(s))
<1>4. p \in Nat /\ q \in Nat /\ c \in Nat /\ q + k = p
  BY <1>1
<1> HIDE DEF p, q, c
<1>5. (k = 0 => q = p /\ c + k = c) /\ (k > 0 => k \in 1 .. p /\ q = p - k)
  BY <1>4
<1>2. CASE k = 0
  <2>1. spw'[s] = spw[s] /\ Count(Line', DataOf(s)) = Count(Line, DataOf(s))
    BY <1>2, <1>5 DEF p, q, c
  <2> QED
    BY <2>1, StreamStutters
<1>3. CASE k > 0
  <2>1. k \in 1 .. spw[s] /\ spw'[s] = spw[s] - k
    BY <1>3, <1>5 DEF p, q
  <2>2. StreamWindow(s)!Package(k)
    BY <2>1, StreamSeen, StreamSeenNext DEF StreamWindow!Package, LifeOf
  <2>3. k \in 1 .. IfBoth(s, spw[s])
    BY <2>1, StreamSeen
  <2> QED
    BY <2>2, <2>3 DEF StreamStep, StreamWindow!Next
<1> QED
  BY <1>2, <1>3

LEMMA StreamReceives ==
  ASSUME IInv, IInv', NEW s \in Streams, Both(s), Both(s)',
         NEW k \in Nat, spw'[s] + k = spw[s] + StreamIncrement, sdw'[s] = sdw[s],
         Count(Line', DataOf(s)) = Count(Line, DataOf(s)) + k,
         Count(back', SendmesTo(s)) + 1 = Count(back, SendmesTo(s)),
         Count(back', SendmesTo(s)) \in Nat
  PROVE  StreamStep(s)
<1>1. spw[s] \in Nat /\ spw'[s] \in Nat
  BY DEF IInv, TypeOK
<1> DEFINE a == Count(back, SendmesTo(s))
           b == Count(back', SendmesTo(s))
<1>2. b + 1 = a /\ b \in Nat
  OBVIOUS
<1> HIDE DEF a, b
<1>3. a > 0 /\ b = a - 1
  BY <1>2
<1>4. k \in 0 .. spw[s] + StreamIncrement /\ spw'[s] = spw[s] + StreamIncrement - k
  <2> DEFINE p == spw[s]
             q == spw'[s]
  <2>1. p \in Nat /\ q \in Nat /\ q + k = p + StreamIncrement
    BY <1>1
  <2> HIDE DEF p, q
  <2>2. k \in 0 .. p + StreamIncrement /\ q = p + StreamIncrement - k
    BY <2>1, Numbers
  <2> QED
    BY <2>2 DEF p, q
<1>5. StreamWindow(s)!ReceiveSendme(k)
  BY <1>3, <1>4, StreamSeen, StreamSeenNext DEF StreamWindow!ReceiveSendme, a, b, LifeOf
<1>6. k \in 0 .. IfBoth(s, spw[s]) + StreamIncrement
  BY <1>4, StreamSeen
<1> QED
  BY <1>5, <1>6 DEF StreamStep, StreamWindow!Next

LEMMA StreamDelivers ==
  ASSUME IInv, IInv', NEW s \in Streams, Both(s), Both(s)', NEW m \in 0 .. StreamStart,
         sdw[s] \in Nat \ {0}, sdw'[s] = sdw[s] - 1 + m * StreamIncrement,
         m > 0 => /\ sdw[s] - 1 + m * StreamIncrement > StreamStart - StreamIncrement
                  /\ sdw[s] - 1 + (m - 1) * StreamIncrement <= StreamStart - StreamIncrement,
         spw'[s] = spw[s], Count(Line', DataOf(s)) \in Nat,
         Count(Line', DataOf(s)) + 1 = Count(Line, DataOf(s)),
         Count(back', SendmesTo(s)) = Count(back, SendmesTo(s)) + m
  PROVE  StreamStep(s)
<1> DEFINE a == Count(Line, DataOf(s))
           b == Count(Line', DataOf(s))
<1>1. b + 1 = a /\ b \in Nat
  OBVIOUS
<1> HIDE DEF a, b
<1>2. a > 0 /\ b = a - 1
  BY <1>1
<1>3. ~(sdw[s] - 1 < 0)
  OBVIOUS
<1>4. \/ StreamWindow(s)!TopUpFrom(IfBoth(s, sdw[s]) - 1)
      \/ /\ IfBoth(s, sdw[s])' = IfBoth(s, sdw[s]) - 1
         /\ IfBoth(s, Count(back, {Cell("SENDME", s)}))' = IfBoth(s, Count(back, {Cell("SENDME", s)}))
  <2>1. CASE m = 0
    <3>1. sdw'[s] = sdw[s] - 1
      <4>1. 0 * StreamIncrement = 0 /\ sdw[s] \in Nat
        BY Numbers
      <4>2. sdw[s] - 1 + 0 = sdw[s] - 1
        BY <4>1
      <4> QED
        BY <2>1, <4>1, <4>2
    <3>2. Count(back', SendmesTo(s)) = Count(back, SendmesTo(s))
      <4>1. Count(back, SendmesTo(s)) \in Nat
        BY LineTyped DEF IInv
      <4> QED
        BY <2>1, <4>1
    <3> QED
      BY <3>1, <3>2, StreamSeen, StreamSeenNext
  <2>2. CASE m # 0
    <3>1. m > 0
      BY <2>2, Numbers
    <3>2. StreamWindow(s)!Rounds(IfBoth(s, sdw[s]) - 1, m)
      BY <3>1, StreamSeen DEF StreamWindow!Rounds
    <3>3. /\ IfBoth(s, sdw[s])' = IfBoth(s, sdw[s]) - 1 + m * StreamIncrement
          /\ IfBoth(s, Count(back, {Cell("SENDME", s)}))'
               = IfBoth(s, Count(back, {Cell("SENDME", s)})) + m
      BY StreamSeen, StreamSeenNext
    <3> QED
      BY <3>2, <3>3 DEF StreamWindow!TopUpFrom
  <2> QED
    BY <2>1, <2>2
<1>5. StreamWindow(s)!Deliver
  <2>1. /\ IfBoth(s, InFlight({Cell("DATA", s)})) > 0
        /\ IfBoth(s, InFlight({Cell("DATA", s)}))' = IfBoth(s, InFlight({Cell("DATA", s)})) - 1
        /\ ~(IfBoth(s, sdw[s]) - 1 < 0)
        /\ IfBoth(s, spw[s])' = IfBoth(s, spw[s])
        /\ LifeOf(s) = "open" /\ LifeOf(s)' = LifeOf(s)
    BY <1>2, <1>3, StreamSeen, StreamSeenNext DEF a, b
  <2> QED
    BY <1>4, <2>1 DEF StreamWindow!Deliver, LifeOf
<1> QED
  BY <1>5 DEF StreamStep, StreamWindow!Next

LEMMA StreamTopsUp ==
  ASSUME IInv, IInv', NEW s \in Streams, Both(s), Both(s)', NEW m \in 0 .. StreamStart,
         sdw'[s] = sdw[s] + m * StreamIncrement,
         m > 0 => /\ sdw[s] + m * StreamIncrement > StreamStart - StreamIncrement
                  /\ sdw[s] + (m - 1) * StreamIncrement <= StreamStart - StreamIncrement,
         spw'[s] = spw[s],
         Count(Line', DataOf(s)) = Count(Line, DataOf(s)),
         Count(back', SendmesTo(s)) = Count(back, SendmesTo(s)) + m
  PROVE  StreamStep(s)
<1>0. sdw[s] \in Nat /\ Count(back, SendmesTo(s)) \in Nat
  BY LineTyped DEF IInv, TypeOK
<1>1. CASE m = 0
  <2>1. sdw'[s] = sdw[s] /\ Count(back', SendmesTo(s)) = Count(back, SendmesTo(s))
    <3>1. 0 * StreamIncrement = 0
      BY Numbers
    <3> QED
      BY <1>0, <1>1, <3>1
  <2> QED
    BY <2>1, StreamStutters
<1>2. CASE m # 0
  <2>1. m > 0 /\ m - 1 \in Nat
    BY <1>2, Numbers
  <2>2. StreamWindow(s)!Rounds(IfBoth(s, sdw[s]), m)
    BY <2>1, StreamSeen DEF StreamWindow!Rounds
  <2>3. sdw[s] <= StreamStart - StreamIncrement
    <3> DEFINE z == (m - 1) * StreamIncrement
               w == sdw[s]
    <3>1. z \in Nat /\ w \in Nat /\ w + z <= StreamStart - StreamIncrement
      <4>1. \A x, y \in Nat : x * y \in Nat
        OBVIOUS
      <4> QED
        BY <1>0, <2>1, <4>1, Numbers
    <3> HIDE DEF z, w
    <3>2. w <= StreamStart - StreamIncrement
      BY <3>1, Numbers
    <3> QED
      BY <3>2 DEF w
  <2>4. /\ IfBoth(s, sdw[s])' = IfBoth(s, sdw[s]) + m * StreamIncrement
        /\ IfBoth(s, Count(back, {Cell("SENDME", s)}))'
             = IfBoth(s, Count(back, {Cell("SENDME", s)})) + m
    BY StreamSeen, StreamSeenNext
  <2>5. StreamWindow(s)!TopUpFrom(IfBoth(s, sdw[s]))
    BY <2>2, <2>4 DEF StreamWindow!TopUpFrom
  <2>6. /\ IfBoth(s, sdw[s]) <= StreamStart - StreamIncrement
        /\ IfBoth(s, InFlight({Cell("DATA", s)}))' = IfBoth(s, InFlight({Cell("DATA", s)}))
        /\ IfBoth(s, spw[s])' = IfBoth(s, spw[s])
        /\ LifeOf(s) = "open" /\ LifeOf(s)' = LifeOf(s)
    BY <2>3, StreamSeen, StreamSeenNext
  <2>7. StreamWindow(s)!TopUp
    BY <2>5, <2>6 DEF StreamWindow!TopUp, LifeOf
  <2> QED
    BY <2>7 DEF StreamStep, StreamWindow!Next
<1> QED
  BY <1>1, <1>2

\* A stream that one of its ends closed stays closed.
LEMMA GoneStaysGone ==
  ASSUME IInv, NEW s \in Streams, Settles \/ \E e, y : Balanced(e, y), Both(s)'
  PROVE  Both(s)
<1>1. TypeOK
  BY DEF IInv
<1>2. CASE Settles
  <2>1. Settled(s)
    BY <1>2 DEF Settles
  <2> QED
    BY <1>1, <2>1 DEF Settled, Both, TypeOK
<1>3. ASSUME NEW e, NEW y, Balanced(e, y) PROVE Both(s)
  BY <1>1, <1>3 DEF Balanced, Both, TypeOK, deliverer
<1> QED
  BY <1>2, <1>3

\* A handler leaves the windows of a stream alone.
LEMMA AloneStep ==
  ASSUME IInv, IInv', NEW s \in Streams, Both(s)' => Both(s),
         spw'[s] = spw[s], sdw'[s] = sdw[s],
         Count(Line', DataOf(s)) = Count(Line, DataOf(s)),
         Count(back', SendmesTo(s)) = Count(back, SendmesTo(s))
  PROVE  StreamStep(s)
<1>1. CASE Both(s) /\ Both(s)'
  BY <1>1, StreamStutters
<1>2. CASE Both(s) /\ ~Both(s)'
  BY <1>2, StreamCloses
<1>3. CASE ~Both(s)
  BY <1>3, StreamStaysGone
<1> QED
  BY <1>1, <1>2, <1>3

\* A handler packages, and puts nothing on the stream's window before.
LEMMA PackagesStep ==
  ASSUME IInv, IInv', NEW s \in Streams, NEW e, NEW x, NEW y, Charged(e, x, y), Balanced(e, y),
         e.spw[s] = spw[s], Count(back', SendmesTo(s)) = Count(back, SendmesTo(s))
  PROVE  StreamStep(s)
<1>1. Both(s)' => Both(s)
  BY GoneStaysGone
<1>2. /\ Count(x, DataOf(s)) \in Nat
      /\ spw'[s] + Count(x, DataOf(s)) = spw[s]
      /\ Count(Line', DataOf(s)) = Count(Line, DataOf(s)) + Count(x, DataOf(s))
  BY DEF Charged
<1>3. sdw'[s] = sdw[s]
  BY DEF Balanced, deliverer
<1>4. CASE Both(s) /\ Both(s)'
  BY <1>2, <1>3, <1>4, StreamPackages
<1>5. CASE Both(s) /\ ~Both(s)'
  BY <1>5, StreamCloses
<1>6. CASE ~Both(s)
  BY <1>1, <1>6, StreamStaysGone
<1> QED
  BY <1>4, <1>5, <1>6

LEMMA DataStep ==
  ASSUME IInv, IInv', UNCHANGED side, NEW t \in Streams, Data(t), NEW s \in Streams
  PROVE  StreamStep(s)
<1>0. TypeOK
  BY DEF IInv
<1>1. PICK m \in Nat, n \in Nat : DataTaken(t, m, n)
  BY DataTakes
<1>2. /\ NextForward("DATA") /\ Head(wire).stream = t /\ wire' = Tail(wire)
      /\ back' = (back \o Sendmes(Circuit, m)) \o Sendmes(t, n)
      /\ UNCHANGED <<queue, spw, pstream, dstream>>
  BY <1>1 DEF Data, DataTaken, packager
<1>3. /\ Count(Line', DataOf(s)) \in Nat
      /\ t = s => Count(Line', DataOf(s)) + 1 = Count(Line, DataOf(s))
      /\ t # s => Count(Line', DataOf(s)) = Count(Line, DataOf(s))
  <2>1. "DATA" \in {"DATA", "END"}
    OBVIOUS
  <2> QED
    BY <1>0, <1>2, <2>1, TakesLineCount
<1>4. /\ s = t => Count(back', SendmesTo(s)) = Count(back, SendmesTo(s)) + n
      /\ s # t => Count(back', SendmesTo(s)) = Count(back, SendmesTo(s))
  <2>1. Count(back', SendmesTo(s)) = Count(back, SendmesTo(s)) + (IF s = t THEN n ELSE 0)
    BY <1>0, <1>2, DataWay
  <2>2. Count(back, SendmesTo(s)) \in Nat
    BY <1>0, LineTyped
  <2> QED
    BY <2>1, <2>2
<1>5. Both(s)' = Both(s) /\ spw'[s] = spw[s]
  BY <1>2 DEF Both
<1>6. CASE s # t
  <2>1. sdw'[s] = sdw[s]
    <3>1. CASE dstream[t] = "hungup"
      BY <1>1, <3>1 DEF DataTaken
    <3>2. CASE dstream[t] # "hungup"
      BY <1>0, <1>1, <1>6, <3>2 DEF DataTaken, TypeOK
    <3> QED
      BY <3>1, <3>2
  <2> QED
    BY <1>3, <1>4, <1>5, <1>6, <2>1, AloneStep
<1>7. CASE s = t /\ ~Both(s)
  BY <1>5, <1>7, StreamStaysGone
<1>8. CASE s = t /\ Both(s)
  <2>1. dstream[s] # "hungup"
    BY <1>8 DEF Both
  <2>2. /\ n \in 0 .. StreamStart /\ sdw[s] \in Nat \ {0}
        /\ sdw' = [sdw EXCEPT ![s] = sdw[s] - 1 + n * StreamIncrement]
        /\ n > 0 =>
             /\ sdw[s] - 1 + n * StreamIncrement > StreamStart - StreamIncrement
             /\ sdw[s] - 1 + (n - 1) * StreamIncrement <= StreamStart - StreamIncrement
    BY <1>1, <1>8, <2>1 DEF DataTaken
  <2>3. sdw'[s] = sdw[s] - 1 + n * StreamIncrement
    BY <1>0, <2>2 DEF TypeOK
  <2> QED
    BY <1>3, <1>4, <1>5, <1>8, <2>2, <2>3, StreamDelivers
<1> QED
  BY <1>6, <1>7, <1>8

LEMMA DrainStep ==
  ASSUME IInv, IInv', UNCHANGED side, NEW t \in Streams, Drain(t), NEW s \in Streams
  PROVE  StreamStep(s)
<1>0. TypeOK
  BY DEF IInv
<1>1. PICK n \in Nat : Drained(t, n)
  BY DrainTops
<1>2. Count(Line', DataOf(s)) = Count(Line, DataOf(s)) /\ spw' = spw
  BY <1>1, DrainSteady DEF Steady
<1>3. /\ s = t => Count(back', SendmesTo(s)) = Count(back, SendmesTo(s)) + n
      /\ s # t => Count(back', SendmesTo(s)) = Count(back, SendmesTo(s))
  <2>1. Count(back', SendmesTo(s)) = Count(back, SendmesTo(s)) + (IF s = t THEN n ELSE 0)
    BY <1>1, DrainSteady
  <2>2. Count(back, SendmesTo(s)) \in Nat
    BY <1>0, LineTyped
  <2> QED
    BY <2>1, <2>2
<1>4. Both(s)' = Both(s)
  BY <1>1 DEF Both, Drained, packager
<1>5. /\ n \in 0 .. StreamStart
      /\ sdw' = [sdw EXCEPT ![t] = sdw[t] + n * StreamIncrement]
      /\ n > 0 => /\ sdw[t] + n * StreamIncrement > StreamStart - StreamIncrement
                  /\ sdw[t] + (n - 1) * StreamIncrement <= StreamStart - StreamIncrement
  BY <1>1 DEF Drained
<1>6. CASE s # t
  <2>1. sdw'[s] = sdw[s]
    BY <1>0, <1>5, <1>6 DEF TypeOK
  <2> QED
    BY <1>2, <1>3, <1>4, <1>6, <2>1, AloneStep
<1>7. CASE s = t /\ ~Both(s)
  BY <1>4, <1>7, StreamStaysGone
<1>8. CASE s = t /\ Both(s)
  <2>1. sdw'[s] = sdw[s] + n * StreamIncrement
    BY <1>0, <1>5, <1>8 DEF TypeOK
  <2> QED
    BY <1>2, <1>3, <1>4, <1>5, <1>8, <2>1, StreamTopsUp
<1> QED
  BY <1>6, <1>7, <1>8

\* A SENDME of the stream itself.
LEMMA StreamSendmeStep ==
  ASSUME IInv, IInv', UNCHANGED side, NEW t \in Streams, NEW idle \in CanBeIdle, StreamSendme(t, idle),
         NEW s \in Streams \ Library
  PROVE  StreamStep(s)
<1>0. TypeOK /\ StreamAccount(s)
  BY DEF IInv
<1>1. PICK e \in GoodEdges, x \in Seq(OpenData) :
        Charged(e, x, <<>>) /\ StreamSendmeBase(t, e) /\ Balanced(e, <<>>)
  BY StreamSendmePacks
<1>2. NextBack("SENDME") /\ Head(back).stream = t /\ TakeBack /\ pstream' = pstream /\ dstream' = dstream
  BY DEF StreamSendme, deliverer
<1>3. /\ Count(back', SendmesTo(s)) \in Nat
      /\ s = t => Count(back', SendmesTo(s)) + 1 = Count(back, SendmesTo(s))
      /\ s # t => Count(back', SendmesTo(s)) = Count(back, SendmesTo(s))
  <2>1. "SENDME" \in {"DATA", "END", "SENDME"}
    OBVIOUS
  <2>2. /\ Count(back', SendmesTo(s)) \in Nat
        /\ Count(back, SendmesTo(s)) = Count(back', SendmesTo(s)) + (IF s = t THEN 1 ELSE 0)
    BY <1>0, <1>2, <2>1, TakesCount
  <2> QED
    BY <2>2
<1>4. CASE s # t
  <2>1. e.spw[s] = spw[s]
    BY <1>0, <1>1, <1>4 DEF StreamSendmeBase, TypeOK
  <2> QED
    BY <1>1, <1>3, <1>4, <2>1, PackagesStep
<1>5. Both(s)' = Both(s)
  BY <1>2 DEF Both
<1>6. CASE s = t /\ ~Both(s)
  BY <1>5, <1>6, StreamStaysGone
<1>7. CASE s = t /\ Both(s)
  <2>1. pstream[s] # "new"
    <3>1. spw[s] + StreamIncrement <= StreamStart
      BY <1>2, <1>7, SendmeRoom
    <3>2. spw[s] # StreamStart
      BY <3>1, Numbers
    <3> QED
      BY <1>0, <3>2 DEF StreamAccount
  <2>2. pstream[s] = "open"
    BY <1>0, <1>7, <2>1 DEF Both, TypeOK
  <2>3. e.spw[s] = spw[s] + StreamIncrement
    BY <1>0, <1>1, <1>7, <2>2 DEF StreamSendmeBase, TypeOK
  <2>4. /\ Count(x, DataOf(s)) \in Nat
        /\ spw'[s] + Count(x, DataOf(s)) = spw[s] + StreamIncrement
        /\ Count(Line', DataOf(s)) = Count(Line, DataOf(s)) + Count(x, DataOf(s))
    BY <1>1, <2>3 DEF Charged
  <2>5. sdw'[s] = sdw[s]
    BY <1>1 DEF Balanced, deliverer
  <2> QED
    BY <1>3, <1>5, <1>7, <2>4, <2>5, StreamReceives
<1> QED
  BY <1>4, <1>6, <1>7

LEMMA CircuitSendmeStep ==
  ASSUME IInv, IInv', UNCHANGED side, NEW idle \in CanBeIdle, CircuitSendme(idle), NEW s \in Streams
  PROVE  StreamStep(s)
<1>1. PICK e \in GoodEdges, x \in Seq(OpenData) :
        /\ Charged(e, x, <<>>) /\ Balanced(e, <<>>)
        /\ e = [Now(idle) EXCEPT !.pw = @ + CircIncrement]
        /\ ~(pw + CircIncrement > CircStart)
  BY CircuitSendmePacks
<1>2. e.spw = spw
  BY <1>1 DEF Now
<1>3. NextBack("SENDME") /\ Head(back).stream = Circuit /\ TakeBack /\ s # Circuit /\ TypeOK
  BY <1>1, FlowAssumption DEF CircuitSendme, IInv
<1>4. Count(back', SendmesTo(s)) = Count(back, SendmesTo(s))
  <2>1. "SENDME" \in {"DATA", "END", "SENDME"}
    OBVIOUS
  <2>2. /\ Count(back', SendmesTo(s)) \in Nat
        /\ Count(back, SendmesTo(s)) = Count(back', SendmesTo(s)) + 0
    BY <1>3, <2>1, TakesCount
  <2> QED
    BY <2>2
<1> QED
  BY <1>1, <1>2, <1>4, PackagesStep

\* Every handler is a step of the window of every stream, or leaves it alone.
LEMMA StreamSteps ==
  ASSUME IInv, IInv', Next, NEW s \in Streams \ Library
  PROVE  StreamStep(s)
<1>0. UNCHANGED side /\ Handled
  BY NextIsHandled
<1>1. ASSUME Settles, Steady, sdw' = sdw, Count(back', SendmesTo(s)) = Count(back, SendmesTo(s))
      PROVE  StreamStep(s)
  <2>1. /\ spw'[s] = spw[s] /\ sdw'[s] = sdw[s]
        /\ Count(Line', DataOf(s)) = Count(Line, DataOf(s))
    BY <1>1 DEF Steady
  <2>2. Both(s)' => Both(s)
    BY <1>1, GoneStaysGone
  <2> QED
    BY <1>1, <2>1, <2>2, AloneStep
<1>2. ASSUME Flush PROVE StreamStep(s)
  BY <1>0, <1>1, <1>2, LineSteady, FlushSettles
<1>3. ASSUME NEW t \in Streams, Open(t) PROVE StreamStep(s)
  BY <1>0, <1>1, <1>3, LineSteady, OpenSettles
<1>4. ASSUME NEW t \in Streams, Connected(t) PROVE StreamStep(s)
  BY <1>0, <1>1, <1>4, LineSteady, ConnectedSettles
<1>5. ASSUME NEW t \in Streams, End(t) PROVE StreamStep(s)
  BY <1>0, <1>1, <1>5, EndSteady, EndSettles
<1>6. ASSUME NEW t \in Streams, StreamEnd(t) PROVE StreamStep(s)
  BY <1>0, <1>1, <1>6, StreamEndSteady, StreamEndSettles
<1>7. ASSUME NEW t \in Streams, Hangup(t) PROVE StreamStep(s)
  BY <1>0, <1>1, <1>7, HangupSteady, HangupSettles
<1>8. ASSUME NEW t \in Streams, Data(t) PROVE StreamStep(s)
  BY <1>0, <1>8, DataStep
<1>9. ASSUME NEW t \in Streams, Drain(t) PROVE StreamStep(s)
  BY <1>0, <1>9, DrainStep
<1>10. ASSUME NEW idle \in CanBeIdle, CircuitSendme(idle) PROVE StreamStep(s)
  BY <1>0, <1>10, CircuitSendmeStep
<1>11. ASSUME NEW t \in Streams, NEW idle \in CanBeIdle, StreamSendme(t, idle) PROVE StreamStep(s)
  BY <1>0, <1>11, StreamSendmeStep
<1>12. ASSUME NEW t \in Streams, NEW idle \in CanBeIdle, NEW k \in 1 .. supply[t], Write(t, k, idle)
       PROVE StreamStep(s)
  <2>1. PICK e \in GoodEdges, x \in Seq(OpenData) :
          Charged(e, x, <<>>) /\ ReadBase(t, k, e) /\ Balanced(e, <<>>)
    BY <1>0, <1>12, WritePacks
  <2>2. back' = back
    BY <1>12 DEF Write
  <2> QED
    BY <2>1, <2>2, PackagesStep DEF ReadBase
<1>13. ASSUME NEW t \in Streams, NEW idle \in CanBeIdle, NEW k \in 0 .. supply[t], NEW eof \in BOOLEAN,
              Read(t, k, eof, idle)
       PROVE StreamStep(s)
  <2>1. PICK e \in GoodEdges, x \in Seq(OpenData), y \in Seq(Cells) :
          Charged(e, x, y) /\ ReadBase(t, k, e) /\ Balanced(e, y)
    BY <1>0, <1>13, ReadPacks
  <2>2. back' = back
    BY <1>13 DEF Read
  <2> QED
    BY <2>1, <2>2, PackagesStep DEF ReadBase
<1> QED
  BY <1>0, <1>2, <1>3, <1>4, <1>5, <1>6, <1>7, <1>8, <1>9, <1>10, <1>11, <1>12, <1>13 DEF Handled

\* So are the windows of every stream, from its first cell to the END that closes it.
THEOREM StreamWindowsImplemented == Spec => ImplementsStreamWindows
<1>1. Init => \A s \in Streams : s \in Library \/ StreamWindow(s)!Init
  BY StreamInit
<1>2. IInv /\ IInv' /\ [Next]_vars =>
        [\A s \in Streams : s \in Library \/ [StreamWindow(s)!Next]_(StreamWindow(s)!vars)]_vars
  <2> SUFFICES ASSUME IInv, IInv', Next, NEW s \in Streams \ Library
               PROVE  StreamStep(s)
    BY DEF StreamStep
  <2> QED
    BY StreamSteps
<1> QED
  BY <1>1, <1>2, AlwaysIInv, PTL DEF Spec, ImplementsStreamWindows

\* relay.c implements the abstract window protocol at both levels at once.
THEOREM WindowsImplemented == Spec => ImplementsWindows
BY CircuitWindowImplemented, StreamWindowsImplemented DEF ImplementsWindows

-----------------------------------------------------------------------------
\* The instance uses the same library operators.
LEMMA SameLibrary ==
  /\ \A s : R!ToSet(s) = ToSet(s)
  /\ \A s, e : R!RemoveFirst(s, e) = RemoveFirst(s, e)
  /\ \A S : R!Cardinality(S) = Cardinality(S)
<1>1. \A s : R!ToSet(s) = ToSet(s)
  BY DEF R!ToSet, ToSet
<1>2. \A s, e : R!RemoveFirst(s, e) = RemoveFirst(s, e)
  BY DEF R!RemoveFirst, RemoveFirst, R!RemoveAt, RemoveAt, R!SelectInSeq, SelectInSeq,
         R!Min, Min
<1>3. \A S : R!Cardinality(S) = Cardinality(S)
  BY DEF R!Cardinality, Cardinality
<1> QED
  BY <1>1, <1>2, <1>3

-----------------------------------------------------------------------------
(* ResolveCache: its inductive invariant. *)

Entries == [st : {"none", "pending", "valid", "failed"}, due : BOOLEAN, pend : Seq(R!Conns)]
ConnRecs ==
  [st : {"unused", "failed", "resolving", "handed", "freed"},
   for : {"connect", "resolve"}, name : Names \cup {Nil}, on : Circs \cup {Nil},
   marked : BOOLEAN, ended : BOOLEAN, told : Nat]
Worlds == [cache : [Names -> Entries], conn : [R!Conns -> ConnRecs], sound : BOOLEAN]

\* A connection that waits on no list, and one that waits for n.
Done(e) ==
  /\ e \in ConnRecs /\ e.st # "resolving" /\ e.told <= 1
  /\ e.marked => e.ended /\ e.name \in Names
  /\ e.on # Nil => e.name \in Names
Waiter(e, n) ==
  /\ e \in ConnRecs /\ e.st = "resolving" /\ e.name = n /\ e.told = 0
  /\ e.marked => e.ended
  /\ ~e.marked => ~e.ended /\ e.on # Nil

Good(w) ==
  /\ w \in Worlds /\ w.sound
  /\ \A n \in Names :
       /\ IsInjective(w.cache[n].pend)
       /\ w.cache[n].pend # <<>> => w.cache[n].st = "pending"
       /\ \A s \in R!Waiting(w, n) : Waiter(w.conn[s], n)
  /\ \A s \in R!Conns : Done(w.conn[s]) \/ \E n \in Names : s \in R!Waiting(w, n)

CacheInv ==
  /\ Good(R!World)
  /\ open \in SUBSET Circs /\ asked \in [Names -> 0 .. MaxAsked]
-----------------------------------------------------------------------------
(* Connections. *)

\* What was told once is all that is kept of a connection that is gone.
LEMMA ToldOnce ==
  ASSUME NEW e \in ConnRecs, e.told = 0
  PROVE  /\ Done(R!Ended(e)) /\ Done(R!Gone(R!Tell(e)))
         /\ Done([R!Gone(R!Tell(e)) EXCEPT !.st = "handed"])
<1>1. /\ R!Tell(e) \in ConnRecs /\ R!Tell(e).told <= 1
      /\ R!EdgeEnd(e) \in ConnRecs /\ R!EdgeEnd(e).told <= 1
  <2>. DEFINE t == IF e.on \in open THEN 1 ELSE 0
  <2>1. t \in Nat /\ t <= 1 /\ R!Tell(e) = [e EXCEPT !.told = t]
    BY DEF R!Tell
  <2>. HIDE DEF t
  <2>2. R!Tell(e) \in ConnRecs /\ R!Tell(e).told = t
    BY <2>1 DEF ConnRecs
  <2>3. R!EdgeEnd(e) \in ConnRecs /\ R!EdgeEnd(e).told = t
    BY <2>2 DEF ConnRecs, R!EdgeEnd
  <2> QED
    BY <2>1, <2>2, <2>3
<1>2. ASSUME NEW d \in ConnRecs, d.told <= 1
      PROVE  Done(R!Gone(d)) /\ Done([R!Gone(d) EXCEPT !.st = "handed"])
  BY <1>2 DEF R!Gone, R!NoConn, Done, ConnRecs
<1> QED
  BY <1>1, <1>2 DEF R!Ended

LEMMA ForgottenDone ==
  ASSUME NEW n \in Names, NEW e, Waiter(e, n), e.marked
  PROVE  Done(R!Failed(e))
BY DEF Waiter, R!Failed, Done, ConnRecs

\* The end of a connection that is told nothing more.
LEMMA GoneDone ==
  ASSUME NEW e \in ConnRecs, e.told <= 1
  PROVE  Done(R!Gone(e))
BY DEF R!Gone, R!NoConn, Done, ConnRecs
-----------------------------------------------------------------------------
(* Worlds. *)

LEMMA WorldParts ==
  ASSUME NEW w \in Worlds
  PROVE  /\ w = [cache |-> w.cache, conn |-> w.conn, sound |-> w.sound]
         /\ w.cache \in [Names -> Entries] /\ w.conn \in [R!Conns -> ConnRecs]
         /\ w.sound \in BOOLEAN
         /\ \A n \in Names : /\ w.cache[n].pend \in Seq(R!Conns)
                             /\ R!Waiting(w, n) \subseteq R!Conns
                             /\ R!Waiting(w, n) = {} <=> w.cache[n].pend = <<>>
<1>1. /\ w.cache \in [Names -> Entries] /\ w.conn \in [R!Conns -> ConnRecs]
      /\ w.sound \in BOOLEAN
      /\ w = [cache |-> w.cache, conn |-> w.conn, sound |-> w.sound]
  BY DEF Worlds
<1>2. \A n \in Names : w.cache[n].pend \in Seq(R!Conns)
  BY <1>1 DEF Entries
<1>3. ASSUME NEW n \in Names
      PROVE  ToSet(w.cache[n].pend) \subseteq R!Conns
               /\ (ToSet(w.cache[n].pend) = {} <=> w.cache[n].pend = <<>>)
  BY <1>2, ToSetProperties
<1> QED
  BY <1>1, <1>2, <1>3, SameLibrary DEF R!Waiting

\* Nobody waits on two lists.
LEMMA ListsApart ==
  ASSUME NEW w, Good(w), NEW n \in Names, NEW m \in Names, NEW s \in R!Waiting(w, n), s \in R!Waiting(w, m)
  PROVE  n = m
BY DEF Good, Waiter

\* The entries D are taken out with their lists, and the connections X are
\* through with waiting.
Cleared(w, u, D, X) ==
  /\ u \in Worlds /\ u.sound /\ D \subseteq Names /\ X \subseteq R!Conns
  /\ \A n \in D : u.cache[n].pend = <<>> /\ R!Waiting(w, n) \subseteq X
  /\ \A n \in Names \ D : u.cache[n] = w.cache[n] /\ R!Waiting(w, n) \cap X = {}
  /\ \A s \in X : Done(u.conn[s])
  /\ \A s \in R!Conns \ X : u.conn[s] = w.conn[s]

LEMMA ClearedGood ==
  ASSUME NEW w, Good(w), NEW u, NEW D, NEW X, Cleared(w, u, D, X)
  PROVE  Good(u)
<1>. USE DEF Cleared
<1>1. ASSUME NEW n \in Names
      PROVE  /\ IsInjective(u.cache[n].pend)
             /\ u.cache[n].pend # <<>> => u.cache[n].st = "pending"
             /\ \A s \in R!Waiting(u, n) : Waiter(u.conn[s], n)
  <2>1. CASE n \in D
    <3>1. u.cache[n].pend = <<>>
      BY <2>1
    <3> QED
      BY <3>1, EmptyList, SameLibrary DEF R!Waiting
  <2>2. CASE n \notin D
    <3>1. u.cache[n] = w.cache[n] /\ R!Waiting(w, n) \cap X = {}
      BY <2>2
    <3>2. R!Waiting(u, n) = R!Waiting(w, n) /\ R!Waiting(w, n) \subseteq R!Conns
      BY <3>1, WorldParts DEF R!Waiting, Good
    <3> QED
      BY <3>1, <3>2 DEF Good
  <2> QED
    BY <2>1, <2>2
<1>2. ASSUME NEW s \in R!Conns
      PROVE  Done(u.conn[s]) \/ \E n \in Names : s \in R!Waiting(u, n)
  <2>1. CASE s \in X
    BY <2>1
  <2>2. CASE s \notin X
    <3>1. u.conn[s] = w.conn[s]
      BY <2>2
    <3>2. ASSUME NEW n \in Names, s \in R!Waiting(w, n) PROVE s \in R!Waiting(u, n)
      BY <2>2, <3>2 DEF R!Waiting
    <3> QED
      BY <3>1, <3>2 DEF Good
  <2> QED
    BY <2>1, <2>2
<1> QED
  BY <1>1, <1>2 DEF Good

\* What a step leaves of the lists, and of the connections that are on none.
Shrinks(u, w) ==
  /\ \A n \in Names : R!Waiting(u, n) \subseteq R!Waiting(w, n)
  /\ \A s \in R!Conns : (\A n \in Names : s \notin R!Waiting(w, n)) => u.conn[s] = w.conn[s]

LEMMA ClearedShrinks ==
  ASSUME NEW w, Good(w), NEW u, NEW D, NEW X, Cleared(w, u, D, X),
         \A s \in X : \E n \in Names : s \in R!Waiting(w, n)
  PROVE  Shrinks(u, w)
<1>1. ASSUME NEW n \in Names PROVE R!Waiting(u, n) \subseteq R!Waiting(w, n)
  BY EmptyList, SameLibrary DEF Cleared, R!Waiting
<1>2. ASSUME NEW s \in R!Conns, \A n \in Names : s \notin R!Waiting(w, n)
      PROVE  u.conn[s] = w.conn[s]
  BY <1>2 DEF Cleared
<1> QED
  BY <1>1, <1>2 DEF Shrinks

\* One connection that is on no list is changed.
LEMMA ConnGood ==
  ASSUME NEW w, Good(w), NEW s \in R!Conns, \A n \in Names : s \notin R!Waiting(w, n),
         NEW e, Done(e)
  PROVE  /\ Good([w EXCEPT !.conn[s] = e])
         /\ [w EXCEPT !.conn[s] = e].conn[s] = e
         /\ [w EXCEPT !.conn[s] = e].cache = w.cache
<1>. DEFINE c == [w.conn EXCEPT ![s] = e]
            u == [w EXCEPT !.conn = c]
<1>1. [w EXCEPT !.conn[s] = e] = u
  OBVIOUS
<1>2. w \in Worlds /\ w.conn \in [R!Conns -> ConnRecs] /\ e \in ConnRecs
  BY DEF Good, Worlds, Done
<1>3. c \in [R!Conns -> ConnRecs] /\ c[s] = e /\ \A t \in R!Conns \ {s} : c[t] = w.conn[t]
  BY <1>2
<1>. HIDE DEF c
<1>4. u \in Worlds /\ u.cache = w.cache /\ u.conn = c /\ u.sound = w.sound
  BY <1>2, <1>3 DEF Worlds
<1>. HIDE DEF u
<1>5. Cleared(w, u, {}, {s})
  BY <1>3, <1>4 DEF Cleared, Good
<1>6. Good(u)
  BY <1>5, ClearedGood
<1> QED
  BY <1>1, <1>3, <1>4, <1>6
\* A new cache for a world, and an assertion that holds.
LEMMA WithCache ==
  ASSUME NEW w \in Worlds, w.sound, NEW k \in [Names -> Entries], NEW p, p = TRUE
  PROVE  /\ [w EXCEPT !.cache = k] \in Worlds
         /\ [w EXCEPT !.cache = k].cache = k
         /\ [w EXCEPT !.cache = k].conn = w.conn
         /\ [w EXCEPT !.cache = k].sound
         /\ R!Check([w EXCEPT !.cache = k], p) = [w EXCEPT !.cache = k]
BY DEF Worlds, R!Check

LEMMA NoEntryFree == R!NoEntry \in Entries /\ R!NoEntry.pend = <<>> /\ R!NoEntry.st = "none"
BY DEF R!NoEntry, Entries

\* purge_expired_resolves, when nobody marked waits on a list that is due.
LEMMA PurgedGood ==
  ASSUME NEW w, Good(w),
         \A n \in Names : w.cache[n].due => \A s \in R!Waiting(w, n) : ~w.conn[s].marked
  PROVE  Good(R!Purged(w)) /\ Shrinks(R!Purged(w), w)
<1>. DEFINE D == {n \in Names : w.cache[n].due}
            X == UNION {R!Waiting(w, n) : n \in D}
            live == {s \in X : ~w.conn[s].marked}
            c == [s \in R!Conns |-> IF s \in live THEN R!Ended(w.conn[s])
                                  ELSE IF s \in X THEN R!Kept(w.conn[s]) ELSE w.conn[s]]
            p == \A s \in live : ~w.conn[s].ended
            v == R!Check([w EXCEPT !.conn = c], p)
            k == [n \in Names |-> IF n \in D THEN R!NoEntry ELSE v.cache[n]]
            q == \A n \in D : w.cache[n].st = "pending" \/ w.cache[n].pend = <<>>
            u == [v EXCEPT !.cache = k]
<1>1. R!Purged(w) = R!Check(u, q)
  BY DEF R!Purged, R!Each
<1>2. w \in Worlds /\ w.sound
  BY DEF Good
<1>3. /\ w.cache \in [Names -> Entries] /\ w.conn \in [R!Conns -> ConnRecs]
      /\ \A n \in Names : R!Waiting(w, n) \subseteq R!Conns
  BY <1>2, WorldParts
<1>4. X \subseteq R!Conns /\ \A n \in D : R!Waiting(w, n) \subseteq X
  BY <1>3
<1>5. ASSUME NEW s \in X
      PROVE  s \in live /\ ~w.conn[s].ended /\ Done(R!Ended(w.conn[s]))
  <2>1. PICK n \in D : s \in R!Waiting(w, n)
    BY <1>5
  <2>2. Waiter(w.conn[s], n) /\ ~w.conn[s].marked
    BY <2>1 DEF Good
  <2>3. w.conn[s] \in ConnRecs /\ w.conn[s].told = 0 /\ ~w.conn[s].ended
    BY <2>2 DEF Waiter
  <2> QED
    BY <2>2, <2>3, ToldOnce
<1>6. live = X /\ p = TRUE
  BY <1>5
<1>7. q = TRUE
  BY DEF Good
<1>8. \A n \in Names \ D : R!Waiting(w, n) \cap X = {}
  BY ListsApart
<1>. HIDE DEF D, X
<1>9. /\ c \in [R!Conns -> ConnRecs]
      /\ \A s \in X : Done(c[s])
      /\ \A s \in R!Conns \ X : c[s] = w.conn[s]
  <2>1. c = [s \in R!Conns |-> IF s \in X THEN R!Ended(w.conn[s]) ELSE w.conn[s]]
    BY <1>6
  <2>2. \A s \in X : R!Ended(w.conn[s]) \in ConnRecs
    BY <1>5 DEF Done
  <2>. HIDE DEF c
  <2> QED
    BY <1>3, <1>4, <1>5, <2>1, <2>2
<1>. HIDE DEF c, p, live, q
<1>10. v \in Worlds /\ v.cache = w.cache /\ v.conn = c /\ v.sound
  BY <1>2, <1>6, <1>9 DEF Worlds, R!Check
<1>. HIDE DEF v
<1>11. k \in [Names -> Entries]
  BY <1>3, <1>10, NoEntryFree
<1>12. \A n \in D : n \in Names /\ k[n].pend = <<>>
  BY NoEntryFree DEF D
<1>13. \A n \in Names \ D : k[n] = w.cache[n]
  BY <1>10
<1>. HIDE DEF k
<1>14. u \in Worlds /\ u.cache = k /\ u.conn = c /\ u.sound /\ R!Check(u, q) = u
  BY <1>7, <1>10, <1>11, WithCache
<1>. HIDE DEF u
<1>15. Cleared(w, u, D, X)
  BY <1>4, <1>8, <1>9, <1>12, <1>13, <1>14 DEF Cleared
<1>16. \A s \in X : \E n \in Names : s \in R!Waiting(w, n)
  BY DEF X, D
<1>17. Good(u) /\ Shrinks(u, w)
  BY <1>15, <1>16, ClearedGood, ClearedShrinks
<1> QED
  BY <1>1, <1>14, <1>17

\* dns_cancel_pending_resolve.
LEMMA CancelledGood ==
  ASSUME NEW w, Good(w), NEW n \in Names
  PROVE  Good(R!Cancelled(w, n)) /\ Shrinks(R!Cancelled(w, n), w)
<1>1. CASE w.cache[n].st # "pending" \/ w.cache[n].pend = <<>>
  <2>1. R!Cancelled(w, n) = w
    BY <1>1 DEF R!Cancelled
  <2> QED
    BY <2>1 DEF Shrinks
<1>2. CASE ~(w.cache[n].st # "pending" \/ w.cache[n].pend = <<>>)
  <2>. DEFINE X == R!Waiting(w, n)
              live == {s \in X : ~w.conn[s].marked}
              c == [s \in R!Conns |-> IF s \in live THEN R!Ended(w.conn[s])
                                    ELSE IF s \in X THEN R!Failed(w.conn[s]) ELSE w.conn[s]]
              p == \A s \in live : ~w.conn[s].ended
              v == R!Check([w EXCEPT !.conn = c], p)
              k == [v.cache EXCEPT ![n] = R!NoEntry]
              u == [v EXCEPT !.cache = k]
  <2>1. R!Cancelled(w, n) = u
    BY <1>2 DEF R!Cancelled, R!Each
  <2>2. w \in Worlds /\ w.sound
    BY DEF Good
  <2>3. /\ w.cache \in [Names -> Entries] /\ w.conn \in [R!Conns -> ConnRecs]
        /\ X \subseteq R!Conns
    BY <2>2, WorldParts
  <2>4. ASSUME NEW s \in live
        PROVE  ~w.conn[s].ended /\ Done(R!Ended(w.conn[s]))
    <3>1. Waiter(w.conn[s], n) /\ ~w.conn[s].marked
      BY <2>4 DEF Good
    <3>2. w.conn[s] \in ConnRecs /\ w.conn[s].told = 0 /\ ~w.conn[s].ended
      BY <3>1 DEF Waiter
    <3> QED
      BY <3>2, ToldOnce
  <2>5. p = TRUE
    BY <2>4
  <2>6. ASSUME NEW s \in X, s \notin live PROVE Done(R!Failed(w.conn[s]))
    <3>1. Waiter(w.conn[s], n) /\ w.conn[s].marked
      BY <2>6 DEF Good
    <3> QED
      BY <3>1, ForgottenDone
  <2>7. \A m \in Names \ {n} : R!Waiting(w, m) \cap X = {}
    BY ListsApart
  <2>8. live \subseteq X
    OBVIOUS
  <2>. HIDE DEF live, X
  <2>9. c \in [R!Conns -> ConnRecs] /\ \A s \in X : Done(c[s])
    BY <2>3, <2>4, <2>6, <2>8 DEF Done
  <2>10. \A s \in R!Conns \ X : c[s] = w.conn[s]
    BY <2>8
  <2>. HIDE DEF c, p
  <2>11. v \in Worlds /\ v.cache = w.cache /\ v.conn = c /\ v.sound
    BY <2>2, <2>5, <2>9 DEF Worlds, R!Check
  <2>. HIDE DEF v
  <2>12. k \in [Names -> Entries] /\ k[n] = R!NoEntry /\ \A m \in Names \ {n} : k[m] = w.cache[m]
    BY <2>3, <2>11, NoEntryFree
  <2>. HIDE DEF k
  <2>13. u \in Worlds /\ u.cache = k /\ u.conn = c /\ u.sound
    BY <2>11, <2>12 DEF Worlds
  <2>. HIDE DEF u
  <2>14. Cleared(w, u, {n}, X)
    BY <2>3, <2>7, <2>9, <2>10, <2>12, <2>13, NoEntryFree DEF Cleared, X
  <2>15. \A s \in X : \E m \in Names : s \in R!Waiting(w, m)
    BY DEF X
  <2> QED
    BY <2>1, <2>14, <2>15, ClearedGood, ClearedShrinks
<1> QED
  BY <1>1, <1>2

\* A lookup refused for a connection that is on no list.
LEMMA RefuseGood ==
  ASSUME NEW w, Good(w), NEW n \in Names, NEW s \in R!Conns,
         \A m \in Names : s \notin R!Waiting(w, m),
         w.conn[s].told = 0, w.conn[s].name \in Names
  PROVE  Good(R!Refuse(w, s, n))
<1>. DEFINE d == [R!Tell(w.conn[s]) EXCEPT !.on = Nil]
            v == [w EXCEPT !.conn[s] = d]
            u == R!Cancelled(v, n)
            e == R!Gone(u.conn[s])
<1>1. Done(w.conn[s]) /\ w.conn[s] \in ConnRecs
  BY DEF Good, Done
<1>2. Done(d)
  <2>. DEFINE t == IF w.conn[s].on \in open THEN 1 ELSE 0
  <2>1. t \in Nat /\ t <= 1 /\ R!Tell(w.conn[s]) = [w.conn[s] EXCEPT !.told = t]
    BY DEF R!Tell
  <2>. HIDE DEF t
  <2> QED
    BY <1>1, <2>1 DEF Done, ConnRecs
<1>. HIDE DEF d
<1>3. Good(v) /\ v.conn[s] = d /\ v.cache = w.cache
  BY <1>2, ConnGood
<1>4. \A m \in Names : s \notin R!Waiting(v, m)
  BY <1>3 DEF R!Waiting
<1>. HIDE DEF v
<1>5. Good(u) /\ Shrinks(u, v)
  BY <1>3, CancelledGood
<1>6. u.conn[s] = d /\ \A m \in Names : s \notin R!Waiting(u, m)
  BY <1>3, <1>4, <1>5 DEF Shrinks
<1>. HIDE DEF u
<1>7. Done(e)
  BY <1>2, <1>6, GoneDone DEF Done
<1>8. R!Refuse(w, s, n) = [u EXCEPT !.conn[s] = e]
  BY DEF R!Refuse, u, v, d
<1>. HIDE DEF e
<1> QED
  BY <1>5, <1>6, <1>7, <1>8, ConnGood

\* An answer at once.
LEMMA FoundGood ==
  ASSUME NEW w, Good(w), NEW s \in R!Conns, \A n \in Names : s \notin R!Waiting(w, n),
         w.conn[s].told = 0, NEW u \in R!Found(w, s)
  PROVE  Good(u)
<1>1. w.conn[s] \in ConnRecs
  BY DEF Good, Done
<1>2. PICK e : u = [w EXCEPT !.conn[s] = e] /\ Done(e)
  BY <1>1, ToldOnce DEF R!Found, R!Connect
<1> QED
  BY <1>2, ConnGood

\* A connection that asks for a name.
Asking(w, s, n) ==
  /\ \A m \in Names : s \notin R!Waiting(w, m)
  /\ w.conn[s] \in ConnRecs /\ w.conn[s].st = "failed" /\ w.conn[s].name = n
  /\ w.conn[s].on \in Circs /\ ~w.conn[s].marked /\ ~w.conn[s].ended /\ w.conn[s].told = 0

\* s heads the list of n in x, as it does not in w.
Listed(x, w, s, n) ==
  /\ x \in Worlds /\ x.sound
  /\ x.conn = [w.conn EXCEPT ![s].st = "resolving"]
  /\ \A m \in Names \ {n} : x.cache[m] = w.cache[m]
  /\ x.cache[n].st = "pending"
  /\ x.cache[n].pend = <<s>> \o w.cache[n].pend
  /\ w.cache[n].st = "none" => x.cache[n].pend = <<s>> /\ R!Waiting(w, n) = {}

LEMMA WaitsFields ==
  ASSUME NEW w, Good(w), NEW n \in Names, NEW s \in R!Conns, Asking(w, s, n),
         w.cache[n].st \in {"pending", "none"}, NEW x, x = R!Waits(w, s, n)
  PROVE  Listed(x, w, s, n)
<1>. DEFINE e == w.cache[n]
            c == [w.conn EXCEPT ![s].st = "resolving"]
            f == IF e.st = "pending" THEN [e EXCEPT !.pend = <<s>> \o e.pend]
                 ELSE R!Fresh("pending", <<s>>)
            k == [w.cache EXCEPT ![n] = f]
            v == [w EXCEPT !.conn = c]
            u == [v EXCEPT !.cache = k]
<1>1. w \in Worlds /\ w.sound
  BY DEF Good
<1>2. /\ w.cache \in [Names -> Entries] /\ w.conn \in [R!Conns -> ConnRecs]
      /\ e \in Entries /\ e.pend \in Seq(R!Conns)
      /\ R!Waiting(w, n) = {} <=> e.pend = <<>>
  BY <1>1, WorldParts
<1>3. c \in [R!Conns -> ConnRecs]
  <2>1. [w.conn[s] EXCEPT !.st = "resolving"] \in ConnRecs
    BY DEF Asking, ConnRecs
  <2> QED
    BY <1>2, <2>1
<1>4. <<s>> \in Seq(R!Conns) /\ <<s>> \o e.pend \in Seq(R!Conns) /\ <<s>> \o <<>> = <<s>>
  BY <1>2
<1>5. f \in Entries /\ f.st = "pending" /\ f.pend = <<s>> \o e.pend
  <2>1. CASE e.st = "pending"
    BY <1>2, <1>4, <2>1 DEF Entries
  <2>2. CASE e.st = "none"
    <3>. DEFINE p == <<s>>
    <3>1. e.pend = <<>>
      BY <2>2 DEF Good
    <3>2. f = [st |-> "pending", due |-> FALSE, pend |-> p]
      BY <2>2 DEF R!Fresh
    <3>3. p \o e.pend = p /\ p \in Seq(R!Conns)
      BY <1>4, <3>1
    <3>. HIDE DEF p, f
    <3>4. f \in Entries /\ f.st = "pending" /\ f.pend = p
      BY <3>2, <3>3 DEF Entries
    <3>5. f.pend = p \o e.pend
      BY <3>3, <3>4
    <3> QED
      BY <3>4, <3>5 DEF p
  <2> QED
    BY <2>1, <2>2
<1>6. e.st = "none" => e.pend = <<>>
  BY DEF Good
<1>7. R!Waits(w, s, n) = u
  BY DEF R!Waits
<1>. HIDE DEF c, f
<1>8. k \in [Names -> Entries] /\ k[n] = f /\ \A m \in Names \ {n} : k[m] = w.cache[m]
  BY <1>2, <1>5
<1>. HIDE DEF k
<1>9. u \in Worlds /\ u.sound /\ u.conn = c /\ u.cache = k
  BY <1>1, <1>3, <1>8 DEF Worlds
<1>. HIDE DEF u
<1> QED
  BY <1>2, <1>4, <1>5, <1>6, <1>7, <1>8, <1>9 DEF Listed, c

LEMMA WaitsGood ==
  ASSUME NEW w, Good(w), NEW n \in Names, NEW s \in R!Conns, Asking(w, s, n),
         w.cache[n].st \in {"pending", "none"}, NEW u, u = R!Waits(w, s, n)
  PROVE  Good(u)
<1>1. /\ u \in Worlds /\ u.sound
      /\ u.conn = [w.conn EXCEPT ![s].st = "resolving"]
      /\ \A m \in Names \ {n} : u.cache[m] = w.cache[m]
      /\ u.cache[n].st = "pending"
      /\ u.cache[n].pend = <<s>> \o w.cache[n].pend
  BY WaitsFields DEF Listed
<1>2. /\ w \in Worlds /\ w.conn \in [R!Conns -> ConnRecs]
      /\ \A m \in Names : w.cache[m].pend \in Seq(R!Conns) /\ R!Waiting(w, m) \subseteq R!Conns
  BY WorldParts DEF Good
<1>3. R!Waiting(u, n) = R!Waiting(w, n) \cup {s} /\ IsInjective(u.cache[n].pend)
  <2>. DEFINE p == <<s>>
              q == w.cache[n].pend
  <2>1. p \in Seq(R!Conns) /\ ToSet(p) = {s} /\ IsInjective(p)
    BY DEF ToSet, IsInjective
  <2>2. ToSet(p) \cap ToSet(q) = {}
    BY <2>1, SameLibrary DEF Asking, R!Waiting
  <2>3. IsInjective(q) /\ q \in Seq(R!Conns)
    BY <1>2 DEF Good
  <2>4. u.cache[n].pend = p \o q /\ R!Waiting(u, n) = ToSet(p \o q) /\ R!Waiting(w, n) = ToSet(q)
    BY <1>1, SameLibrary DEF R!Waiting
  <2>. HIDE DEF p, q
  <2>5. ToSet(p \o q) = ToSet(p) \cup ToSet(q) /\ IsInjective(p \o q)
    BY <2>1, <2>2, <2>3, ConcatMembers
  <2> QED
    BY <2>1, <2>4, <2>5
<1>4. \A m \in Names \ {n} : R!Waiting(u, m) = R!Waiting(w, m)
  BY <1>1 DEF R!Waiting
<1>5. Waiter(u.conn[s], n) /\ \A t \in R!Conns \ {s} : u.conn[t] = w.conn[t]
  <2>1. u.conn[s] = [w.conn[s] EXCEPT !.st = "resolving"]
    BY <1>1, <1>2
  <2>2. w.conn[s].on # Nil
    BY CacheAssumption DEF R!ResolveAssumption, Asking
  <2>3. Waiter([w.conn[s] EXCEPT !.st = "resolving"], n)
    BY <2>2 DEF Asking, Waiter, ConnRecs
  <2> QED
    BY <1>1, <1>2, <2>1, <2>3
<1>6. ASSUME NEW m \in Names
      PROVE  /\ IsInjective(u.cache[m].pend)
             /\ u.cache[m].pend # <<>> => u.cache[m].st = "pending"
  <2>1. CASE m = n
    BY <1>1, <1>3, <2>1
  <2>2. CASE m # n
    BY <1>1, <2>2 DEF Good
  <2> QED
    BY <2>1, <2>2
<1>7. ASSUME NEW m \in Names, NEW t \in R!Waiting(u, m)
      PROVE  Waiter(u.conn[t], m)
  <2>1. CASE t = s
    <3>1. m = n
      BY <1>4, <1>7, <2>1 DEF Asking
    <3> QED
      BY <1>5, <2>1, <3>1
  <2>2. CASE t # s
    <3>1. t \in R!Waiting(w, m)
      BY <1>3, <1>4, <1>7, <2>2
    <3>2. t \in R!Conns /\ Waiter(w.conn[t], m)
      BY <1>2, <3>1 DEF Good
    <3> QED
      BY <1>5, <2>2, <3>2
  <2> QED
    BY <2>1, <2>2
<1>8. ASSUME NEW t \in R!Conns
      PROVE  Done(u.conn[t]) \/ \E m \in Names : t \in R!Waiting(u, m)
  <2>1. CASE t = s
    BY <1>3, <2>1
  <2>2. CASE t # s
    <3>1. u.conn[t] = w.conn[t]
      BY <1>5, <2>2
    <3>2. \A m \in Names : R!Waiting(w, m) \subseteq R!Waiting(u, m)
      BY <1>3, <1>4
    <3> QED
      BY <3>1, <3>2 DEF Good
  <2> QED
    BY <2>1, <2>2
<1> QED
  BY <1>1, <1>6, <1>7, <1>8 DEF Good

\* launch_resolve fails: the new entry goes, and the asker with it.
LEMMA LaunchFailsGood ==
  ASSUME open \subseteq Circs, NEW w, Good(w), NEW n \in Names, NEW s \in R!Conns, Asking(w, s, n),
         w.cache[n].st = "none"
  PROVE  Good(R!Refuse([R!Waits(w, s, n) EXCEPT !.conn[s].st = "failed"], s, n))
<1>1. PICK x : x = R!Waits(w, s, n)
  OBVIOUS
<1>2. /\ x \in Worlds /\ x.sound
      /\ x.conn = [w.conn EXCEPT ![s].st = "resolving"]
      /\ \A m \in Names \ {n} : x.cache[m] = w.cache[m]
      /\ x.cache[n].st = "pending" /\ x.cache[n].pend = <<s>>
      /\ R!Waiting(w, n) = {}
  <2>1. w.cache[n].st \in {"pending", "none"}
    OBVIOUS
  <2>2. Listed(x, w, s, n)
    BY <1>1, <2>1, WaitsFields
  <2> QED
    BY <2>2 DEF Listed
<1>3. /\ w.conn \in [R!Conns -> ConnRecs] /\ x.conn \in [R!Conns -> ConnRecs]
      /\ x.cache \in [Names -> Entries]
  BY <1>2, WorldParts DEF Good
<1>. DEFINE y == [x EXCEPT !.conn[s].st = "failed"]
            f == [y.conn[s] EXCEPT !.told = IF y.conn[s].on \in open THEN @ + 1 ELSE @]
            d == [f EXCEPT !.on = Nil]
            c == [y.conn EXCEPT ![s] = d]
            a == [y EXCEPT !.conn = c]
<1>4. y \in Worlds /\ y.sound /\ y.cache = x.cache
      /\ y.conn[s] = w.conn[s] /\ \A t \in R!Conns \ {s} : y.conn[t] = w.conn[t]
  <2>1. [x.conn[s] EXCEPT !.st = "failed"] = w.conn[s] /\ w.conn[s] \in ConnRecs
    BY <1>2, <1>3 DEF Asking, ConnRecs
  <2>. DEFINE b == [x.conn EXCEPT ![s].st = "failed"]
  <2>2. b \in [R!Conns -> ConnRecs] /\ b[s] = w.conn[s] /\ \A t \in R!Conns \ {s} : b[t] = w.conn[t]
    BY <1>2, <1>3, <2>1
  <2>3. y = [x EXCEPT !.conn = b]
    OBVIOUS
  <2>. HIDE DEF b
  <2> QED
    BY <1>2, <2>2, <2>3 DEF Worlds
<1>. HIDE DEF y
<1>5. d \in ConnRecs /\ d.told <= 1 /\ ~d.marked /\ ~d.ended /\ d.on = Nil
  <2>. DEFINE t == IF y.conn[s].on \in open THEN 1 ELSE 0
  <2>1. t \in Nat /\ t <= 1 /\ y.conn[s].told = 0
    BY <1>4 DEF Asking
  <2>2. f = [y.conn[s] EXCEPT !.told = t]
    BY <2>1
  <2>. HIDE DEF t, f
  <2> QED
    BY <1>4, <2>1, <2>2 DEF Asking, ConnRecs
<1>6. [y EXCEPT !.conn[s] = [R!Tell(y.conn[s]) EXCEPT !.on = Nil]] = a
  BY DEF R!Tell
<1>. HIDE DEF d, f
<1>7. c \in [R!Conns -> ConnRecs] /\ c[s] = d /\ \A t \in R!Conns \ {s} : c[t] = w.conn[t]
  BY <1>4, <1>5 DEF Worlds
<1>. HIDE DEF c
<1>8. a \in Worlds /\ a.sound /\ a.cache = x.cache /\ a.conn = c
  BY <1>4, <1>7 DEF Worlds
<1>. HIDE DEF a
<1>9. a.cache[n].st = "pending" /\ a.cache[n].pend # <<>> /\ R!Waiting(a, n) = {s}
  <2>1. <<s>> # <<>> /\ ToSet(<<s>>) = {s}
    BY DEF ToSet
  <2> QED
    BY <1>2, <1>8, <2>1, SameLibrary DEF R!Waiting
<1>. DEFINE live == {t \in {s} : ~a.conn[t].marked}
            g == [t \in R!Conns |-> IF t \in live THEN R!Ended(a.conn[t])
                                  ELSE IF t \in {s} THEN R!Failed(a.conn[t]) ELSE a.conn[t]]
            p == \A t \in live : ~a.conn[t].ended
            v == R!Check([a EXCEPT !.conn = g], p)
            u == [v EXCEPT !.cache[n] = R!NoEntry]
            r == [u EXCEPT !.conn[s] = R!Gone(u.conn[s])]
<1>10. R!Cancelled(a, n) = u
  BY <1>9 DEF R!Cancelled, R!Each
<1>11. R!Refuse(y, s, n) = r
  BY <1>6, <1>10 DEF R!Refuse
<1>12. live = {s} /\ p = TRUE
  BY <1>5, <1>7, <1>8
<1>13. R!Ended(d) \in ConnRecs /\ R!Ended(d).told = d.told
  <2>1. R!Tell(d) = d
    BY <1>5, CacheAssumption DEF R!ResolveAssumption, R!Tell, ConnRecs
  <2> QED
    BY <1>5, <2>1 DEF R!Ended, R!EdgeEnd, R!Gone, R!NoConn, ConnRecs
<1>14. /\ g \in [R!Conns -> ConnRecs] /\ g[s] = R!Ended(d)
       /\ \A t \in R!Conns \ {s} : g[t] = w.conn[t]
  <2>1. g = [t \in R!Conns |-> IF t \in {s} THEN R!Ended(a.conn[t]) ELSE a.conn[t]]
    BY <1>12
  <2>. HIDE DEF g, live
  <2> QED
    BY <1>3, <1>7, <1>8, <1>13, <2>1
<1>. HIDE DEF g, p, live
<1>15. v \in Worlds /\ v.sound /\ v.cache = x.cache /\ v.conn = g
  BY <1>8, <1>12, <1>14 DEF Worlds, R!Check
<1>. HIDE DEF v
<1>16. /\ u \in Worlds /\ u.sound /\ u.conn = g /\ u.cache[n] = R!NoEntry
       /\ \A m \in Names \ {n} : u.cache[m] = w.cache[m]
  <2>. DEFINE k == [v.cache EXCEPT ![n] = R!NoEntry]
  <2>1. /\ k \in [Names -> Entries] /\ k[n] = R!NoEntry
        /\ \A m \in Names \ {n} : k[m] = w.cache[m]
    BY <1>2, <1>3, <1>15, NoEntryFree
  <2>2. u = [v EXCEPT !.cache = k]
    OBVIOUS
  <2>. HIDE DEF k, u
  <2> QED
    BY <1>15, <2>1, <2>2 DEF Worlds
<1>. HIDE DEF u
<1>17. Done(R!Gone(g[s]))
  BY <1>5, <1>13, <1>14, GoneDone
<1>18. /\ r \in Worlds /\ r.sound /\ r.cache = u.cache /\ Done(r.conn[s])
       /\ \A t \in R!Conns \ {s} : r.conn[t] = w.conn[t]
  <2>. DEFINE h == [g EXCEPT ![s] = R!Gone(g[s])]
  <2>1. /\ h \in [R!Conns -> ConnRecs] /\ Done(h[s])
        /\ \A t \in R!Conns \ {s} : h[t] = w.conn[t]
    BY <1>14, <1>17 DEF Done
  <2>2. r = [u EXCEPT !.conn = h]
    BY <1>16
  <2>. HIDE DEF h, r
  <2> QED
    BY <1>16, <2>1, <2>2 DEF Worlds
<1>. HIDE DEF r
<1>19. \A m \in Names : s \notin R!Waiting(w, m)
  BY DEF Asking
<1>20. Cleared(w, r, {n}, {s})
  BY <1>2, <1>16, <1>18, <1>19, NoEntryFree DEF Cleared
<1>21. Good(r)
  BY <1>20, ClearedGood
<1> QED
  BY <1>1, <1>11, <1>21 DEF y

\* The lists stay, and the connections change as they may.
LEMMA ConnsGood ==
  ASSUME NEW w, Good(w), NEW c \in [R!Conns -> ConnRecs],
         \A s \in R!Conns : Done(w.conn[s]) => Done(c[s]),
         \A s \in R!Conns, n \in Names : Waiter(w.conn[s], n) => Waiter(c[s], n)
  PROVE  Good([w EXCEPT !.conn = c])
<1>. DEFINE u == [w EXCEPT !.conn = c]
<1>1. u \in Worlds /\ u.sound /\ u.cache = w.cache /\ u.conn = c
  BY DEF Good, Worlds
<1>. HIDE DEF u
<1>2. \A n \in Names : R!Waiting(u, n) = R!Waiting(w, n) /\ R!Waiting(w, n) \subseteq R!Conns
  BY <1>1, WorldParts DEF R!Waiting, Good
<1>3. ASSUME NEW n \in Names
      PROVE  /\ IsInjective(u.cache[n].pend)
             /\ u.cache[n].pend # <<>> => u.cache[n].st = "pending"
             /\ \A s \in R!Waiting(u, n) : Waiter(u.conn[s], n)
  BY <1>1, <1>2 DEF Good
<1>4. \A s \in R!Conns : Done(u.conn[s]) \/ \E n \in Names : s \in R!Waiting(u, n)
  BY <1>1, <1>2 DEF Good
<1>5. Good(u)
  BY <1>1, <1>3, <1>4 DEF Good
<1> QED
  BY <1>5 DEF u

\* Who waits for n is answered, and n gets an entry without a list.
LEMMA AnsweredGood ==
  ASSUME NEW w, Good(w), NEW n \in Names, NEW c \in [R!Conns -> ConnRecs],
         \A s \in R!Waiting(w, n) : Done(c[s]),
         \A s \in R!Conns \ R!Waiting(w, n) : c[s] = w.conn[s],
         NEW k \in Entries, k.pend = <<>>, NEW u \in Worlds, u.sound,
         u.conn = c, u.cache = [w.cache EXCEPT ![n] = k]
  PROVE  Good(u)
<1>1. w.cache \in [Names -> Entries] /\ R!Waiting(w, n) \subseteq R!Conns
  BY WorldParts DEF Good
<1>2. u.cache[n] = k /\ \A m \in Names \ {n} : u.cache[m] = w.cache[m]
  BY <1>1
<1>3. \A m \in Names \ {n} : R!Waiting(w, m) \cap R!Waiting(w, n) = {}
  BY ListsApart
<1>4. Cleared(w, u, {n}, R!Waiting(w, n))
  BY <1>1, <1>2, <1>3 DEF Cleared
<1> QED
  BY <1>4, ClearedGood
-----------------------------------------------------------------------------
(* The steps. *)

LEMMA WorldFields ==
  R!World.cache = cache /\ R!World.conn = conn /\ R!World.sound = sound
BY DEF R!World

LEMMA BecomesGood ==
  ASSUME CacheInv, NEW u, Good(u), R!Becomes({u}), open' \in SUBSET Circs,
         asked' \in [Names -> 0 .. MaxAsked]
  PROVE  CacheInv'
<1>1. R!World' = u
  BY DEF R!Becomes, R!World, Good, Worlds
<1>2. Good(R!World)'
  BY <1>1
<1> QED
  BY <1>2 DEF CacheInv

LEMMA InitCacheInv ==
  R!Init => CacheInv
<1> SUFFICES ASSUME R!Init PROVE CacheInv
  OBVIOUS
<1>1. R!World \in Worlds
  <2>1. \A n \in Names : cache[n] \in Entries
    BY NoEntryFree DEF R!Init
  <2>2. R!NoConn \in ConnRecs
    BY DEF R!NoConn, ConnRecs
  <2> QED
    BY <2>1, <2>2 DEF R!Init, R!World, Worlds, R!NoEntry, Entries
<1>2. \A n \in Names : R!World.cache[n].pend = <<>> /\ R!Waiting(R!World, n) = {}
  BY EmptyList, NoEntryFree, SameLibrary DEF R!Init, R!World, R!Waiting
<1>3. \A s \in R!Conns : Done(R!World.conn[s])
  BY DEF R!Init, R!World, R!NoConn, Done, ConnRecs
<1>4. Good(R!World)
  BY <1>1, <1>2, <1>3, EmptyList DEF Good, R!Init, R!World
<1>5. 0 \in 0 .. MaxAsked
  BY CacheAssumption DEF R!ResolveAssumption
<1> QED
  BY <1>4, <1>5 DEF R!Init, CacheInv

\* connection_exit_begin_conn, connection_exit_begin_resolve and dns_resolve.
LEMMA AskCacheInv ==
  ASSUME ~Overlap, CacheInv, NEW s \in R!Conns, NEW c \in Circs, NEW n \in Names,
         NEW for \in {"connect", "resolve"}, R!Ask(s, c, n, for)
  PROVE  CacheInv'
<1>. DEFINE e == [R!NoConn EXCEPT !.st = "failed", !.for = for, !.name = n, !.on = c]
            v == [R!World EXCEPT !.conn[s] = e]
            hopeless == n \in Arpa /\ for = "connect"
<1>1. PICK w : /\ w = R!Purged(v)
               /\ LET st == w.cache[n].st
                  IN  \/ /\ hopeless \/ st = "failed"
                         /\ R!Becomes({R!Refuse(w, s, n)}) /\ UNCHANGED asked
                      \/ /\ ~hopeless /\ st = "valid"
                         /\ R!Becomes(R!Found(w, s)) /\ UNCHANGED asked
                      \/ /\ ~hopeless /\ st = "pending"
                         /\ R!Becomes({R!Waits(w, s, n)}) /\ UNCHANGED asked
                      \/ /\ ~hopeless /\ st = "none" /\ asked[n] < MaxAsked
                         /\ R!Becomes({R!Waits(w, s, n)}) /\ asked' = [asked EXCEPT ![n] = @ + 1]
                      \/ /\ ~hopeless /\ st = "none"
                         /\ R!Becomes({R!Refuse([R!Waits(w, s, n) EXCEPT !.conn[s].st = "failed"], s, n)})
                         /\ UNCHANGED asked
  BY DEF R!Ask
<1>2. /\ Good(R!World) /\ open \subseteq Circs /\ asked \in [Names -> 0 .. MaxAsked]
      /\ open' \in SUBSET Circs
      /\ UNCHANGED asked => asked' \in [Names -> 0 .. MaxAsked]
  BY DEF CacheInv, R!Ask
<1>3. conn[s].st = "unused" /\ \A m \in Names : cache[m].due => \A t \in R!Waiting(R!World, m) : ~conn[t].marked
  <2>1. s >= s
    BY DEF R!Conns
  <2> QED
    BY <2>1 DEF R!Ask, R!Settled
<1>4. Done(e) /\ e \in ConnRecs /\ e.st = "failed" /\ e.name = n /\ e.on = c
      /\ ~e.marked /\ ~e.ended /\ e.told = 0
  <2>1. e \in ConnRecs
    BY DEF R!NoConn, ConnRecs
  <2>2. /\ e.st = "failed" /\ e.name = n /\ e.on = c
        /\ ~e.marked /\ ~e.ended /\ e.told = 0
    BY DEF R!NoConn
  <2>. HIDE DEF e
  <2> QED
    BY <2>1, <2>2 DEF Done
<1>. HIDE DEF e
<1>5. \A m \in Names : s \notin R!Waiting(R!World, m)
  BY <1>2, <1>3, WorldFields DEF Good, Waiter
<1>6. Good(v) /\ v.conn[s] = e /\ v.cache = cache /\ \A t \in R!Conns \ {s} : v.conn[t] = conn[t]
  <2>1. R!World.conn \in [R!Conns -> ConnRecs]
    BY <1>2, WorldParts DEF Good
  <2>2. \A t \in R!Conns \ {s} : v.conn[t] = conn[t]
    BY <2>1 DEF R!World
  <2>. HIDE DEF v
  <2> QED
    BY <1>2, <1>4, <1>5, <2>2, ConnGood, WorldFields DEF v
<1>. HIDE DEF v
<1>7. \A m \in Names : R!Waiting(v, m) = R!Waiting(R!World, m) /\ R!Waiting(v, m) \subseteq R!Conns
  BY <1>2, <1>6, WorldFields, WorldParts DEF R!Waiting, Good
<1>8. Good(w) /\ Shrinks(w, v)
  <2>1. \A m \in Names : v.cache[m].due => \A t \in R!Waiting(v, m) : ~v.conn[t].marked
    BY <1>3, <1>5, <1>6, <1>7
  <2> QED
    BY <1>1, <1>6, <2>1, PurgedGood
<1>9. Asking(w, s, n)
  <2>1. (\A m \in Names : s \notin R!Waiting(w, m)) /\ w.conn[s] = e
    BY <1>5, <1>6, <1>7, <1>8 DEF Shrinks
  <2> QED
    BY <1>4, <2>1 DEF Asking
<1>10. /\ \A m \in Names : s \notin R!Waiting(w, m)
       /\ w.conn[s].told = 0 /\ w.conn[s].name \in Names
  BY <1>9 DEF Asking
<1>11. CASE R!Becomes({R!Refuse(w, s, n)}) /\ UNCHANGED asked
  <2>1. Good(R!Refuse(w, s, n))
    BY <1>8, <1>10, RefuseGood
  <2> QED
    BY <1>2, <1>11, <2>1, BecomesGood
<1>12. CASE R!Becomes(R!Found(w, s)) /\ UNCHANGED asked
  <2>1. PICK u \in R!Found(w, s) : R!Becomes({u})
    BY <1>12 DEF R!Becomes
  <2>2. Good(u)
    BY <1>8, <1>10, <2>1, FoundGood
  <2> QED
    BY <1>2, <1>12, <2>1, <2>2, BecomesGood
<1>13. CASE w.cache[n].st = "pending" /\ R!Becomes({R!Waits(w, s, n)}) /\ UNCHANGED asked
  <2>1. Good(R!Waits(w, s, n))
    BY <1>8, <1>9, <1>13, WaitsGood
  <2> QED
    BY <1>2, <1>13, <2>1, BecomesGood
<1>14. CASE /\ w.cache[n].st = "none" /\ asked[n] < MaxAsked
            /\ R!Becomes({R!Waits(w, s, n)}) /\ asked' = [asked EXCEPT ![n] = @ + 1]
  <2>1. Good(R!Waits(w, s, n))
    BY <1>8, <1>9, <1>14, WaitsGood
  <2>2. asked' \in [Names -> 0 .. MaxAsked]
    BY <1>2, <1>14, CacheAssumption DEF R!ResolveAssumption
  <2> QED
    BY <1>2, <1>14, <2>1, <2>2, BecomesGood
<1>15. CASE /\ w.cache[n].st = "none"
            /\ R!Becomes({R!Refuse([R!Waits(w, s, n) EXCEPT !.conn[s].st = "failed"], s, n)})
            /\ UNCHANGED asked
  <2>. DEFINE u == R!Refuse([R!Waits(w, s, n) EXCEPT !.conn[s].st = "failed"], s, n)
  <2>1. Good(u)
    BY <1>2, <1>8, <1>9, <1>15, LaunchFailsGood
  <2>2. R!Becomes({u})
    BY <1>15
  <2>. HIDE DEF u
  <2> QED
    BY <1>2, <1>15, <2>1, <2>2, BecomesGood
<1> QED
  BY <1>1, <1>11, <1>12, <1>13, <1>14, <1>15

\* An assertion that holds.
LEMMA GoodChecked ==
  ASSUME NEW w, Good(w), NEW p, p = TRUE
  PROVE  R!Check(w, p) = w
BY DEF Good, Worlds, R!Check

\* Everybody who waited for n is through, and the outcome is stored.
Through(z, w, n) ==
  /\ z \in Worlds /\ z.sound
  /\ \A s \in R!Waiting(w, n) : Done(z.conn[s])
  /\ \A s \in R!Conns \ R!Waiting(w, n) : z.conn[s] = w.conn[s]
  /\ z.cache = [w.cache EXCEPT ![n] = R!NoEntry]

LEMMA StoredGood ==
  ASSUME NEW w, Good(w), NEW n \in Names, NEW z, Through(z, w, n),
         NEW outcome \in {"valid", "failed", "transient"}
  PROVE  Good(R!Stored(z, n, outcome))
<1>. USE DEF Through
<1>1. z.conn \in [R!Conns -> ConnRecs] /\ w.cache \in [Names -> Entries]
  BY WorldParts DEF Good
<1>2. CASE outcome = "transient"
  <2>1. Good(z)
    BY <1>1, NoEntryFree, AnsweredGood
  <2> QED
    BY <1>2, <2>1 DEF R!Stored
<1>3. CASE outcome # "transient"
  <2>. DEFINE k == R!Fresh(outcome, <<>>)
              c == [z.cache EXCEPT ![n] = k]
              u == [z EXCEPT !.cache = c]
  <2>1. k \in Entries /\ k.pend = <<>>
    <3>1. <<>> \in Seq(R!Conns)
      BY EmptySeq
    <3> QED
      BY <1>3, <3>1 DEF R!Fresh, Entries
  <2>2. R!Stored(z, n, outcome) = u
    BY <1>3 DEF R!Stored
  <2>. HIDE DEF k
  <2>3. c \in [Names -> Entries] /\ c = [w.cache EXCEPT ![n] = k]
    BY <1>1, <2>1, NoEntryFree
  <2>. HIDE DEF c
  <2>4. u \in Worlds /\ u.sound /\ u.conn = z.conn /\ u.cache = c
    BY <2>3 DEF Worlds
  <2>. HIDE DEF u
  <2>5. Good(u)
    BY <1>1, <2>1, <2>3, <2>4, AnsweredGood
  <2> QED
    BY <2>2, <2>5
<1> QED
  BY <1>2, <1>3

\* evdns_callback and dns_found_answer.
LEMMA AnswerCacheInv ==
  ASSUME CacheInv, NEW n \in Names, NEW outcome \in {"valid", "failed", "transient"},
         R!Answer(n, outcome)
  PROVE  CacheInv'
<1>. DEFINE e == cache[n]
            all == IF e.pend = <<>> THEN {} ELSE R!Hears(R!World, n)
            out == [R!World EXCEPT !.cache[n] = R!NoEntry]
            Unhappy(d) == IF d.for = "connect" THEN R!Ended(d) ELSE R!Gone(R!Tell(d))
            Happy(d) == IF d.for = "connect" THEN [R!Gone(R!Tell(d)) EXCEPT !.st = "handed"]
                        ELSE R!Gone(R!Tell(d))
<1>1. /\ Good(R!World) /\ R!World \in Worlds /\ sound /\ cache \in [Names -> Entries]
      /\ conn \in [R!Conns -> ConnRecs]
  BY WorldFields, WorldParts DEF CacheInv, Good
<1>2. asked' \in [Names -> 0 .. MaxAsked] /\ open' \in SUBSET Circs
  <2>1. asked \in [Names -> 0 .. MaxAsked] /\ asked[n] > 0 /\ asked' = [asked EXCEPT ![n] = @ - 1]
    BY DEF CacheInv, R!Answer
  <2>2. asked[n] - 1 \in 0 .. MaxAsked
    BY <2>1, CacheAssumption DEF R!ResolveAssumption
  <2> QED
    BY <2>1, <2>2 DEF CacheInv, R!Answer
<1>3. all = R!Waiting(R!World, n) /\ all \subseteq R!Conns
  BY <1>1, WorldFields, WorldParts DEF R!Hears
<1>4. out \in Worlds /\ out.sound /\ out.conn = conn /\ out.cache = [cache EXCEPT ![n] = R!NoEntry]
  <2>. DEFINE k == [cache EXCEPT ![n] = R!NoEntry]
  <2>1. k \in [Names -> Entries]
    BY <1>1, NoEntryFree
  <2>2. out = [R!World EXCEPT !.cache = k]
    BY WorldFields
  <2>. HIDE DEF k, out
  <2> QED
    BY <1>1, <2>1, <2>2, WorldFields DEF Worlds, k
<1>. HIDE DEF out
<1>5. ASSUME NEW s \in all
      PROVE  /\ conn[s].marked \/ (~conn[s].ended /\ conn[s].on # Nil)
             /\ Done(Unhappy(conn[s])) /\ Done(Happy(conn[s])) /\ Done(R!Ended(conn[s]))
             /\ conn[s].marked => Done(R!Failed(conn[s]))
  <2>1. Waiter(conn[s], n)
    BY <1>1, <1>3, <1>5, WorldFields DEF Good
  <2>2. conn[s] \in ConnRecs /\ conn[s].told = 0
    BY <2>1 DEF Waiter
  <2>3. conn[s].marked \/ (~conn[s].ended /\ conn[s].on # Nil)
    BY <2>1, <2>2 DEF Waiter, ConnRecs
  <2> QED
    BY <2>1, <2>2, <2>3, ToldOnce, ForgottenDone
<1>6. CASE e.st = "none" /\ R!Becomes({R!Stored(R!World, n, outcome)})
  <2>1. R!World.cache[n].pend = <<>> /\ R!Waiting(R!World, n) = {}
    BY <1>1, <1>6, WorldFields, WorldParts DEF Good
  <2>2. CASE outcome = "transient"
    <3>1. R!Stored(R!World, n, outcome) = R!World
      BY <2>2 DEF R!Stored
    <3> QED
      BY <1>1, <1>2, <1>6, <3>1, BecomesGood
  <2>3. CASE outcome # "transient"
    <3>. DEFINE k == R!Fresh(outcome, <<>>)
                c == [cache EXCEPT ![n] = k]
                u == [R!World EXCEPT !.cache = c]
    <3>1. k \in Entries /\ k.pend = <<>>
      <4>1. <<>> \in Seq(R!Conns)
        BY EmptySeq
      <4> QED
        BY <2>3, <4>1 DEF R!Fresh, Entries
    <3>2. R!Stored(R!World, n, outcome) = u
      BY <2>3, WorldFields DEF R!Stored
    <3>. HIDE DEF k
    <3>3. c \in [Names -> Entries] /\ c = [R!World.cache EXCEPT ![n] = k]
      BY <1>1, <3>1, WorldFields
    <3>. HIDE DEF c
    <3>4. u \in Worlds /\ u.sound /\ u.conn = R!World.conn /\ u.cache = c
      BY <1>1, <3>3, WorldFields DEF Worlds
    <3>. HIDE DEF u
    <3>5. R!World.conn \in [R!Conns -> ConnRecs]
      BY <1>1, WorldFields
    <3>6. Good(u)
      BY <1>1, <2>1, <3>1, <3>3, <3>4, <3>5, AnsweredGood
    <3> QED
      BY <1>2, <1>6, <3>2, <3>6, BecomesGood
  <2> QED
    BY <2>2, <2>3
<1>7. CASE e.st \in {"valid", "failed"} /\ R!Becomes({R!Check(R!World, e.pend = <<>>)})
  <2>1. e.pend = <<>>
    BY <1>1, <1>7, WorldFields DEF Good
  <2>2. R!Check(R!World, e.pend = <<>>) = R!World
    BY <1>1, <2>1 DEF R!Check, R!World
  <2> QED
    BY <1>1, <1>2, <1>7, <2>2, BecomesGood
<1>8. CASE /\ e.st = "pending" /\ outcome # "valid"
           /\ R!Becomes({R!Stored(R!Each(out, all, Unhappy, R!Failed), n, outcome)})
  <2>. DEFINE live == {s \in all : ~out.conn[s].marked}
              c == [s \in R!Conns |-> IF s \in live THEN Unhappy(out.conn[s])
                                    ELSE IF s \in all THEN R!Failed(out.conn[s]) ELSE out.conn[s]]
              p == \A s \in live : ~out.conn[s].ended
              z == R!Check([out EXCEPT !.conn = c], p)
  <2>1. R!Each(out, all, Unhappy, R!Failed) = z
    BY DEF R!Each
  <2>2. p = TRUE
    BY <1>4, <1>5
  <2>3. c \in [R!Conns -> ConnRecs] /\ \A s \in all : Done(c[s])
    <3>1. ASSUME NEW s \in R!Conns, s \in all PROVE Done(c[s])
      BY <1>4, <1>5, <3>1
    <3>2. ASSUME NEW s \in R!Conns, s \notin all PROVE c[s] = conn[s]
      BY <1>4, <3>2
    <3> QED
      BY <1>1, <1>3, <3>1, <3>2 DEF Done
  <2>4. \A s \in R!Conns \ all : c[s] = conn[s]
    BY <1>4
  <2>. HIDE DEF c, p
  <2>5. z \in Worlds /\ z.sound /\ z.conn = c /\ z.cache = out.cache
    BY <1>4, <2>2, <2>3 DEF Worlds, R!Check
  <2>. HIDE DEF z, all
  <2>6. Through(z, R!World, n)
    BY <1>3, <1>4, <2>3, <2>4, <2>5, WorldFields DEF Through
  <2>7. Good(R!Stored(z, n, outcome))
    BY <1>1, <2>6, StoredGood
  <2> QED
    BY <1>2, <1>8, <2>1, <2>7, BecomesGood
<1>9. CASE /\ e.st = "pending" /\ outcome = "valid"
           /\ \E refused \in SUBSET {s \in all : conn[s].for = "connect"} :
                LET u == R!Each(out, refused, R!Ended, R!Failed)
                    here == \A s \in all : conn[s].marked \/ conn[s].on # Nil
                IN  R!Becomes({R!Check(R!Stored(R!Each(u, all \ refused, Happy, R!Failed), n, outcome), here)})
  <2>. DEFINE here == \A s \in all : conn[s].marked \/ conn[s].on # Nil
  <2>1. PICK refused \in SUBSET {s \in all : conn[s].for = "connect"} :
          R!Becomes({R!Check(R!Stored(R!Each(R!Each(out, refused, R!Ended, R!Failed), all \ refused, Happy, R!Failed),
                                n, outcome), here)})
    BY <1>9
  <2>2. here = TRUE
    BY <1>5
  <2>3. refused \subseteq all
    BY <2>1
  <2>. DEFINE live == {s \in refused : ~out.conn[s].marked}
              c == [s \in R!Conns |-> IF s \in live THEN R!Ended(out.conn[s])
                                    ELSE IF s \in refused THEN R!Failed(out.conn[s]) ELSE out.conn[s]]
              p == \A s \in live : ~out.conn[s].ended
              u == R!Check([out EXCEPT !.conn = c], p)
  <2>4. R!Each(out, refused, R!Ended, R!Failed) = u
    BY DEF R!Each
  <2>5. p = TRUE
    BY <1>4, <1>5, <2>3
  <2>6. c \in [R!Conns -> ConnRecs] /\ \A s \in refused : Done(c[s])
    <3>1. ASSUME NEW s \in R!Conns, s \in refused PROVE Done(c[s])
      BY <1>4, <1>5, <2>3, <3>1
    <3>2. ASSUME NEW s \in R!Conns, s \notin refused PROVE c[s] = conn[s]
      BY <1>4, <3>2
    <3> QED
      BY <1>1, <1>3, <2>3, <3>1, <3>2 DEF Done
  <2>7. \A s \in R!Conns \ refused : c[s] = conn[s]
    BY <1>4
  <2>. HIDE DEF c, p
  <2>8. u \in Worlds /\ u.sound /\ u.conn = c /\ u.cache = out.cache
    BY <1>4, <2>5, <2>6 DEF Worlds, R!Check
  <2>. HIDE DEF u
  <2>. DEFINE T == all \ refused
              awake == {s \in T : ~u.conn[s].marked}
              f == [s \in R!Conns |-> IF s \in awake THEN Happy(u.conn[s])
                                    ELSE IF s \in T THEN R!Failed(u.conn[s]) ELSE u.conn[s]]
              q == \A s \in awake : ~u.conn[s].ended
              z == R!Check([u EXCEPT !.conn = f], q)
  <2>9. R!Each(u, T, Happy, R!Failed) = z
    BY DEF R!Each
  <2>10. \A s \in T : s \in all /\ s \in R!Conns /\ u.conn[s] = conn[s]
    BY <1>3, <2>7, <2>8
  <2>11. q = TRUE
    BY <1>5, <2>10
  <2>12. f \in [R!Conns -> ConnRecs] /\ \A s \in all : Done(f[s])
    <3>1. ASSUME NEW s \in T PROVE Done(f[s])
      BY <1>5, <2>10, <3>1
    <3>2. ASSUME NEW s \in R!Conns, s \notin T PROVE f[s] = c[s]
      BY <2>8, <3>2
    <3>3. \A s \in refused : s \in R!Conns /\ s \notin T
      BY <1>3, <2>3
    <3>4. f = [s \in R!Conns |-> f[s]]
      OBVIOUS
    <3>. HIDE DEF f
    <3>5. f \in [R!Conns -> ConnRecs]
      BY <2>6, <3>1, <3>2, <3>4 DEF Done
    <3> QED
      BY <2>6, <3>1, <3>2, <3>3, <3>5
  <2>13. \A s \in R!Conns \ all : f[s] = conn[s]
    BY <2>3, <2>7, <2>8
  <2>. HIDE DEF f, q
  <2>14. z \in Worlds /\ z.sound /\ z.conn = f /\ z.cache = out.cache
    BY <2>8, <2>11, <2>12 DEF Worlds, R!Check
  <2>. HIDE DEF z
  <2>15. Good(R!Stored(z, n, outcome))
    <3>. HIDE DEF all
    <3>1. Through(z, R!World, n)
      BY <1>3, <1>4, <2>12, <2>13, <2>14, WorldFields DEF Through
    <3> QED
      BY <1>1, <3>1, StoredGood
  <2>16. R!Check(R!Stored(z, n, outcome), here) = R!Stored(z, n, outcome)
    <3>. HIDE DEF here
    <3> QED
      BY <2>2, <2>15, GoodChecked
  <2>17. R!Becomes({R!Stored(z, n, outcome)})
    BY <2>1, <2>4, <2>9, <2>16
  <2> QED
    BY <1>2, <2>15, <2>17, BecomesGood
<1> QED
  BY <1>6, <1>7, <1>8, <1>9 DEF R!Answer, out

\* A hangup by the other end.
LEMMA EndCellCacheInv ==
  ASSUME CacheInv, NEW s \in R!Conns, R!EndCell(s)
  PROVE  CacheInv'
<1>. DEFINE e == [conn[s] EXCEPT !.marked = TRUE, !.ended = TRUE]
            c == [conn EXCEPT ![s] = e]
            u == [R!World EXCEPT !.conn = c]
<1>1. Good(R!World) /\ conn \in [R!Conns -> ConnRecs] /\ conn[s] \in ConnRecs
  BY WorldFields, WorldParts DEF CacheInv, Good
<1>2. conn' = c /\ R!Becomes({u}) /\ UNCHANGED <<open, asked>>
  BY DEF R!EndCell, R!Becomes, R!World
<1>3. e \in ConnRecs /\ e.st = "resolving" /\ e.name = conn[s].name /\ e.told = conn[s].told
      /\ e.marked /\ e.ended
  BY <1>1 DEF R!EndCell, ConnRecs
<1>. HIDE DEF e
<1>4. /\ c \in [R!Conns -> ConnRecs]
      /\ \A t \in R!Conns : Done(R!World.conn[t]) => Done(c[t])
      /\ \A t \in R!Conns, n \in Names : Waiter(R!World.conn[t], n) => Waiter(c[t], n)
  <2>1. c \in [R!Conns -> ConnRecs] /\ c[s] = e /\ \A t \in R!Conns \ {s} : c[t] = R!World.conn[t]
    BY <1>1, <1>3, WorldFields
  <2>2. R!World.conn[s] = conn[s] /\ ~Done(conn[s])
    BY WorldFields DEF R!EndCell, Done
  <2>3. ASSUME NEW n \in Names, Waiter(conn[s], n) PROVE Waiter(e, n)
    BY <1>3, <2>3 DEF Waiter
  <2>. HIDE DEF c
  <2> QED
    BY <2>1, <2>2, <2>3
<1>. HIDE DEF c
<1>5. Good(u)
  BY <1>1, <1>4, ConnsGood
<1>. HIDE DEF u
<1> QED
  BY <1>2, <1>5, BecomesGood DEF CacheInv

\* _circuit_mark_for_close.
LEMMA CloseCircuitCacheInv ==
  ASSUME CacheInv, NEW x \in Circs, R!CloseCircuit(x)
  PROVE  CacheInv'
<1>. DEFINE c == [s \in R!Conns |-> IF conn[s].on # x THEN conn[s]
                                  ELSE [conn[s] EXCEPT !.marked = TRUE, !.ended = TRUE, !.on = Nil]]
            u == [R!World EXCEPT !.conn = c]
<1>1. Good(R!World) /\ conn \in [R!Conns -> ConnRecs] /\ x # Nil
  BY WorldFields, WorldParts, CacheAssumption DEF R!ResolveAssumption, CacheInv, Good
<1>2. R!Becomes({u}) /\ UNCHANGED asked /\ open' \in SUBSET Circs
  BY DEF R!CloseCircuit, R!Becomes, R!World, CacheInv
<1>3. ASSUME NEW s \in R!Conns
      PROVE  /\ c[s] \in ConnRecs
             /\ Done(R!World.conn[s]) => Done(c[s])
             /\ \A n \in Names : Waiter(R!World.conn[s], n) => Waiter(c[s], n)
  <2>1. CASE conn[s].on # x
    BY <1>1, <2>1, WorldFields
  <2>2. CASE conn[s].on = x
    <3>. DEFINE e == [conn[s] EXCEPT !.marked = TRUE, !.ended = TRUE, !.on = Nil]
    <3>1. c[s] = e /\ R!World.conn[s] = conn[s] /\ conn[s] \in ConnRecs
      BY <1>1, <2>2, WorldFields
    <3>2. e \in ConnRecs /\ e.st = conn[s].st /\ e.name = conn[s].name
          /\ e.told = conn[s].told /\ e.on = Nil /\ e.marked /\ e.ended
      BY <3>1 DEF ConnRecs
    <3>. HIDE DEF e, c
    <3>3. Done(conn[s]) => Done(e)
      BY <1>1, <2>2, <3>2 DEF Done
    <3>4. \A n \in Names : Waiter(conn[s], n) => Waiter(e, n)
      BY <3>2 DEF Waiter
    <3> QED
      BY <3>1, <3>2, <3>3, <3>4
  <2> QED
    BY <2>1, <2>2
<1>4. c \in [R!Conns -> ConnRecs]
  BY <1>3
<1>. HIDE DEF c
<1>5. Good(u)
  BY <1>1, <1>3, <1>4, ConnsGood
<1>. HIDE DEF u
<1> QED
  BY <1>2, <1>5, BecomesGood DEF CacheInv

\* An entry expires.
LEMMA TimePassesCacheInv ==
  ASSUME CacheInv, NEW n \in Names, R!TimePasses(n)
  PROVE  CacheInv'
<1>. DEFINE e == [cache[n] EXCEPT !.due = TRUE]
            k == [cache EXCEPT ![n] = e]
            u == [R!World EXCEPT !.cache = k]
<1>1. /\ Good(R!World) /\ R!World \in Worlds /\ cache \in [Names -> Entries]
  BY WorldFields, WorldParts DEF CacheInv, Good
<1>2. R!Becomes({u}) /\ UNCHANGED <<open, asked>>
  BY DEF R!TimePasses, R!Becomes, R!World
<1>3. e \in Entries /\ e.pend = cache[n].pend /\ e.st = cache[n].st
  BY <1>1 DEF Entries
<1>. HIDE DEF e
<1>4. /\ k \in [Names -> Entries]
      /\ \A m \in Names : k[m].pend = cache[m].pend /\ k[m].st = cache[m].st
  BY <1>1, <1>3
<1>. HIDE DEF k
<1>5. u \in Worlds /\ u.sound /\ u.cache = k /\ u.conn = conn
  BY <1>1, <1>4, WorldFields DEF Worlds, Good
<1>. HIDE DEF u
<1>6. \A m \in Names : R!Waiting(u, m) = R!Waiting(R!World, m)
  BY <1>4, <1>5, WorldFields DEF R!Waiting
<1>7. Good(u)
  BY <1>1, <1>4, <1>5, <1>6, WorldFields DEF Good
<1> QED
  BY <1>2, <1>7, BecomesGood DEF CacheInv

\* Who resolves is on the list of its name.
LEMMA ResolvingListed ==
  ASSUME NEW w, Good(w), NEW s \in R!Conns, w.conn[s].st = "resolving"
  PROVE  w.conn[s].name \in Names /\ s \in R!Waiting(w, w.conn[s].name)
<1>1. PICK n \in Names : s \in R!Waiting(w, n)
  BY DEF Good, Done
<1>2. w.conn[s].name = n
  BY <1>1 DEF Good, Waiter
<1> QED
  BY <1>1, <1>2

\* connection_exit_about_to_close and connection_dns_remove.
LEMMA FreeMarkedCacheInv ==
  ASSUME CacheInv, NEW s \in R!Conns, R!FreeMarked(s)
  PROVE  CacheInv'
<1>. DEFINE n == conn[s].name
<1>1. /\ Good(R!World) /\ R!World \in Worlds /\ cache \in [Names -> Entries]
      /\ conn \in [R!Conns -> ConnRecs] /\ conn[s] \in ConnRecs /\ conn[s].marked
  BY WorldFields, WorldParts DEF CacheInv, Good, R!FreeMarked
<1>2. conn[s].ended /\ conn[s].told <= 1 /\ Done(R!Gone(conn[s])) /\ n \in Names
  <2>1. Done(conn[s]) \/ \E m \in Names : Waiter(conn[s], m)
    BY <1>1, WorldFields DEF Good
  <2>2. 0 <= 1
    OBVIOUS
  <2>3. conn[s].ended /\ conn[s].told <= 1 /\ n \in Names
    BY <1>1, <2>1, <2>2 DEF Done, Waiter
  <2> QED
    BY <1>1, <2>3, GoneDone
<1>3. CASE conn[s].st # "resolving"
  <2>. DEFINE p == conn[s].ended /\ s \notin R!Waiting(R!World, n)
              u == [R!World EXCEPT !.conn[s] = R!Gone(R!World.conn[s])]
  <2>1. \A m \in Names : s \notin R!Waiting(R!World, m)
    BY <1>1, <1>3, WorldFields DEF Good, Waiter
  <2>2. R!Becomes({R!Check(u, p)}) /\ UNCHANGED <<open, asked>>
    BY <1>3 DEF R!FreeMarked
  <2>3. p = TRUE
    BY <1>2, <2>1
  <2>4. Good(u)
    BY <1>1, <1>2, <2>1, WorldFields, ConnGood
  <2>. HIDE DEF p, u
  <2>5. R!Becomes({u})
    BY <2>2, <2>3, <2>4, GoodChecked
  <2> QED
    BY <2>2, <2>4, <2>5, BecomesGood DEF CacheInv
<1>4. CASE conn[s].st = "resolving"
  <2>. DEFINE q == cache[n].pend
              r == RemoveFirst(q, s)
              e == [cache[n] EXCEPT !.pend = r]
              k == [cache EXCEPT ![n] = e]
              a == [R!World EXCEPT !.cache = k]
              p == s \in R!Waiting(R!World, n)
              b == R!Check(a, p)
              d == R!Gone(b.conn[s])
              c == [b.conn EXCEPT ![s] = d]
              v == [b EXCEPT !.conn = c]
              o == conn[s].ended /\ s \notin R!Waiting(b, n)
              u == R!Check(v, o)
  <2>1. p = TRUE
    BY <1>1, <1>4, WorldFields, ResolvingListed
  <2>2. q \in Seq(R!Conns) /\ IsInjective(q) /\ q # <<>> /\ cache[n].st = "pending"
        /\ R!Waiting(R!World, n) = ToSet(q)
    <3>1. R!Waiting(R!World, n) = {} <=> cache[n].pend = <<>>
      BY <1>1, <1>2, WorldFields, WorldParts
    <3>2. cache[n].pend # <<>>
      BY <2>1, <3>1
    <3> QED
      BY <1>1, <1>2, <3>2, WorldFields, WorldParts, SameLibrary DEF Good, R!Waiting
  <2>3. r \in Seq(R!Conns) /\ IsInjective(r) /\ ToSet(r) = ToSet(q) \ {s}
    BY <2>2, RemoveFirstMembers
  <2>4. R!DnsRemove(R!World, s) = b
    BY <2>2, WorldFields, SameLibrary DEF R!DnsRemove
  <2>5. R!Becomes({u}) /\ UNCHANGED <<open, asked>>
    BY <1>4, <2>4 DEF R!FreeMarked
  <2>. HIDE DEF r
  <2>6. e \in Entries /\ e.st = "pending" /\ e.pend = r
    BY <1>1, <1>2, <2>2, <2>3 DEF Entries
  <2>. HIDE DEF e
  <2>7. k \in [Names -> Entries] /\ k[n] = e /\ \A m \in Names \ {n} : k[m] = cache[m]
    BY <1>1, <1>2, <2>6
  <2>. HIDE DEF k, p
  <2>8. b \in Worlds /\ b.sound /\ b.cache = k /\ b.conn = conn
    BY <1>1, <2>1, <2>7, WorldFields DEF Good, Worlds, R!Check
  <2>. HIDE DEF b
  <2>9. d = R!Gone(conn[s]) /\ Done(d)
    BY <1>2, <2>8
  <2>. HIDE DEF d
  <2>10. /\ c \in [R!Conns -> ConnRecs] /\ c[s] = d
         /\ \A t \in R!Conns \ {s} : c[t] = conn[t]
    BY <1>1, <2>8, <2>9 DEF Done
  <2>11. o = TRUE
    BY <1>2, <2>3, <2>6, <2>7, <2>8, SameLibrary DEF R!Waiting
  <2>. HIDE DEF c, o
  <2>12. u \in Worlds /\ u.sound /\ u.cache = k /\ u.conn = c
    BY <2>8, <2>10, <2>11 DEF Worlds, R!Check
  <2>. HIDE DEF u
  <2>13. /\ R!Waiting(u, n) = R!Waiting(R!World, n) \ {s}
         /\ \A m \in Names \ {n} : R!Waiting(u, m) = R!Waiting(R!World, m) /\ s \notin R!Waiting(R!World, m)
    <3>1. R!Waiting(u, n) = R!Waiting(R!World, n) \ {s}
      BY <2>2, <2>3, <2>6, <2>7, <2>12, SameLibrary DEF R!Waiting
    <3>2. ASSUME NEW m \in Names \ {n}
          PROVE  R!Waiting(u, m) = R!Waiting(R!World, m) /\ s \notin R!Waiting(R!World, m)
      <4>1. s \in R!Waiting(R!World, n)
        BY <2>1 DEF p
      <4>2. s \notin R!Waiting(R!World, m)
        BY <1>1, <1>2, <3>2, <4>1, ListsApart
      <4> QED
        BY <2>7, <2>12, <4>2, WorldFields DEF R!Waiting
    <3> QED
      BY <3>1, <3>2
  <2>14. \A m \in Names : R!Waiting(R!World, m) \subseteq R!Conns
    BY <1>1, WorldParts
  <2>15. ASSUME NEW m \in Names
         PROVE  /\ IsInjective(u.cache[m].pend)
                /\ u.cache[m].pend # <<>> => u.cache[m].st = "pending"
    <3>1. CASE m = n
      BY <2>3, <2>6, <2>7, <2>12, <3>1
    <3>2. CASE m # n
      BY <1>1, <2>7, <2>12, <3>2, WorldFields DEF Good
    <3> QED
      BY <3>1, <3>2
  <2>16. ASSUME NEW m \in Names, NEW t \in R!Waiting(u, m)
         PROVE  Waiter(u.conn[t], m)
    <3>1. t \in R!Waiting(R!World, m) /\ t # s /\ t \in R!Conns
      BY <2>13, <2>14, <2>16
    <3>2. u.conn[t] = R!World.conn[t]
      BY <2>10, <2>12, <3>1, WorldFields
    <3> QED
      BY <1>1, <3>1, <3>2 DEF Good
  <2>17. ASSUME NEW t \in R!Conns
         PROVE  Done(u.conn[t]) \/ \E m \in Names : t \in R!Waiting(u, m)
    <3>1. CASE t = s
      BY <2>9, <2>10, <2>12, <3>1
    <3>2. CASE t # s
      <4>1. u.conn[t] = R!World.conn[t]
        BY <2>10, <2>12, <3>2, WorldFields
      <4>2. \A m \in Names : t \in R!Waiting(R!World, m) => t \in R!Waiting(u, m)
        BY <2>13, <3>2
      <4> QED
        BY <1>1, <4>1, <4>2 DEF Good
    <3> QED
      BY <3>1, <3>2
  <2>18. Good(u)
    BY <2>12, <2>15, <2>16, <2>17 DEF Good
  <2> QED
    BY <2>5, <2>18, BecomesGood DEF CacheInv
<1> QED
  BY <1>3, <1>4

\* What every step keeps.
LEMMA StepCacheInv ==
  ASSUME ~Overlap
  PROVE  CacheInv /\ [R!Next]_(R!vars) => CacheInv'
<1> SUFFICES ASSUME CacheInv, [R!Next]_(R!vars) PROVE CacheInv'
  OBVIOUS
<1>1. ASSUME NEW s \in R!Conns, NEW c \in Circs, NEW n \in Names,
             NEW for \in {"connect", "resolve"}, R!Ask(s, c, n, for)
      PROVE  CacheInv'
  BY <1>1, AskCacheInv
<1>2. ASSUME NEW n \in Names, NEW outcome \in {"valid", "failed", "transient"},
             R!Answer(n, outcome)
      PROVE  CacheInv'
  BY <1>2, AnswerCacheInv
<1>3. ASSUME NEW s \in R!Conns, R!EndCell(s) PROVE CacheInv'
  BY <1>3, EndCellCacheInv
<1>4. ASSUME NEW s \in R!Conns, R!FreeMarked(s) PROVE CacheInv'
  BY <1>4, FreeMarkedCacheInv
<1>5. ASSUME NEW c \in Circs, R!CloseCircuit(c) PROVE CacheInv'
  BY <1>5, CloseCircuitCacheInv
<1>6. ASSUME NEW n \in Names, R!TimePasses(n) PROVE CacheInv'
  BY <1>6, TimePassesCacheInv
<1>7. CASE UNCHANGED R!vars
  BY <1>7 DEF R!vars, CacheInv, R!World
<1> QED
  BY <1>1, <1>2, <1>3, <1>4, <1>5, <1>6, <1>7 DEF R!Next
-----------------------------------------------------------------------------
(* What the invariant says. *)

LEMMA CacheInvSound ==
  ASSUME CacheInv
  PROVE  R!CacheSound
<1>1. Good(R!World) /\ R!World \in Worlds
  BY DEF CacheInv, Good
<1>2. sound
  BY <1>1, WorldFields DEF Good
<1>3. ASSUME NEW n \in Names
      PROVE  /\ cache[n].pend # <<>> => cache[n].st = "pending"
             /\ Cardinality(R!Waiting(R!World, n)) = Len(cache[n].pend)
  <2>1. cache[n].pend \in Seq(R!Conns) /\ IsInjective(cache[n].pend)
    BY <1>1, WorldFields, WorldParts DEF Good
  <2>2. R!Waiting(R!World, n) = ToSet(cache[n].pend)
    BY WorldFields, SameLibrary DEF R!Waiting
  <2>3. Cardinality(ToSet(cache[n].pend)) = Len(cache[n].pend)
    BY <2>1, InjectiveLength
  <2> QED
    BY <1>1, <2>2, <2>3, WorldFields DEF Good
<1>4. ASSUME NEW n \in Names
      PROVE  R!Waiting(R!World, n) = {s \in R!Conns : conn[s].st = "resolving" /\ conn[s].name = n}
  <2>1. ASSUME NEW s \in R!Waiting(R!World, n)
        PROVE  s \in R!Conns /\ conn[s].st = "resolving" /\ conn[s].name = n
    BY <1>1, <2>1, WorldFields, WorldParts DEF Good, Waiter
  <2>2. ASSUME NEW s \in R!Conns, conn[s].st = "resolving", conn[s].name = n
        PROVE  s \in R!Waiting(R!World, n)
    BY <1>1, <2>2, WorldFields, ResolvingListed
  <2> QED
    BY <2>1, <2>2
<1>5. ASSUME NEW s \in R!Conns
      PROVE  conn[s].told <= 1 /\ (conn[s].st = "resolving" => conn[s].told = 0)
  <2>1. Done(conn[s]) \/ \E n \in Names : Waiter(conn[s], n)
    BY <1>1, WorldFields DEF Good
  <2>2. 0 <= 1
    OBVIOUS
  <2> QED
    BY <2>1, <2>2 DEF Done, Waiter
<1> QED
  BY <1>2, <1>3, <1>4, <1>5, SameLibrary DEF R!CacheSound, R!WaitersListed, R!NoAssertFails

LEMMA CacheInvTypeOK ==
  ASSUME CacheInv
  PROVE  R!TypeOK
<1>1. R!World \in Worlds /\ sound = TRUE
  BY WorldFields DEF CacheInv, Good, Worlds
<1>2. cache \in [Names -> Entries] /\ conn \in [R!Conns -> ConnRecs]
  BY <1>1, WorldFields, WorldParts
<1> QED
  BY <1>1, <1>2 DEF CacheInv, R!TypeOK, Entries, ConnRecs

LEMMA AlwaysCacheInv ==
  ASSUME ~Overlap
  PROVE  R!Spec => []CacheInv
<1>1. R!Init => CacheInv
  BY InitCacheInv
<1>2. CacheInv /\ [R!Next]_(R!vars) => CacheInv'
  BY StepCacheInv
<1> QED
  BY <1>1, <1>2, PTL DEF R!Spec

\* The variables keep their types, and the requests of a name their bound.
THEOREM CacheTypeCorrect ==
  ASSUME ~Overlap
  PROVE  R!Spec => []R!TypeOK
<1>1. CacheInv => R!TypeOK
  BY CacheInvTypeOK
<1> QED
  BY <1>1, AlwaysCacheInv, PTL

\* dns.c: the pending lists and the RESOLVING connections agree, nobody is told
\* the outcome of a lookup twice, and no tor_assert fails, as long as a marked
\* connection is freed before the lookup it waits for expires.
THEOREM CacheAlwaysSound ==
  ASSUME ~Overlap
  PROVE  R!Spec => []CacheSound
<1>1. CacheInv => CacheSound
  BY CacheInvSound DEF CacheSound
<1> QED
  BY <1>1, AlwaysCacheInv, PTL
=============================================================================
