-------------------------- MODULE Directory_proofs --------------------------
(***************************************************************************)
(* The descriptor store, for any documents, routers, consensuses and       *)
(* bounds: the lists and maps stay one set of descriptors, what is in a    *)
(* store file is where it is said to be, and what the consensus lists is   *)
(* neither lost nor forgotten, unless it is too old for a consensus that   *)
(* has expired.  And the vote, for any finite set of authorities, however  *)
(* often they are restarted: two consensuses of an interval that differ    *)
(* are both signed by one that was.                                        *)
(***************************************************************************)
EXTENDS MCDirectory, SequenceLemmas

Places == {"nowhere", "journal", "cache"}
MemRec ==
  [routers : [Routers -> Descs \cup {Nil}], old : SUBSET Descs,
   byDigest : [Descs -> {"none", "router", "old"}], byExtra : [Extras -> Descs \cup {Nil}],
   extras : SUBSET Extras, uncached : SUBSET Descs, saved : [Items -> Places],
   at : [Items -> Nat], len : [Stores -> Nat], ok : BOOLEAN]
DiskRec == [Stores -> [file : Seq(Items), journal : Seq(Items \cup {Torn})]]
WorldRec == [mem : MemRec, disk : DiskRec, alive : BOOLEAN, errors : Nat]

\* What is no longer recorded of a document, and what is recorded as before.
Gone(m, i) == m.saved[i] = "nowhere" /\ i \notin m.uncached
Same(m, r, i) ==
  r.saved[i] = m.saved[i] /\ r.at[i] = m.at[i] /\ (i \in r.uncached <=> i \in m.uncached)

\* The entries of desc_by_eid_map name their key.
Named(m) == \A e \in Extras : m.byExtra[e] # Nil => ExtraOf[m.byExtra[e]] = e

\* r is m but for the lists of descriptors and documents that were forgotten.
Alike(m, r) ==
  /\ r \in MemRec /\ (Named(m) => Named(r)) /\ r.len = m.len /\ r.extras \subseteq m.extras
  /\ \A i \in Items : Same(m, r, i) \/ Gone(r, i)
  /\ \A e \in m.extras \ r.extras : Gone(r, e)
SameLists(m, r) ==
  r.routers = m.routers /\ r.old = m.old /\ r.byDigest = m.byDigest /\ r.ok = m.ok

LEMMA StoreConstants ==
  /\ Descs \subseteq Items /\ Extras \subseteq Items /\ Descs \cap Extras = {}
  /\ Nil \notin Descs /\ Nil \notin Extras /\ Items \subseteq Nat
  /\ ExtraOf \in [Descs -> Extras \cup {Nil}]
  /\ \A d \in Descs : Owner[d] \in Routers
BY StoreAssumption DEF Items, Routers

-----------------------------------------------------------------------------
(* Lists. *)

\* Folding 1 .. n from the first to the last.
Steps(f, n, b, D) == f[{}] = b /\ \A k \in 1 .. n : f[1 .. k] = D[<<k, f[1 .. (k - 1)]>>]

LEMMA MaxOf ==
  ASSUME NEW k \in Nat \ {0}, NEW x, x = Max(1 .. k)
  PROVE  x = k
<1>1. \E y \in 1 .. k : \A z \in 1 .. k : y >= z
  <2>1. k \in 1 .. k /\ \A z \in 1 .. k : k >= z
    OBVIOUS
  <2> QED BY <2>1
<1>2. x \in 1 .. k /\ \A z \in 1 .. k : x >= z
  BY <1>1 DEF Max
<1> QED
  BY <1>2

LEMMA MaxIn ==
  ASSUME NEW n \in Nat, NEW T \in SUBSET (1 .. n), T # {}
  PROVE  Max(T) \in T
<1> DEFINE U == {n - x : x \in T}
<1>1. U \in SUBSET Nat /\ U # {}
  <2>1. ASSUME NEW x \in T PROVE n - x \in Nat
    OBVIOUS
  <2> QED BY <2>1
<1>2. PICK u \in U : \A y \in U : u <= y
  BY <1>1, LeastOf
<1>3. PICK x \in T : u = n - x
  BY <1>2
<1>4. \A y \in T : x >= y
  <2> SUFFICES ASSUME NEW y \in T PROVE x >= y
    OBVIOUS
  <2>1. n - y \in U
    OBVIOUS
  <2> HIDE DEF U
  <2>2. u <= n - y
    BY <1>2, <2>1
  <2> QED
    BY <1>3, <2>2
<1>5. \E z \in T : \A y \in T : z >= y
  BY <1>4
<1> QED
  BY <1>5 DEF Max

\* A loop over a list from the first to the last.
LEMMA FoldSteps ==
  ASSUME NEW n \in Nat, NEW X, NEW b \in X, NEW D \in [(1 .. n) \X X -> X]
  PROVE  \E f : /\ Folds(f, 1 .. n, X, b, [T \in SUBSET (1 .. n) |-> Max(T)], D)
                /\ Steps(f, n, b, D)
<1> DEFINE S == 1 .. n
           pick == [T \in SUBSET S |-> Max(T)]
<1>1. \A T \in SUBSET S : T # {} => pick[T] \in T
  BY MaxIn
<1>2. IsFiniteSet(S)
  BY FS_Interval
<1>3. PICK f : Folds(f, S, X, b, pick, D)
  <2> HIDE DEF pick, S
  <2>1. D \in [S \X X -> X]
    BY DEF S
  <2> QED BY <1>1, <1>2, <2>1, FoldExists
<1>4. f[{}] = b
  BY <1>3 DEF Folds
<1>5. ASSUME NEW k \in 1 .. n PROVE f[1 .. k] = D[<<k, f[1 .. (k - 1)]>>]
  <2>1. 1 .. k \in SUBSET S /\ 1 .. k # {} /\ (1 .. k) \ {k} = 1 .. (k - 1)
    OBVIOUS
  <2>2. pick[1 .. k] = k
    BY <2>1, MaxOf
  <2> HIDE DEF pick, S
  <2> QED
    BY <1>3, <2>1, <2>2 DEF Folds
<1> QED
  BY <1>3, <1>4, <1>5 DEF Steps

LEMMA ThoseMembers ==
  ASSUME NEW Y, NEW q \in Seq(Y), NEW Z, NEW r, r = Those(q, Z)
  PROVE  r \in Seq(Y \cap Z) /\ \A i : Contains(r, i) <=> i \in Z /\ Contains(q, i)
<1> DEFINE n == Len(q)
           S == DOMAIN q
           op(k, out) == IF q[k] \in Z THEN Append(out, q[k]) ELSE out
           X == Seq(Y \cap Z)
           D == [p \in (1 .. n) \X X |-> op(p[1], p[2])]
           it == CHOOSE f : f = [T \in SUBSET S |-> IF T = {} THEN <<>> ELSE op(Max(T), f[T \ {Max(T)}])]
<1>1. r = it[S]
  BY DEF Those, FoldLeft, MapThenFoldSet
<1>2. S = 1 .. n /\ n \in Nat /\ \A k \in 1 .. n : q[k] \in Y
  BY LenProperties, ElementOfSeq
<1>3. ASSUME NEW k \in 1 .. n, NEW out \in X PROVE op(k, out) \in X
  BY <1>2, AppendProperties
<1>4. <<>> \in X
  BY EmptySeq
<1>5. D \in [(1 .. n) \X X -> X]
  BY <1>3
<1>6. PICK f : /\ Folds(f, 1 .. n, X, <<>>, [T \in SUBSET (1 .. n) |-> Max(T)], D)
               /\ Steps(f, n, <<>>, D)
  <2> HIDE DEF D, X
  <2> QED BY <1>2, <1>4, <1>5, FoldSteps
<1> HIDE DEF op
<1>7. it = [T \in SUBSET S |-> IF T = {} THEN <<>> ELSE op(Max(T), it[T \ {Max(T)}])]
  <2> DEFINE h == [T \in SUBSET S |-> IF T = {} THEN <<>> ELSE op(Max(T), f[T \ {Max(T)}])]
  <2>1. ASSUME NEW T \in SUBSET S PROVE f[T] = h[T]
    <3>1. CASE T = {}
      BY <1>2, <1>6, <3>1 DEF Folds
    <3>2. CASE T # {}
      <4>1. Max(T) \in T
        BY <1>2, <3>2, MaxIn
      <4>2. f[T \ {Max(T)}] \in X
        BY <1>2, <1>6 DEF Folds
      <4>3. f[T] = D[<<Max(T), f[T \ {Max(T)}]>>]
        BY <1>2, <1>6, <3>2 DEF Folds
      <4> HIDE DEF X
      <4> QED
        BY <1>2, <3>2, <4>1, <4>2, <4>3
    <3> QED BY <3>1, <3>2
  <2>2. f = h
    BY <1>2, <1>6, <2>1 DEF Folds
  <2> QED
    BY <2>2
<1> HIDE DEF it
<1>8. it[{}] = <<>>
  BY <1>7
<1>9. ASSUME NEW k \in 1 .. n PROVE it[1 .. k] = op(k, it[1 .. (k - 1)])
  <2>1. 1 .. k \in SUBSET S /\ 1 .. k # {} /\ (1 .. k) \ {k} = 1 .. (k - 1)
    <3>1. \A j \in 1 .. k : j \in 1 .. n
      BY <1>2
    <3>2. k \in Nat \ {0}
      BY <1>2
    <3>3. 1 .. k # {} /\ (1 .. k) \ {k} = 1 .. (k - 1)
      <4>1. k \in 1 .. k
        BY <3>2
      <4>2. ASSUME NEW j PROVE j \in (1 .. k) \ {k} <=> j \in 1 .. (k - 1)
        BY <3>2
      <4> QED
        BY <4>1, <4>2
    <3>4. 1 .. k \in SUBSET S
      BY <1>2, <3>1
    <3> QED
      BY <3>3, <3>4
  <2>2. Max(1 .. k) = k
    BY MaxOf
  <2> QED
    BY <1>7, <2>1, <2>2
<1> DEFINE Q(k) == it[1 .. k] \in X /\ \A i : Contains(it[1 .. k], i) <=> i \in Z /\ \E j \in 1 .. k : q[j] = i
           P == {k \in Nat : k <= n => Q(k)}
<1>10. 0 \in P
  <2>1. 1 .. 0 = {} /\ it[1 .. 0] = <<>>
    BY <1>8
  <2>2. \A i : ~Contains(<<>>, i)
    BY DEF Contains
  <2> HIDE DEF X
  <2> QED
    BY <1>4, <2>1, <2>2
<1>11. ASSUME NEW m \in Nat, m \in P PROVE m + 1 \in P
  <2>1. SUFFICES ASSUME m + 1 <= n PROVE Q(m + 1)
    OBVIOUS
  <2> DEFINE k == m + 1
             out == it[1 .. m]
             new == it[1 .. k]
  <2>2. k \in 1 .. n /\ k - 1 = m
    BY <1>2, <2>1
  <2>3. out \in X /\ \A i : Contains(out, i) <=> i \in Z /\ \E j \in 1 .. m : q[j] = i
    BY <1>2, <1>11, <2>1
  <2>4. new = op(k, out)
    BY <1>9, <2>2
  <2>5. \A i : (\E j \in 1 .. k : q[j] = i) <=> q[k] = i \/ \E j \in 1 .. m : q[j] = i
    <3>1. 1 .. k = 1 .. m \cup {k}
      BY <2>2
    <3> QED BY <3>1
  <2>6. new \in X
    BY <1>3, <2>2, <2>3, <2>4
  <2> HIDE DEF out, new, k, X
  <2>7. CASE q[k] \in Z
    <3>1. new = Append(out, q[k])
      BY <2>4, <2>7 DEF op
    <3>2. out \in Seq(Y) /\ q[k] \in Y
      BY <1>2, <2>2, <2>3 DEF X
    <3>3. /\ Len(new) = Len(out) + 1 /\ Len(out) \in Nat /\ new[Len(out) + 1] = q[k]
          /\ \A j \in 1 .. Len(out) : new[j] = out[j]
      BY <3>1, <3>2, AppendProperties
    <3>4. \A i : Contains(new, i) <=> q[k] = i \/ Contains(out, i)
      BY <3>3 DEF Contains
    <3> QED
      BY <2>3, <2>5, <2>6, <2>7, <3>4 DEF k, new
  <2>8. CASE q[k] \notin Z
    BY <2>3, <2>4, <2>5, <2>6, <2>8 DEF op, k, new
  <2> QED
    BY <2>7, <2>8
<1>12. n \in P
  <2> HIDE DEF P
  <2> QED
    BY <1>2, <1>10, <1>11, SetInduction
<1>13. Q(n)
  BY <1>2, <1>12
<1> QED
  BY <1>1, <1>2, <1>13 DEF Contains

\* A finite set of numbers has a greatest one.
LEMMA MaxOfFinite ==
  ASSUME NEW T, IsFiniteSet(T), T \subseteq Nat \ {0}, T # {}
  PROVE  Max(T) \in T /\ T \subseteq 1 .. Max(T)
<1> DEFINE P == {U \in SUBSET T : \E n \in Nat : U \subseteq 1 .. n}
<1>1. {} \in P
  BY 0 \in Nat
<1>2. ASSUME NEW U \in SUBSET T, U # {}, \A x \in U : U \ {x} \in P PROVE U \in P
  <2>1. PICK x \in U : TRUE
    BY <1>2
  <2>2. PICK n \in Nat : U \ {x} \subseteq 1 .. n
    BY <1>2, <2>1
  <2>3. x \in Nat \ {0}
    BY <1>2, <2>1
  <2> DEFINE k == IF n >= x THEN n ELSE x
  <2>4. k \in Nat /\ k >= n /\ k >= x
    BY <2>3
  <2> HIDE DEF k
  <2>5. ASSUME NEW y \in U PROVE y \in 1 .. k
    <3>1. CASE y = x
      BY <2>3, <2>4, <3>1
    <3>2. CASE y # x
      <4>1. y \in 1 .. n
        BY <2>2, <3>2
      <4> QED
        BY <2>4, <4>1
    <3> QED BY <3>1, <3>2
  <2> QED
    BY <2>4, <2>5
<1>3. T \in P
  <2> HIDE DEF P
  <2> QED
    BY <1>1, <1>2, SubsetInduction
<1>4. PICK n \in Nat : T \subseteq 1 .. n
  BY <1>3
<1>5. PICK x \in T : \A y \in T : x >= y
  <2> DEFINE U == {n - y : y \in T}
  <2>1. U \in SUBSET Nat /\ U # {}
    <3>1. ASSUME NEW y \in T PROVE n - y \in Nat
      BY <1>4
    <3> QED BY <3>1
  <2>2. PICK u \in U : \A y \in U : u <= y
    BY <2>1, LeastOf
  <2>3. PICK x \in T : u = n - x
    BY <2>2
  <2>4. ASSUME NEW y \in T PROVE x >= y
    <3>1. n - y \in U
      OBVIOUS
    <3> HIDE DEF U
    <3>2. u <= n - y
      BY <2>2, <3>1
    <3> QED
      BY <1>4, <2>3, <3>2
  <2> QED
    BY <2>4
<1>6. Max(T) \in T /\ \A y \in T : Max(T) >= y
  BY <1>5 DEF Max
<1> HIDE DEF P
<1>7. ASSUME NEW y \in T PROVE y \in 1 .. Max(T)
  <2>1. y \in Nat \ {0} /\ Max(T) \in Nat /\ Max(T) >= y
    BY <1>6
  <2> QED BY <2>1
<1> QED
  BY <1>6, <1>7

LEMMA SortedMembers ==
  ASSUME Items \subseteq Nat \ {0}, Items # {}, IsFiniteSet(Items), NEW Z \in SUBSET Items,
         NEW r, r = Sorted(Z)
  PROVE  r \in Seq(Items) /\ \A i : Contains(r, i) <=> i \in Z
<1> DEFINE N == Max(Items)
           q == [i \in 1 .. N |-> i]
<1>1. N \in Nat /\ Items \subseteq 1 .. N
  BY MaxOfFinite
<1>2. q \in Seq(1 .. N) /\ Len(q) = N
  BY <1>1
<1>3. r = Those(q, Z)
  BY DEF Sorted
<1>4. \A i \in Items : Contains(q, i)
  <2> SUFFICES ASSUME NEW i \in Items PROVE \E k \in 1 .. Len(q) : q[k] = i
    BY DEF Contains
  <2>1. i \in 1 .. N /\ q[i] = i
    BY <1>1
  <2> QED
    BY <1>2, <2>1
<1> HIDE DEF q
<1>5. r \in Seq((1 .. N) \cap Z) /\ \A i : Contains(r, i) <=> i \in Z /\ Contains(q, i)
  BY <1>2, <1>3, ThoseMembers
<1>6. r \in Seq(Items)
  <2>1. (1 .. N) \cap Z \subseteq Items
    OBVIOUS
  <2>2. \A k \in 1 .. Len(r) : r[k] \in Items
    BY <1>5, <2>1, ElementOfSeq
  <2> QED
    BY <1>5, <2>2, LenProperties, SeqDef
<1> QED
  BY <1>4, <1>5, <1>6

LEMMA PositionRight ==
  ASSUME NEW Y, NEW q \in Seq(Y), NEW i, Contains(q, i)
  PROVE  Position(q, i) \in DOMAIN q /\ q[Position(q, i)] = i /\ Position(q, i) \in Nat
<1> DEFINE I == {k \in 1 .. Len(q) : q[k] = i}
<1>1. I # {} /\ I \in SUBSET Nat
  BY DEF Contains
<1>2. \E k \in I : \A j \in I : k <= j
  BY <1>1, LeastOf
<1>3. Position(q, i) = Min(I)
  BY <1>1 DEF Position, SelectInSeq
<1>4. Min(I) \in I
  <2> HIDE DEF I
  <2> QED BY <1>2 DEF Min
<1> QED
  BY <1>3, <1>4, LenProperties
-----------------------------------------------------------------------------
(* What is changed, and what is not. *)

LEMMA AlikeTransitive ==
  ASSUME NEW m \in MemRec, NEW n, NEW r, Alike(m, n), Alike(n, r)
  PROVE  Alike(m, r)
BY StoreConstants DEF Alike, Gone, Same, MemRec

LEMMA ForgottenAlike ==
  ASSUME NEW m \in MemRec, NEW i \in Items, NEW r, r = Forgotten(m, i)
  PROVE  Alike(m, r) /\ SameLists(m, r) /\ Gone(r, i) /\ r.extras = m.extras
<1>1. r = [m EXCEPT !.saved = [m.saved EXCEPT ![i] = "nowhere"], !.at = [m.at EXCEPT ![i] = 0],
                    !.uncached = m.uncached \ {i}]
  BY DEF Forgotten
<1>2. r \in MemRec
  <2>1. /\ [m.saved EXCEPT ![i] = "nowhere"] \in [Items -> Places]
        /\ [m.at EXCEPT ![i] = 0] \in [Items -> Nat] /\ m.uncached \ {i} \in SUBSET Descs
    BY DEF MemRec, Places
  <2> QED
    BY <1>1, <2>1 DEF MemRec
<1>3. /\ r.saved = [m.saved EXCEPT ![i] = "nowhere"] /\ r.at = [m.at EXCEPT ![i] = 0]
      /\ r.uncached = m.uncached \ {i} /\ r.byExtra = m.byExtra /\ r.len = m.len
      /\ r.extras = m.extras /\ SameLists(m, r)
  BY <1>1 DEF MemRec, SameLists
<1>4. m.saved \in [Items -> Places] /\ m.at \in [Items -> Nat]
  BY DEF MemRec
<1>5. Gone(r, i)
  BY <1>3, <1>4 DEF Gone
<1>6. \A j \in Items \ {i} : Same(m, r, j)
  BY <1>3, <1>4 DEF Same
<1> QED
  BY <1>2, <1>3, <1>5, <1>6 DEF Alike, Named

LEMMA WithoutExtraAlike ==
  ASSUME NEW m \in MemRec, NEW e, NEW r, r = WithoutExtra(m, e)
  PROVE  Alike(m, r) /\ SameLists(m, r)
<1>1. CASE e \notin m.extras
  BY <1>1 DEF WithoutExtra, Alike, SameLists, Same
<1>2. CASE e \in m.extras
  <2> DEFINE n == [m EXCEPT !.extras = m.extras \ {e}]
  <2>1. e \in Items
    BY <1>2, StoreConstants DEF MemRec
  <2>2. n \in MemRec /\ r = Forgotten(n, e)
    BY <1>2 DEF MemRec, WithoutExtra
  <2>3. /\ n.extras = m.extras \ {e} /\ n.len = m.len /\ n.byExtra = m.byExtra /\ n.saved = m.saved
        /\ n.at = m.at /\ n.uncached = m.uncached /\ SameLists(m, n)
    BY DEF MemRec, SameLists
  <2> HIDE DEF n
  <2>4. Alike(n, r) /\ SameLists(n, r) /\ Gone(r, e) /\ r.extras = n.extras
    BY <2>1, <2>2, ForgottenAlike
  <2>5. Alike(m, r)
    BY <2>3, <2>4 DEF Alike, Named, Same, Gone
  <2> QED
    BY <2>3, <2>4, <2>5 DEF SameLists
<1> QED BY <1>1, <1>2

LEMMA NamesAlike ==
  ASSUME NEW m \in MemRec, NEW d \in Descs, NEW r, r = Names(m, d) \/ r = Unnames(m, d)
  PROVE  Alike(m, r) /\ SameLists(m, r) /\ \A i \in Items : Same(m, r, i)
<1> DEFINE e == ExtraOf[d]
<1>1. CASE e = Nil
  BY <1>1 DEF Names, Unnames, Alike, SameLists, Same
<1>2. CASE e # Nil
  <2>1. e \in Extras
    BY <1>2, StoreConstants
  <2>2. PICK x \in {d, Nil} : r = [m EXCEPT !.byExtra = [m.byExtra EXCEPT ![e] = x]]
    BY <1>2 DEF Names, Unnames
  <2>3. r \in MemRec
    BY <2>1, <2>2 DEF MemRec
  <2>4. /\ r.byExtra = [m.byExtra EXCEPT ![e] = x] /\ r.saved = m.saved /\ r.at = m.at
        /\ r.uncached = m.uncached /\ r.extras = m.extras /\ r.len = m.len /\ SameLists(m, r)
    BY <2>2 DEF MemRec, SameLists
  <2>5. m.byExtra \in [Extras -> Descs \cup {Nil}]
    BY DEF MemRec
  <2>6. Named(m) => Named(r)
    BY <2>1, <2>4, <2>5 DEF Named
  <2> QED
    BY <2>3, <2>4, <2>6 DEF Alike, Same
<1> QED BY <1>1, <1>2


-----------------------------------------------------------------------------
(* The lists of descriptors. *)

\* What routerlist_assert_ok says of the lists.
ListsOK(m) ==
  /\ m.ok
  /\ \A d \in Descs : /\ m.byDigest[d] = "router" <=> m.routers[Owner[d]] = d
                      /\ m.byDigest[d] = "old" <=> d \in m.old
  /\ \A r \in Routers : m.routers[r] # Nil => Owner[m.routers[r]] = r
  /\ caches \/ m.old = {}
Whole(m) == ListsOK(m) /\ Named(m)

\* The descriptor d comes, or goes, and those of N may go with it: no other
\* comes, none that is retained goes, and what goes is forgotten.
Moves(m, r, N) ==
  /\ Alike(m, r) /\ Whole(r)
  /\ \A i \in Descs \ N : Retained(i) => r.byDigest[i] = m.byDigest[i]
  /\ \A i \in Descs \ N : m.byDigest[i] = "none" => r.byDigest[i] = "none"
  /\ \A i \in Descs : r.byDigest[i] = "none" /\ m.byDigest[i] # "none" => Gone(r, i)

LEMMA MovesTransitive ==
  ASSUME NEW m \in MemRec, NEW n, NEW r, Moves(m, n, {}), Moves(n, r, {})
  PROVE  Moves(m, r, {})
<1>1. n \in MemRec /\ r \in MemRec
  BY DEF Moves, Alike
<1>2. Alike(m, r)
  BY AlikeTransitive DEF Moves
<1>3. ASSUME NEW i \in Descs, r.byDigest[i] = "none", m.byDigest[i] # "none" PROVE Gone(r, i)
  <2>1. CASE n.byDigest[i] = "none"
    <3>1. Gone(n, i)
      BY <1>3, <2>1 DEF Moves
    <3>2. Same(n, r, i) \/ Gone(r, i)
      BY StoreConstants DEF Moves, Alike
    <3> QED
      BY <3>1, <3>2 DEF Gone, Same
  <2>2. CASE n.byDigest[i] # "none"
    BY <1>3, <2>2 DEF Moves
  <2> QED BY <2>1, <2>2
<1> QED
  BY <1>2, <1>3 DEF Moves

\* A change of the lists alone, and what is left of the rest.
Relists(m, R, o, b, n) == n = [m EXCEPT !.routers = R, !.old = o, !.byDigest = b]
LEMMA ListsChange ==
  ASSUME NEW m \in MemRec, NEW R, NEW o, NEW b, NEW n \in MemRec, Relists(m, R, o, b, n)
  PROVE  /\ Alike(m, n) /\ n.routers = R /\ n.old = o /\ n.byDigest = b /\ n.ok = m.ok
         /\ n.extras = m.extras /\ \A i \in Items : Same(m, n, i)
<1>2. /\ n.byExtra = m.byExtra /\ n.saved = m.saved /\ n.at = m.at /\ n.extras = m.extras
      /\ n.uncached = m.uncached /\ n.len = m.len
      /\ n.routers = R /\ n.old = o /\ n.byDigest = b /\ n.ok = m.ok
  BY DEF MemRec, Relists
<1> QED
  BY <1>2 DEF Alike, Same, Named

LEMMA RemoveOldMoves ==
  ASSUME NEW m \in MemRec, Whole(m), NEW d \in m.old, ~Retained(d), NEW r, r = RemoveOld(m, d)
  PROVE  Moves(m, r, {}) /\ r.byDigest = [m.byDigest EXCEPT ![d] = "none"]
<1>1. d \in Descs /\ d \in Items /\ m.byDigest[d] = "old"
  BY StoreConstants DEF MemRec, Whole, ListsOK
<1> DEFINE b == [m.byDigest EXCEPT ![d] = "none"]
           out == [m EXCEPT !.routers = m.routers, !.old = m.old \ {d}, !.byDigest = b]
           x == WithoutExtra(out, ExtraOf[d])
           y == Unnames(x, d)
<1>2. /\ m.routers \in [Routers -> Descs \cup {Nil}] /\ m.old \in SUBSET Descs
      /\ b \in [Descs -> {"none", "router", "old"}] /\ m.ok = TRUE
      /\ m.byDigest \in [Descs -> {"none", "router", "old"}]
  BY DEF MemRec, Whole, ListsOK
<1>3. r = Forgotten(y, d)
  <2>1. Check([m EXCEPT !.old = m.old \ {d}, !.byDigest = b], d \in m.old /\ m.byDigest[d] = "old")
          = out
    BY <1>1, <1>2 DEF Check, MemRec
  <2> QED
    BY <2>1 DEF RemoveOld
<1>0. Relists(m, m.routers, m.old \ {d}, b, out)
  BY DEF Relists
<1> HIDE DEF out, b
<1>4. /\ Alike(m, out) /\ out.routers = m.routers /\ out.old = m.old \ {d} /\ out.byDigest = b
      /\ out.ok = TRUE
  <2>1. m.old \ {d} \in SUBSET Descs
    BY <1>2
  <2>2. out \in MemRec
    BY <1>0, <1>2, <2>1 DEF Relists, MemRec
  <2> QED
    BY <1>0, <1>2, <2>2, ListsChange
<1>5. Alike(out, x) /\ SameLists(out, x) /\ out \in MemRec /\ x \in MemRec
  BY <1>4, WithoutExtraAlike DEF Alike
<1> HIDE DEF x
<1>6. Alike(x, y) /\ SameLists(x, y) /\ y \in MemRec
  BY <1>1, <1>5, NamesAlike DEF Alike
<1> HIDE DEF y
<1>7. Alike(y, r) /\ SameLists(y, r) /\ Gone(r, d)
  BY <1>1, <1>3, <1>6, ForgottenAlike
<1>8. Alike(m, r)
  BY <1>4, <1>5, <1>6, <1>7, AlikeTransitive
<1>9. r.routers = m.routers /\ r.old = m.old \ {d} /\ r.byDigest = b /\ r.ok = TRUE
  BY <1>4, <1>5, <1>6, <1>7 DEF SameLists
<1>10. b[d] = "none" /\ \A i \in Descs : i # d => b[i] = m.byDigest[i]
  BY <1>2 DEF b
<1>11. ListsOK(r)
  BY <1>1, <1>9, <1>10 DEF ListsOK, Whole
<1>12. Whole(r)
  BY <1>8, <1>11 DEF Whole, Alike
<1>13. Moves(m, r, {})
  BY <1>1, <1>7, <1>8, <1>9, <1>10, <1>12 DEF Moves
<1> QED
  BY <1>9, <1>13 DEF b

\* A descriptor that moves to old_routers.
Marked(m, d, v, r) == r.byDigest = [m.byDigest EXCEPT ![d] = v]
LEMMA AsOldAlike ==
  ASSUME NEW m \in MemRec, NEW d \in Descs, NEW r, r = AsOld(m, d)
  PROVE  /\ Alike(m, r) /\ r.routers = m.routers /\ r.ok = m.ok
         /\ r.old = m.old \cup {d} /\ Marked(m, d, "old", r)
<1> DEFINE b == [m.byDigest EXCEPT ![d] = "old"]
           n == [m EXCEPT !.routers = m.routers, !.old = m.old \cup {d}, !.byDigest = b]
<1>1. r = Names(n, d)
  BY DEF AsOld, MemRec
<1>2. Relists(m, m.routers, m.old \cup {d}, b, n)
  BY DEF Relists
<1>3. m.old \cup {d} \in SUBSET Descs /\ b \in [Descs -> {"none", "router", "old"}]
  BY DEF MemRec
<1>4. n \in MemRec
  BY <1>3 DEF MemRec
<1> HIDE DEF n, b
<1>5. /\ Alike(m, n) /\ n.routers = m.routers /\ n.old = m.old \cup {d} /\ n.byDigest = b
      /\ n.ok = m.ok
  BY <1>2, <1>4, ListsChange
<1>6. Alike(n, r) /\ SameLists(n, r)
  BY <1>1, <1>4, NamesAlike
<1>7. Alike(m, r)
  BY <1>5, <1>6, AlikeTransitive
<1> QED
  BY <1>5, <1>6, <1>7 DEF SameLists, b, Marked

\* One that comes to routers.
LEMMA AsRouterAlike ==
  ASSUME NEW m \in MemRec, NEW d \in Descs, NEW r, r = AsRouter(m, d)
  PROVE  /\ Alike(m, r) /\ r.routers = [m.routers EXCEPT ![Owner[d]] = d] /\ r.ok = m.ok
         /\ r.old = m.old /\ r.byDigest = [m.byDigest EXCEPT ![d] = "router"]
<1> DEFINE b == [m.byDigest EXCEPT ![d] = "router"]
           R == [m.routers EXCEPT ![Owner[d]] = d]
           n == [m EXCEPT !.routers = R, !.old = m.old, !.byDigest = b]
<1>1. r = Names(n, d)
  BY DEF AsRouter, MemRec
<1>2. Relists(m, R, m.old, b, n)
  BY DEF Relists
<1>3. R \in [Routers -> Descs \cup {Nil}] /\ b \in [Descs -> {"none", "router", "old"}]
  BY StoreConstants DEF MemRec
<1>4. n \in MemRec
  BY <1>3 DEF MemRec
<1> HIDE DEF n, b, R
<1>5. Alike(m, n) /\ n.routers = R /\ n.old = m.old /\ n.byDigest = b /\ n.ok = m.ok
  BY <1>2, <1>4, ListsChange
<1>6. Alike(n, r) /\ SameLists(n, r)
  BY <1>1, <1>4, NamesAlike
<1>7. Alike(m, r)
  BY <1>5, <1>6, AlikeTransitive
<1> QED
  BY <1>5, <1>6, <1>7 DEF SameLists, b, R

\* One that is forgotten, with its entry by extra-info.
LEMMA LeaverAlike ==
  ASSUME NEW m \in MemRec, NEW d \in Descs, NEW q, Alike(m, q), SameLists(m, q),
         NEW r, r = Forgotten(Unnames(q, d), d)
  PROVE  Alike(m, r) /\ SameLists(m, r) /\ Gone(r, d)
<1> DEFINE y == Unnames(q, d)
<1>1. d \in Items /\ q \in MemRec
  BY StoreConstants DEF Alike
<1>2. Alike(q, y) /\ SameLists(q, y) /\ y \in MemRec
  BY <1>1, NamesAlike DEF Alike
<1>3. Alike(y, r) /\ SameLists(y, r) /\ Gone(r, d)
  BY <1>1, <1>2, ForgottenAlike
<1> HIDE DEF y
<1>4. Alike(m, r)
  BY <1>1, <1>2, <1>3, AlikeTransitive
<1> QED
  BY <1>2, <1>3, <1>4 DEF SameLists

LEMMA CheckHolds ==
  ASSUME NEW m \in MemRec, m.ok, NEW p \in BOOLEAN, p
  PROVE  Check(m, p) = m
BY DEF Check, MemRec

LEMMA RemoveRouterMoves ==
  ASSUME NEW m \in MemRec, Whole(m), NEW d \in Descs, m.byDigest[d] = "router", ~Retained(d),
         NEW r, r = RemoveRouter(m, d)
  PROVE  /\ Moves(m, r, {})
         /\ r.byDigest = [m.byDigest EXCEPT ![d] = IF caches THEN "old" ELSE "none"]
<1> DEFINE R == [m.routers EXCEPT ![Owner[d]] = Nil]
           none == [m.byDigest EXCEPT ![d] = "none"]
           out == [m EXCEPT !.routers = R, !.old = m.old, !.byDigest = m.byDigest]
           off == [m EXCEPT !.routers = R, !.old = m.old, !.byDigest = none]
           q == WithoutExtra(off, ExtraOf[d])
<1>1. /\ R \in [Routers -> Descs \cup {Nil}] /\ none \in [Descs -> {"none", "router", "old"}]
      /\ m.byDigest \in [Descs -> {"none", "router", "old"}] /\ m.routers \in [Routers -> Descs \cup {Nil}]
      /\ m.old \in SUBSET Descs /\ m.ok = TRUE /\ d \in Items /\ Owner[d] \in Routers /\ d # Nil
  BY StoreConstants DEF MemRec, Whole, ListsOK
<1>2. out \in MemRec /\ off \in MemRec
  BY <1>1 DEF MemRec
<1>3. Relists(m, R, m.old, m.byDigest, out) /\ Relists(m, R, m.old, none, off)
  BY DEF Relists
<1>4. r = IF caches THEN AsOld(out, d) ELSE Forgotten(Unnames(q, d), d)
  <2>1. Check([m EXCEPT !.routers[Owner[d]] = Nil], m.byDigest[d] = "router") = out
    BY <1>1 DEF Check, MemRec
  <2>2. [out EXCEPT !.byDigest[d] = "none"] = off
    BY <1>1 DEF MemRec
  <2> QED
    BY <2>1, <2>2 DEF RemoveRouter
<1> HIDE DEF out, off, R, none
<1>5. /\ Alike(m, out) /\ out.routers = R /\ out.old = m.old /\ out.byDigest = m.byDigest
      /\ out.ok = m.ok
  BY <1>2, <1>3, ListsChange
<1>6. Alike(m, off) /\ off.routers = R /\ off.old = m.old /\ off.byDigest = none /\ off.ok = m.ok
  BY <1>2, <1>3, ListsChange
<1>7. none[d] = "none" /\ \A i \in Descs : i # d => none[i] = m.byDigest[i]
  BY <1>1 DEF none
<1>8. R[Owner[d]] = Nil /\ \A x \in Routers : x # Owner[d] => R[x] = m.routers[x]
  BY <1>1 DEF R
<1>9. CASE caches
  <2> DEFINE b == [m.byDigest EXCEPT ![d] = "old"]
  <2>1. Alike(out, r) /\ r.routers = R /\ r.ok = m.ok /\ r.old = m.old \cup {d} /\ r.byDigest = b
    BY <1>2, <1>4, <1>5, <1>9, AsOldAlike DEF Marked
  <2>2. b[d] = "old" /\ \A i \in Descs : i # d => b[i] = m.byDigest[i]
    BY <1>1
  <2>3. Alike(m, r)
    BY <1>5, <2>1, AlikeTransitive
  <2> HIDE DEF b
  <2>4. ListsOK(r)
    BY <1>1, <1>8, <1>9, <2>1, <2>2, StoreConstants DEF ListsOK, Whole
  <2>5. Whole(r)
    BY <2>3, <2>4 DEF Whole, Alike
  <2>6. Moves(m, r, {})
    BY <2>1, <2>2, <2>3, <2>5 DEF Moves
  <2> QED
    BY <1>9, <2>1, <2>6 DEF b
<1>10. CASE ~caches
  <2>1. Alike(off, q) /\ SameLists(off, q)
    BY <1>2, WithoutExtraAlike
  <2> HIDE DEF q
  <2>2. Alike(off, r) /\ SameLists(off, r) /\ Gone(r, d)
    BY <1>2, <1>4, <1>10, <2>1, LeaverAlike
  <2>3. Alike(m, r)
    BY <1>6, <2>2, AlikeTransitive
  <2>4. r.routers = R /\ r.ok = m.ok /\ r.old = m.old /\ r.byDigest = none
    BY <1>6, <2>2 DEF SameLists
  <2>5. ListsOK(r)
    BY <1>1, <1>7, <1>8, <1>10, <2>4, StoreConstants DEF ListsOK, Whole
  <2>6. Whole(r)
    BY <2>3, <2>5 DEF Whole, Alike
  <2>7. Moves(m, r, {})
    BY <1>7, <2>2, <2>3, <2>4, <2>6 DEF Moves
  <2> QED
    BY <1>10, <2>4, <2>7 DEF none
<1> QED BY <1>9, <1>10

LEMMA InsertMoves ==
  ASSUME NEW m \in MemRec, Whole(m), NEW d \in Descs, m.byDigest[d] = "none",
         m.routers[Owner[d]] = Nil, NEW r, r = Insert(m, d)
  PROVE  Moves(m, r, {d}) /\ r.byDigest = [m.byDigest EXCEPT ![d] = "router"]
<1> DEFINE R == [m.routers EXCEPT ![Owner[d]] = d]
           b == [m.byDigest EXCEPT ![d] = "router"]
           n == AsRouter(m, d)
<1>1. /\ m.byDigest \in [Descs -> {"none", "router", "old"}] /\ m.routers \in [Routers -> Descs \cup {Nil}]
      /\ m.old \in SUBSET Descs /\ m.ok = TRUE /\ Owner[d] \in Routers /\ d # Nil
  BY StoreConstants DEF MemRec, Whole, ListsOK
<1>2. Alike(m, n) /\ n.routers = R /\ n.ok = m.ok /\ n.old = m.old /\ n.byDigest = b
  BY AsRouterAlike
<1>3. r = n
  <2>1. n \in MemRec /\ n.ok
    BY <1>1, <1>2 DEF Alike
  <2> HIDE DEF n
  <2>2. Check(n, m.routers[Owner[d]] = Nil /\ m.byDigest[d] = "none") = n
    BY <2>1, CheckHolds
  <2> QED
    BY <2>2 DEF Insert, n
<1> HIDE DEF n
<1>4. b[d] = "router" /\ \A i \in Descs : i # d => b[i] = m.byDigest[i]
  BY <1>1
<1>5. R[Owner[d]] = d /\ \A x \in Routers : x # Owner[d] => R[x] = m.routers[x]
  BY <1>1
<1> HIDE DEF R, b
<1>6. ListsOK(r)
  <2>1. r.routers = R /\ r.ok = TRUE /\ r.old = m.old /\ r.byDigest = b
    BY <1>1, <1>2, <1>3
  <2>2. ASSUME NEW i \in Descs PROVE b[i] = "router" <=> R[Owner[i]] = i
    BY <1>1, <1>4, <1>5, StoreConstants DEF ListsOK, Whole
  <2>3. ASSUME NEW i \in Descs PROVE b[i] = "old" <=> i \in m.old
    BY <1>4 DEF ListsOK, Whole
  <2>4. ASSUME NEW x \in Routers, R[x] # Nil PROVE Owner[R[x]] = x
    BY <1>5, <2>4 DEF ListsOK, Whole
  <2> QED
    BY <2>1, <2>2, <2>3, <2>4 DEF ListsOK, Whole
<1>7. Whole(r)
  BY <1>2, <1>3, <1>6 DEF Whole, Alike
<1>8. Moves(m, r, {d})
  BY <1>2, <1>3, <1>4, <1>7 DEF Moves
<1> QED
  BY <1>2, <1>3, <1>8 DEF b

LEMMA InsertOldMoves ==
  ASSUME NEW m \in MemRec, Whole(m), NEW d \in Descs, m.byDigest[d] = "none",
         NEW r, r = InsertOld(m, d)
  PROVE  /\ Moves(m, r, {d})
         /\ r.byDigest = IF caches THEN [m.byDigest EXCEPT ![d] = "old"] ELSE m.byDigest
         /\ caches \/ Gone(r, d)
<1>1. /\ m.byDigest \in [Descs -> {"none", "router", "old"}] /\ m.routers \in [Routers -> Descs \cup {Nil}]
      /\ m.old \in SUBSET Descs /\ m.ok = TRUE /\ Owner[d] \in Routers /\ d # Nil /\ d \in Items
  BY StoreConstants DEF MemRec, Whole, ListsOK
<1>2. CASE caches
  <2> DEFINE b == [m.byDigest EXCEPT ![d] = "old"]
  <2>1. r = AsOld(m, d)
    BY <1>2 DEF InsertOld
  <2>2. Alike(m, r) /\ r.routers = m.routers /\ r.ok = m.ok /\ r.old = m.old \cup {d} /\ r.byDigest = b
    BY <2>1, AsOldAlike DEF Marked
  <2>3. b[d] = "old" /\ \A i \in Descs : i # d => b[i] = m.byDigest[i]
    BY <1>1
  <2> HIDE DEF b
  <2>4. ListsOK(r)
    BY <1>1, <1>2, <2>2, <2>3, StoreConstants DEF ListsOK, Whole
  <2>5. Whole(r)
    BY <2>2, <2>4 DEF Whole, Alike
  <2>6. Moves(m, r, {d})
    BY <2>2, <2>3, <2>5 DEF Moves
  <2> QED
    BY <1>2, <2>2, <2>6 DEF b
<1>3. CASE ~caches
  <2>1. r = Forgotten(m, d)
    BY <1>3 DEF InsertOld
  <2>2. Alike(m, r) /\ SameLists(m, r) /\ Gone(r, d)
    BY <1>1, <2>1, ForgottenAlike
  <2>3. Whole(r)
    BY <2>2 DEF Whole, ListsOK, SameLists, Alike
  <2>4. Moves(m, r, {d})
    BY <2>2, <2>3 DEF Moves, SameLists
  <2> QED
    BY <1>3, <2>2, <2>4 DEF SameLists
<1> QED BY <1>2, <1>3

LEMMA ReplaceMoves ==
  ASSUME NEW m \in MemRec, Whole(m), NEW d \in Descs, m.byDigest[d] = "none",
         m.routers[Owner[d]] # Nil, ~Retained(m.routers[Owner[d]]), NEW r, r = ReplaceRouter(m, d)
  PROVE  Moves(m, r, {d}) /\ r.byDigest[d] = "router"
<1> DEFINE o == m.routers[Owner[d]]
           R == [m.routers EXCEPT ![Owner[d]] = d]
           b == [m.byDigest EXCEPT ![d] = "router"]
           none == [b EXCEPT ![o] = "none"]
           in == AsRouter(m, d)
           out == [in EXCEPT !.routers = R, !.old = m.old, !.byDigest = none]
           q == IF ExtraOf[o] = ExtraOf[d] THEN out ELSE WithoutExtra(out, ExtraOf[o])
<1>1. /\ m.byDigest \in [Descs -> {"none", "router", "old"}] /\ m.routers \in [Routers -> Descs \cup {Nil}]
      /\ m.old \in SUBSET Descs /\ m.ok = TRUE /\ Owner[d] \in Routers /\ d # Nil
      /\ o \in Descs /\ Owner[o] = Owner[d] /\ m.byDigest[o] = "router" /\ o # d /\ o \in Items
  <2>1. /\ m.byDigest \in [Descs -> {"none", "router", "old"}] /\ m.routers \in [Routers -> Descs \cup {Nil}]
        /\ m.old \in SUBSET Descs /\ m.ok = TRUE /\ Owner[d] \in Routers /\ d # Nil
    BY StoreConstants DEF MemRec, Whole, ListsOK
  <2>2. o \in Descs
    BY <2>1
  <2>3. Owner[o] = Owner[d]
    BY <2>1 DEF Whole, ListsOK
  <2>4. m.byDigest[o] = "router"
    BY <2>2, <2>3 DEF Whole, ListsOK
  <2> QED
    BY <2>1, <2>2, <2>3, <2>4, StoreConstants
<1>2. Alike(m, in) /\ in.routers = R /\ in.ok = m.ok /\ in.old = m.old /\ in.byDigest = b
  BY AsRouterAlike
<1>3. in \in MemRec /\ in.ok
  BY <1>1, <1>2 DEF Alike
<1>4. r = IF caches THEN AsOld(in, o) ELSE Forgotten(Unnames(q, o), o)
  <2>1. Check(in, m.byDigest[d] = "none") = in
    <3> HIDE DEF in
    <3> QED BY <1>3, CheckHolds
  <2>2. [in EXCEPT !.byDigest[o] = "none"] = out
    <3> HIDE DEF in, R, b
    <3> QED BY <1>2, <1>3 DEF MemRec
  <2> QED
    BY <2>1, <2>2 DEF ReplaceRouter
<1> HIDE DEF o, in
<1>5. b[d] = "router" /\ b \in [Descs -> {"none", "router", "old"}]
      /\ \A i \in Descs : i # d => b[i] = m.byDigest[i]
  BY <1>1
<1>6. R[Owner[d]] = d /\ \A x \in Routers : x # Owner[d] => R[x] = m.routers[x]
  BY <1>1
<1> HIDE DEF R, b
<1>7. CASE caches
  <2> DEFINE g == [b EXCEPT ![o] = "old"]
  <2>1. /\ Alike(in, r) /\ r.routers = R /\ r.ok = m.ok /\ r.old = m.old \cup {o} /\ r.byDigest = g
    <3>1. r = AsOld(in, o)
      BY <1>4, <1>7
    <3>2. /\ Alike(in, r) /\ r.routers = in.routers /\ r.ok = in.ok /\ r.old = in.old \cup {o}
          /\ Marked(in, o, "old", r)
      <4>1. o \in Descs /\ in \in MemRec
        BY <1>1, <1>3
      <4> HIDE DEF g, q, out, none
      <4> QED
        BY <3>1, <4>1, AsOldAlike
    <3> QED
      BY <1>2, <3>2 DEF Marked
  <2>2. g[o] = "old" /\ g[d] = "router" /\ \A i \in Descs : i # d /\ i # o => g[i] = m.byDigest[i]
    BY <1>1, <1>5
  <2>3. Alike(m, r)
    BY <1>2, <2>1, AlikeTransitive
  <2> HIDE DEF g
  <2>4. ListsOK(r)
    BY <1>1, <1>6, <1>7, <2>1, <2>2, StoreConstants DEF ListsOK, Whole
  <2>5. Whole(r)
    BY <2>3, <2>4 DEF Whole, Alike
  <2>6. ~Retained(o)
    BY DEF o
  <2>7. Moves(m, r, {d})
    BY <1>1, <2>1, <2>2, <2>3, <2>5, <2>6 DEF Moves
  <2> QED
    BY <2>1, <2>2, <2>7
<1>8. CASE ~caches
  <2>1. none[o] = "none" /\ none[d] = "router" /\ none \in [Descs -> {"none", "router", "old"}]
        /\ \A i \in Descs : i # d /\ i # o => none[i] = m.byDigest[i]
    BY <1>1, <1>5
  <2>2. Relists(in, R, m.old, none, out)
    BY DEF Relists
  <2>3. out \in MemRec
    BY <1>2, <1>3, <2>1 DEF MemRec
  <2> HIDE DEF none, out
  <2>4. /\ Alike(in, out) /\ out.routers = R /\ out.old = m.old /\ out.byDigest = none
        /\ out.ok = in.ok
    <3>1. in \in MemRec /\ out \in MemRec /\ Relists(in, R, m.old, none, out)
      BY <1>3, <2>2, <2>3
    <3> QED
      BY <3>1, ListsChange
  <2>5. Alike(out, q) /\ SameLists(out, q)
    <3>1. CASE ExtraOf[o] = ExtraOf[d]
      BY <2>3, <3>1 DEF Alike, SameLists, Same
    <3>2. CASE ExtraOf[o] # ExtraOf[d]
      BY <2>3, <3>2, WithoutExtraAlike
    <3> QED BY <3>1, <3>2
  <2> HIDE DEF q
  <2>6. Alike(out, r) /\ SameLists(out, r) /\ Gone(r, o)
    BY <1>1, <1>4, <1>8, <2>3, <2>5, LeaverAlike
  <2>7. Alike(m, r)
    BY <1>2, <1>3, <2>4, <2>6, AlikeTransitive
  <2>8. r.routers = R /\ r.ok = TRUE /\ r.old = m.old /\ r.byDigest = none
    BY <1>1, <1>2, <2>4, <2>6 DEF SameLists
  <2>9. ListsOK(r)
    BY <1>1, <1>6, <1>8, <2>1, <2>8, StoreConstants DEF ListsOK, Whole
  <2>10. Whole(r)
    BY <2>7, <2>9 DEF Whole, Alike
  <2>11. ~Retained(o)
    BY DEF o
  <2>12. Moves(m, r, {d})
    BY <1>1, <2>1, <2>6, <2>7, <2>8, <2>10, <2>11 DEF Moves
  <2> QED
    BY <2>1, <2>8, <2>12
<1> QED BY <1>7, <1>8


-----------------------------------------------------------------------------
(* The files. *)

HeldIn(m, i) == IF i \in Descs THEN m.byDigest[i] # "none" ELSE i \in m.extras
Shelf(g, i) == Contains(g[StoreOf(i)].file, i) \/ Contains(g[StoreOf(i)].journal, i)
InFile(m, g, i) ==
  LET bytes == g[StoreOf(i)].file IN m.at[i] \in DOMAIN bytes /\ bytes[m.at[i]] = i

\* What is recorded of the documents is so, and what was saved is held, but
\* for the document x that is being added.
Placed(m, g, x) ==
  \A i \in Items :
    /\ m.saved[i] # "nowhere" /\ i # x => HeldIn(m, i)
    /\ m.saved[i] = "cache" => i \notin m.uncached /\ InFile(m, g, i)
    /\ m.saved[i] = "journal" /\ i \notin m.uncached => Shelf(g, i)

\* The descriptors of K are held and on disk, none of T is an old one, and
\* the files of E are as they were and their journals counted empty.
Kept(w, K, T, E) ==
  /\ \A d \in K : Shelf(w.disk, d)
  /\ w.alive => \A d \in K : w.mem.byDigest[d] # "none" /\ d \notin w.mem.uncached
  /\ w.alive => \A d \in T : w.mem.byDigest[d] # "old"
  /\ \A s \in E : w.disk[s] = disk[s] /\ (w.alive => w.mem.len[s] = 0)

\* Each store has its own kind of documents.
Filed(g) ==
  \A s \in Stores :
    /\ \A i : Contains(g[s].file, i) => StoreOf(i) = s
    /\ \A i : Contains(g[s].journal, i) => i = Torn \/ StoreOf(i) = s

Sound(w, K, T, E, x) ==
  /\ w \in WorldRec /\ Filed(w.disk) /\ Whole(w.mem) /\ Placed(w.mem, w.disk, x) /\ Kept(w, K, T, E)
  /\ ~w.alive => w.mem = Nothing
RetainedDescs == {d \in Descs : Retained(d)}

LEMMA NothingWhole ==
  /\ Nothing \in MemRec /\ Whole(Nothing)
  /\ \A i \in Items : Nothing.saved[i] = "nowhere"
<1>1. Nothing \in MemRec
  BY DEF Nothing, MemRec, Places
<1>2. Whole(Nothing)
  BY StoreConstants DEF Nothing, Whole, ListsOK, Named
<1> QED
  BY <1>1, <1>2 DEF Nothing

\* A change of memory alone.
LEMMA MoveSound ==
  ASSUME NEW K \in SUBSET RetainedDescs, NEW T \in SUBSET RetainedDescs, NEW E, NEW x \in Items \cup {Nil},
         NEW w, Sound(w, K, T, E, x), w.alive, NEW r, Moves(w.mem, r, {x}),
         x \in Descs => w.mem.byDigest[x] = "none" /\ (r.byDigest[x] # "none" \/ Gone(r, x)),
         x \in Extras => HeldIn(w.mem, x),
         x \in T => r.byDigest[x] # "old", NEW v, v = [w EXCEPT !.mem = r]
  PROVE  Sound(v, K, T, E, Nil)
<1> DEFINE m == w.mem
<1>1. /\ w \in WorldRec /\ m \in MemRec /\ Placed(m, w.disk, x) /\ Kept(w, K, T, E)
      /\ r \in MemRec /\ Alike(m, r) /\ Whole(r)
  BY DEF Sound, Moves, Alike, WorldRec
<1>2. v \in WorldRec /\ v.mem = r /\ v.disk = w.disk /\ v.alive = w.alive
  BY <1>1 DEF WorldRec
<1> HIDE DEF m
<1>3. ASSUME NEW i \in Items PROVE Same(m, r, i) \/ Gone(r, i)
  BY <1>1 DEF Alike
<1>4. ASSUME NEW i \in Items, r.saved[i] # "nowhere"
      PROVE  HeldIn(r, i) /\ Same(m, r, i)
  <2>1. Same(m, r, i) /\ m.saved[i] # "nowhere"
    BY <1>3, <1>4 DEF Same, Gone
  <2>2. CASE i \in Extras
    <3>1. i \in m.extras
      BY <1>1, <2>1, <2>2, StoreConstants DEF Placed, HeldIn, m
    <3>2. i \in r.extras
      BY <1>1, <1>4, <3>1 DEF Alike, Gone
    <3> QED
      BY <2>1, <2>2, <3>2, StoreConstants DEF HeldIn
  <2>3. CASE i \in Descs
    <3>1. CASE i = x
      BY <1>4, <2>1, <2>3, <3>1 DEF HeldIn, Gone
    <3>2. CASE i # x
      <4>1. m.byDigest[i] # "none"
        BY <1>1, <2>1, <2>3, <3>2 DEF Placed, HeldIn
      <4>2. r.byDigest[i] # "none"
        BY <1>4, <2>3, <4>1 DEF Moves, Gone, m
      <4> QED
        BY <2>1, <2>3, <4>2 DEF HeldIn
    <3> QED BY <3>1, <3>2
  <2> QED
    BY <2>2, <2>3 DEF Items
<1>5. Placed(r, w.disk, Nil)
  <2> SUFFICES ASSUME NEW i \in Items, r.saved[i] # "nowhere"
               PROVE  /\ HeldIn(r, i)
                      /\ r.saved[i] = "cache" => i \notin r.uncached /\ InFile(r, w.disk, i)
                      /\ r.saved[i] = "journal" /\ i \notin r.uncached => Shelf(w.disk, i)
    BY DEF Placed
  <2>1. HeldIn(r, i) /\ Same(m, r, i)
    BY <1>4
  <2>2. /\ m.saved[i] = "cache" => i \notin m.uncached /\ InFile(m, w.disk, i)
        /\ m.saved[i] = "journal" /\ i \notin m.uncached => Shelf(w.disk, i)
    BY <1>1 DEF Placed
  <2> QED
    BY <2>1, <2>2 DEF Same, InFile
<1>6. ASSUME NEW d \in K PROVE r.byDigest[d] # "none" /\ d \notin r.uncached
  <2>1. m.byDigest[d] # "none" /\ d \notin m.uncached /\ d \in Descs /\ Retained(d) /\ d \in Items
    BY <1>1, StoreConstants DEF Kept, RetainedDescs, m
  <2>2. d # x
    BY <2>1 DEF m
  <2>3. r.byDigest[d] = m.byDigest[d]
    BY <2>1, <2>2 DEF Moves, m
  <2> QED
    BY <1>3, <2>1, <2>3 DEF Same, Gone
<1>7. ASSUME NEW d \in T PROVE r.byDigest[d] # "old"
  <2>1. CASE d = x
    BY <2>1
  <2>2. CASE d # x
    BY <1>1, <2>2 DEF Kept, Moves, RetainedDescs, m
  <2> QED BY <2>1, <2>2
<1>8. r.len = m.len
  BY <1>1 DEF Alike
<1>9. Kept(v, K, T, E)
  BY <1>1, <1>2, <1>6, <1>7, <1>8 DEF Kept, m
<1> QED
  BY <1>1, <1>2, <1>5, <1>9 DEF Sound

\* The program dies, wherever it is.
LEMMA DeadSound ==
  ASSUME NEW K, NEW T, NEW E, NEW x,
         NEW w \in WorldRec, Filed(w.disk), \A d \in K : Shelf(w.disk, d), \A s \in E : w.disk[s] = disk[s],
         NEW v, v = Dead(w)
  PROVE  Sound(v, K, T, E, x)
<1>1. v \in WorldRec /\ v.disk = w.disk /\ v.alive = FALSE /\ v.mem = Nothing
  BY NothingWhole DEF Dead, WorldRec
<1>2. Placed(v.mem, v.disk, x)
  BY <1>1, NothingWhole DEF Placed
<1>3. Kept(v, K, T, E)
  BY <1>1 DEF Kept
<1> QED
  BY <1>1, <1>2, <1>3, NothingWhole DEF Sound

\* An operation that failed changes nothing.
LEMMA FailedSound ==
  ASSUME NEW K, NEW T, NEW E, NEW x, NEW w, Sound(w, K, T, E, x), NEW v \in Failed(w)
  PROVE  Sound(v, K, T, E, x) /\ v.alive = w.alive /\ v.mem = w.mem
<1>1. w \in WorldRec
  BY DEF Sound
<1>2. v = [w EXCEPT !.errors = w.errors + 1]
  BY <1>1 DEF Failed
<1>3. v \in WorldRec /\ v.mem = w.mem /\ v.disk = w.disk /\ v.alive = w.alive
  BY <1>1, <1>2 DEF WorldRec
<1> QED
  BY <1>3 DEF Sound, Kept

LEMMA StoreOfIs ==
  ASSUME NEW i \in Items
  PROVE  StoreOf(i) \in Stores /\ (StoreOf(i) = "desc" <=> i \in Descs)
BY DEF StoreOf, Stores

LEMMA Append2JournalSound ==
  ASSUME NEW K \in SUBSET Descs, NEW T, NEW E \in SUBSET Stores, NEW x,
         NEW w, Sound(w, K, T, E, x), w.alive, NEW i \in Items, i = x \/ HeldIn(w.mem, i), StoreOf(i) \notin E,
         NEW v \in Append2Journal(w, i)
  PROVE  Sound(v, K, T, E, x) /\ (v.alive => v.mem.byDigest = w.mem.byDigest)
<1> DEFINE s == StoreOf(i)
           grown(z) == [w EXCEPT !.disk[s].journal = Append(@, z)]
           add(z) == [w.disk EXCEPT ![s] = [w.disk[s] EXCEPT !.journal = Append(w.disk[s].journal, z)]]
<1>1. w \in WorldRec /\ s \in Stores /\ w.mem \in MemRec /\ w.disk \in DiskRec
  BY StoreOfIs DEF Sound, WorldRec
<1>2. ASSUME NEW z \in Items \cup {Torn}
      PROVE  /\ add(z) \in DiskRec
             /\ \A q \in Stores : add(z)[q].file = w.disk[q].file
             /\ \A q \in Stores \ {s} : add(z)[q] = w.disk[q]
             /\ add(z)[s].journal = Append(w.disk[s].journal, z)
             /\ \A d \in Items : Shelf(w.disk, d) => Shelf(add(z), d)
             /\ z = i => Shelf(add(z), i)
             /\ z = i \/ z = Torn => Filed(add(z))
  <2> DEFINE j == w.disk[s].journal
             g == add(z)
  <2>1. j \in Seq(Items \cup {Torn})
    BY <1>1 DEF DiskRec
  <2>2. Append(j, z) \in Seq(Items \cup {Torn})
    BY <2>1, AppendProperties
  <2>3. g \in DiskRec
    BY <1>1, <2>2 DEF DiskRec
  <2>4. /\ \A q \in Stores : g[q].file = w.disk[q].file
        /\ \A q \in Stores \ {s} : g[q] = w.disk[q]
        /\ g[s].journal = Append(j, z)
    BY <1>1 DEF DiskRec
  <2>5. \A d : d = z \/ Contains(j, d) <=> Contains(Append(j, z), d)
    <3> HIDE DEF j
    <3>1. /\ Len(Append(j, z)) = Len(j) + 1 /\ Len(j) \in Nat /\ Append(j, z)[Len(j) + 1] = z
          /\ \A k \in 1 .. Len(j) : Append(j, z)[k] = j[k]
      BY <2>1, AppendProperties
    <3> QED
      BY <3>1 DEF Contains
  <2> HIDE DEF g
  <2>6. ASSUME NEW d \in Items, Shelf(w.disk, d) \/ (d = i /\ z = i) PROVE Shelf(g, d)
    <3>1. CASE StoreOf(d) = s
      BY <2>4, <2>5, <2>6, <3>1, StoreOfIs DEF Shelf
    <3>2. CASE StoreOf(d) # s
      BY <2>4, <2>6, <3>2, StoreOfIs DEF Shelf
    <3> QED BY <3>1, <3>2
  <2>7. ASSUME z = i \/ z = Torn PROVE Filed(g)
    <3>1. Filed(w.disk)
      BY DEF Sound
    <3>2. \A d : Contains(g[s].journal, d) => d = Torn \/ StoreOf(d) = s
      BY <1>1, <2>4, <2>5, <2>7, <3>1 DEF Filed
    <3> QED
      BY <2>4, <3>1, <3>2 DEF Filed
  <2> QED
    BY <2>3, <2>4, <2>6, <2>7 DEF g
<1>3. CASE v \in Failed(w)
  BY <1>3, FailedSound
<1>4. CASE v = Dead(grown(Torn))
  <2>1. grown(Torn) = [w EXCEPT !.disk = add(Torn)]
    BY <1>1 DEF WorldRec, DiskRec
  <2> DEFINE u == grown(Torn)
  <2> HIDE DEF grown, add
  <2>2. u \in WorldRec /\ u.disk = add(Torn)
    BY <1>1, <1>2, <2>1 DEF WorldRec
  <2>3. \A d \in K : Shelf(u.disk, d)
    <3>1. \A d \in K : d \in Items /\ Shelf(w.disk, d)
      BY StoreConstants DEF Sound, Kept
    <3>2. Torn \in Items \cup {Torn}
      OBVIOUS
    <3> QED BY <1>2, <2>2, <3>1, <3>2
  <2>4. \A q \in E : u.disk[q] = disk[q]
    BY <1>2, <2>2 DEF Sound, Kept
  <2> HIDE DEF u
  <2>7. Filed(u.disk)
    BY <1>2, <2>2 DEF u
  <2>5. Sound(v, K, T, E, x)
    BY <1>4, <2>2, <2>3, <2>4, <2>7, DeadSound DEF u
  <2>6. v.alive = FALSE
    BY <1>4, <2>2 DEF Dead, WorldRec, u
  <2> QED BY <2>5, <2>6
<1>5. CASE v = [w EXCEPT !.disk[s].journal = Append(@, i), !.mem.saved[i] = "journal", !.mem.len[s] = @ + 1]
  <2> DEFINE m == w.mem
             r == [m EXCEPT !.saved = [m.saved EXCEPT ![i] = "journal"],
                            !.len = [m.len EXCEPT ![s] = m.len[s] + 1]]
             g == add(i)
  <2>1. v = [w EXCEPT !.disk = g, !.mem = r]
    BY <1>1, <1>5 DEF WorldRec, DiskRec, MemRec
  <2>2. /\ [m.saved EXCEPT ![i] = "journal"] \in [Items -> Places]
        /\ [m.len EXCEPT ![s] = m.len[s] + 1] \in [Stores -> Nat]
        /\ m.saved \in [Items -> Places] /\ m.len \in [Stores -> Nat]
    BY <1>1 DEF MemRec, Places
  <2>3. r \in MemRec
    BY <1>1, <2>2 DEF MemRec
  <2>4. /\ r.saved = [m.saved EXCEPT ![i] = "journal"] /\ r.len = [m.len EXCEPT ![s] = m.len[s] + 1]
        /\ r.at = m.at /\ r.uncached = m.uncached /\ r.extras = m.extras /\ r.byExtra = m.byExtra
        /\ SameLists(m, r)
    BY <1>1 DEF MemRec, SameLists
  <2>5. g \in DiskRec
    BY <1>2
  <2> HIDE DEF r, g
  <2>6. v \in WorldRec /\ v.mem = r /\ v.disk = g /\ v.alive = TRUE
    BY <1>1, <2>1, <2>3, <2>5 DEF WorldRec
  <2>7. Whole(r)
    BY <2>4 DEF Whole, ListsOK, SameLists, Named, Sound
  <2>8. Placed(r, g, x)
    <3> SUFFICES ASSUME NEW k \in Items
                 PROVE  /\ r.saved[k] # "nowhere" /\ k # x => HeldIn(r, k)
                        /\ r.saved[k] = "cache" => k \notin r.uncached /\ InFile(r, g, k)
                        /\ r.saved[k] = "journal" /\ k \notin r.uncached => Shelf(g, k)
      BY DEF Placed
    <3>1. HeldIn(r, k) <=> HeldIn(m, k)
      BY <2>4 DEF HeldIn, SameLists
    <3>2. CASE k = i
      BY <1>2, <2>2, <2>4, <3>1, <3>2 DEF g
    <3>3. CASE k # i
      <4>1. r.saved[k] = m.saved[k]
        BY <2>2, <2>4, <3>3
      <4>2. InFile(m, w.disk, k) => InFile(r, g, k)
        BY <1>2, <2>4, StoreOfIs DEF InFile, g
      <4>3. Shelf(w.disk, k) => Shelf(g, k)
        BY <1>2 DEF g
      <4>4. /\ m.saved[k] # "nowhere" /\ k # x => HeldIn(m, k)
            /\ m.saved[k] = "cache" => k \notin m.uncached /\ InFile(m, w.disk, k)
            /\ m.saved[k] = "journal" /\ k \notin m.uncached => Shelf(w.disk, k)
        BY DEF Sound, Placed
      <4> QED
        BY <2>4, <3>1, <4>1, <4>2, <4>3, <4>4
    <3> QED BY <3>2, <3>3
  <2>9. Kept(v, K, T, E)
    <3>1. \A d \in K : Shelf(g, d)
      BY <1>2, StoreConstants DEF Sound, Kept, g
    <3>2. \A q \in E : g[q] = w.disk[q] /\ r.len[q] = m.len[q]
      BY <1>2, <2>2, <2>4 DEF g
    <3>3. r.byDigest = m.byDigest
      BY <2>4 DEF SameLists
    <3>4. \A d \in K : r.byDigest[d] # "none" /\ d \notin r.uncached
      BY <2>4, <3>3 DEF Sound, Kept
    <3>5. \A d \in T : r.byDigest[d] # "old"
      BY <3>3 DEF Sound, Kept
    <3>6. \A q \in E : g[q] = disk[q] /\ r.len[q] = 0
      BY <3>2 DEF Sound, Kept
    <3> QED
      BY <2>6, <3>1, <3>4, <3>5, <3>6 DEF Kept
  <2>10. v.mem.byDigest = m.byDigest
    BY <2>4, <2>6 DEF SameLists
  <2>11. Filed(g)
    BY <1>2 DEF g
  <2> QED
    BY <2>6, <2>7, <2>8, <2>9, <2>10, <2>11 DEF Sound
<1> QED
  BY <1>3, <1>4, <1>5 DEF Append2Journal

-----------------------------------------------------------------------------
(* router_rebuild_store. *)

LEMMA HeldIs ==
  ASSUME NEW m \in MemRec, Whole(m), NEW s \in Stores
  PROVE  Held(m, s) = {i \in Items : StoreOf(i) = s /\ HeldIn(m, i)}
<1>1. CASE s = "extra"
  BY <1>1, StoreConstants DEF Held, StoreOf, HeldIn, MemRec
<1>2. CASE s = "desc"
  <2>1. Held(m, s) = m.old \cup {m.routers[r] : r \in {q \in Routers : m.routers[q] # Nil}}
    BY <1>2 DEF Held
  <2>2. \A r \in Routers : m.routers[r] \in Descs \cup {Nil}
    BY DEF MemRec
  <2>3. ASSUME NEW i \in Held(m, s) PROVE i \in Descs /\ m.byDigest[i] # "none"
    <3>1. CASE i \in m.old
      BY <3>1 DEF Whole, ListsOK, MemRec
    <3>2. CASE i \notin m.old
      <4>1. PICK r \in Routers : m.routers[r] = i /\ i # Nil
        BY <2>1, <3>2
      <4>2. i \in Descs /\ m.routers[Owner[i]] = i
        BY <2>2, <4>1 DEF Whole, ListsOK
      <4> QED
        BY <4>2 DEF Whole, ListsOK
    <3> QED BY <3>1, <3>2
  <2>4. ASSUME NEW i \in Descs, m.byDigest[i] # "none" PROVE i \in Held(m, s)
    <3>1. m.byDigest[i] \in {"router", "old"}
      BY <2>4 DEF MemRec
    <3>2. CASE m.byDigest[i] = "old"
      BY <2>1, <3>2 DEF Whole, ListsOK
    <3>3. CASE m.byDigest[i] = "router"
      BY <2>1, <3>3, StoreConstants DEF Whole, ListsOK
    <3> QED BY <3>1, <3>2, <3>3
  <2> QED
    BY <1>2, <2>3, <2>4, StoreOfIs, StoreConstants DEF HeldIn
<1> QED BY <1>1, <1>2 DEF Stores

LEMMA RebuildsSound ==
  ASSUME NEW K \in SUBSET Descs, NEW T, NEW E \in SUBSET Stores,
         NEW w, Sound(w, K, T, E, Nil), w.alive, NEW s \in Stores, s \notin E, NEW v \in Rebuilds(w, s)
  PROVE  Sound(v, K, T, E, Nil) /\ (v.alive => v.mem.byDigest = w.mem.byDigest)
<1> DEFINE m == w.mem
           kept == Sorted(Held(m, s) \ m.uncached)
           file == [w.disk EXCEPT ![s] = [w.disk[s] EXCEPT !.file = kept]]
           clear == [w.disk EXCEPT ![s] = [w.disk[s] EXCEPT !.file = kept, !.journal = <<>>]]
           replaced == [w EXCEPT !.disk = file]
           moved == [i \in Items |-> IF Contains(kept, i) THEN "cache" ELSE m.saved[i]]
           offsets == [i \in Items |-> IF Contains(kept, i) THEN Position(kept, i) ELSE m.at[i]]
           r == [m EXCEPT !.len = [m.len EXCEPT ![s] = 0], !.saved = moved, !.at = offsets]
           done == [w EXCEPT !.disk = file, !.mem = r]
           all == [w EXCEPT !.disk = clear, !.mem = r]
<1>1. w \in WorldRec /\ m \in MemRec /\ w.disk \in DiskRec /\ Whole(m)
  BY DEF Sound, WorldRec
<1>2. v \in {Dead(replaced), all} \cup Failed(w) \cup Failed(done)
  <2>1. [w EXCEPT !.disk[s].file = kept] = replaced
    BY <1>1 DEF WorldRec, DiskRec
  <2>2. [replaced EXCEPT !.mem.len[s] = 0, !.mem.saved = moved, !.mem.at = offsets] = done
    BY <1>1 DEF WorldRec, MemRec
  <2>3. [done EXCEPT !.disk[s].journal = <<>>] = all
    <3> HIDE DEF r, kept
    <3> QED BY <1>1 DEF WorldRec, DiskRec
  <2> HIDE DEF done, all, replaced
  <2> QED
    BY <2>1, <2>2, <2>3 DEF Rebuilds
<1>3. /\ kept \in Seq(Items) /\ \A i \in Items : Contains(kept, i) <=> StoreOf(i) = s /\ HeldIn(m, i) /\ i \notin m.uncached
  <2>1. Held(m, s) = {i \in Items : StoreOf(i) = s /\ HeldIn(m, i)}
    BY <1>1, HeldIs
  <2>2. Held(m, s) \ m.uncached \in SUBSET Items
    BY <2>1
  <2>3. kept \in Seq(Items) /\ \A i : Contains(kept, i) <=> i \in Held(m, s) \ m.uncached
    BY <2>2, StoreAssumption, SortedMembers
  <2> QED
    BY <2>1, <2>3
<1> HIDE DEF kept
<1>4. ASSUME NEW i \in Items, Contains(kept, i)
      PROVE  Position(kept, i) \in DOMAIN kept /\ kept[Position(kept, i)] = i /\ Position(kept, i) \in Nat
  BY <1>3, <1>4, PositionRight
<1>5. moved \in [Items -> Places] /\ offsets \in [Items -> Nat]
  <2>1. m.saved \in [Items -> Places] /\ m.at \in [Items -> Nat]
    BY <1>1 DEF MemRec
  <2> QED
    BY <1>4, <2>1 DEF Places
<1>6. /\ \A i \in Items : Contains(kept, i) => moved[i] = "cache" /\ offsets[i] = Position(kept, i)
      /\ \A i \in Items : ~Contains(kept, i) => moved[i] = m.saved[i] /\ offsets[i] = m.at[i]
  OBVIOUS
<1>7. r \in MemRec
  <2>1. [m.len EXCEPT ![s] = 0] \in [Stores -> Nat]
    BY <1>1 DEF MemRec
  <2> HIDE DEF moved, offsets
  <2> QED
    BY <1>1, <1>5, <2>1 DEF MemRec
<1>8. /\ r.saved = moved /\ r.at = offsets /\ r.uncached = m.uncached /\ r.extras = m.extras
      /\ r.byExtra = m.byExtra /\ SameLists(m, r)
  <2> HIDE DEF moved, offsets
  <2> QED
    BY <1>1 DEF MemRec, SameLists
<1>9. \A q \in Stores : q # s => r.len[q] = m.len[q]
  <2> HIDE DEF moved, offsets
  <2> QED
    BY <1>1 DEF MemRec
<1> HIDE DEF moved, offsets, r
<1>10. Whole(r)
  BY <1>1, <1>8 DEF Whole, ListsOK, SameLists, Named
<1>11. file \in DiskRec /\ clear \in DiskRec
  <2>1. <<>> \in Seq(Items \cup {Torn})
    BY EmptySeq
  <2> QED
    BY <1>1, <1>3, <2>1 DEF DiskRec
<1>12. ASSUME NEW g, g \in {file, clear}
       PROVE  /\ g[s].file = kept /\ \A q \in Stores : q # s => g[q] = w.disk[q]
              /\ \A i \in Items : HeldIn(m, i) /\ i \notin m.uncached /\ (StoreOf(i) = s \/ Shelf(w.disk, i)) => Shelf(g, i)
              /\ Filed(g) /\ Placed(r, g, Nil)
              /\ \A d \in K : Shelf(g, d)
              /\ \A q \in E : g[q] = disk[q] /\ r.len[q] = 0
  <2>1. g[s].file = kept /\ \A q \in Stores : q # s => g[q] = w.disk[q]
    BY <1>1, <1>12 DEF DiskRec
  <2>7. g[s].journal = w.disk[s].journal \/ g[s].journal = <<>>
    <3>1. w.disk[s] \in [file : Seq(Items), journal : Seq(Items \cup {Torn})]
      BY <1>1 DEF DiskRec
    <3>2. file[s].journal = w.disk[s].journal
      BY <1>1, <3>1 DEF DiskRec
    <3>3. clear[s].journal = <<>>
      BY <1>1, <3>1 DEF DiskRec
    <3> QED BY <1>12, <3>2, <3>3
  <2> HIDE DEF file, clear
  <2>8. Filed(g)
    <3>1. Filed(w.disk)
      BY DEF Sound
    <3>2. \A i : ~Contains(<<>>, i)
      BY DEF Contains
    <3>3. \A i : Contains(kept, i) => i \in Items
      BY <1>3, ElementOfSeq DEF Contains
    <3>4. \A i : Contains(g[s].file, i) => StoreOf(i) = s
      BY <1>3, <2>1, <3>3
    <3>5. \A i : Contains(g[s].journal, i) => i = Torn \/ StoreOf(i) = s
      BY <2>7, <3>1, <3>2 DEF Filed
    <3> QED
      BY <2>1, <3>1, <3>4, <3>5 DEF Filed
  <2>2. ASSUME NEW i \in Items, HeldIn(m, i), i \notin m.uncached, StoreOf(i) = s \/ Shelf(w.disk, i)
        PROVE  Shelf(g, i)
    <3>1. CASE StoreOf(i) = s
      BY <1>3, <2>1, <2>2, <3>1 DEF Shelf
    <3>2. CASE StoreOf(i) # s
      BY <2>1, <2>2, <3>2, StoreOfIs DEF Shelf
    <3> QED BY <3>1, <3>2
  <2>3. Placed(r, g, Nil)
    <3> SUFFICES ASSUME NEW k \in Items
                 PROVE  /\ r.saved[k] # "nowhere" /\ k # Nil => HeldIn(r, k)
                        /\ r.saved[k] = "cache" => k \notin r.uncached /\ InFile(r, g, k)
                        /\ r.saved[k] = "journal" /\ k \notin r.uncached => Shelf(g, k)
      BY DEF Placed
    <3>1. HeldIn(r, k) <=> HeldIn(m, k)
      BY <1>8 DEF HeldIn, SameLists
    <3>2. CASE Contains(kept, k)
      <4>1. StoreOf(k) = s /\ HeldIn(m, k) /\ k \notin m.uncached /\ r.saved[k] = "cache"
        BY <1>3, <1>6, <1>8, <3>2
      <4>2. InFile(r, g, k)
        BY <1>4, <1>6, <1>8, <2>1, <3>2, <4>1 DEF InFile
      <4> QED
        BY <1>8, <3>1, <4>1, <4>2
    <3>3. CASE ~Contains(kept, k)
      <4>1. r.saved[k] = m.saved[k] /\ r.at[k] = m.at[k]
        BY <1>6, <1>8, <3>3
      <4>2. /\ m.saved[k] # "nowhere" /\ k # Nil => HeldIn(m, k)
            /\ m.saved[k] = "cache" => k \notin m.uncached /\ InFile(m, w.disk, k)
            /\ m.saved[k] = "journal" /\ k \notin m.uncached => Shelf(w.disk, k)
        BY DEF Sound, Placed
      <4>3. k # Nil
        BY StoreAssumption
      <4>4. StoreOf(k) = s => ~HeldIn(m, k) \/ k \in m.uncached
        BY <1>3, <3>3
      <4>5. StoreOf(k) # s /\ InFile(m, w.disk, k) => InFile(r, g, k)
        BY <2>1, <4>1, StoreOfIs DEF InFile
      <4>6. HeldIn(m, k) /\ k \notin m.uncached /\ Shelf(w.disk, k) => Shelf(g, k)
        BY <2>2
      <4> QED
        BY <1>8, <3>1, <4>1, <4>2, <4>3, <4>4, <4>5, <4>6
    <3> QED BY <3>2, <3>3
  <2>4. ASSUME NEW d \in K PROVE Shelf(g, d)
    <3>1. d \in Items /\ d \in Descs /\ m.byDigest[d] # "none" /\ d \notin m.uncached /\ Shelf(w.disk, d)
      BY StoreConstants DEF Sound, Kept
    <3> QED
      BY <2>2, <3>1 DEF HeldIn
  <2>5. \A q \in E : w.disk[q] = disk[q] /\ m.len[q] = 0
    BY DEF Sound, Kept
  <2>6. \A q \in E : g[q] = disk[q] /\ r.len[q] = 0
    BY <1>9, <2>1, <2>5
  <2> QED
    BY <2>1, <2>2, <2>3, <2>4, <2>6, <2>8
<1>13. ASSUME NEW g, g \in {file, clear}, NEW u, u = [w EXCEPT !.disk = g, !.mem = r]
       PROVE  Sound(u, K, T, E, Nil) /\ u.mem = r
  <2>1. g \in DiskRec
    BY <1>11, <1>13
  <2> HIDE DEF file, clear
  <2>2. u \in WorldRec /\ u.mem = r /\ u.disk = g /\ u.alive = w.alive
    BY <1>1, <1>7, <1>13, <2>1 DEF WorldRec
  <2>3. \A d \in K : r.byDigest[d] # "none" /\ d \notin r.uncached
    BY <1>8 DEF Sound, Kept, SameLists
  <2>4. \A d \in T : r.byDigest[d] # "old"
    BY <1>8 DEF Sound, Kept, SameLists
  <2>5. Kept(u, K, T, E)
    BY <1>12, <1>13, <2>2, <2>3, <2>4 DEF Kept
  <2> QED
    BY <1>10, <1>12, <1>13, <2>2, <2>5 DEF Sound
<1>14. r.byDigest = m.byDigest
  BY <1>8 DEF SameLists
<1>15. CASE v = all
  <2> HIDE DEF file, clear
  <2>1. Sound(v, K, T, E, Nil) /\ v.mem = r
    BY <1>13, <1>15
  <2> QED BY <1>14, <2>1
<1>16. CASE v = Dead(replaced)
  <2>1. replaced \in WorldRec /\ replaced.disk = file
    <3> HIDE DEF file
    <3> QED BY <1>1, <1>11 DEF WorldRec
  <2>2. \A d \in K : Shelf(replaced.disk, d)
    BY <1>12, <2>1
  <2>3. \A q \in E : replaced.disk[q] = disk[q]
    BY <1>12, <2>1
  <2>6. Filed(replaced.disk)
    BY <1>12, <2>1
  <2> HIDE DEF replaced
  <2>4. Sound(v, K, T, E, Nil)
    BY <1>16, <2>1, <2>2, <2>3, <2>6, DeadSound
  <2>5. v.alive = FALSE
    BY <1>16, <2>1 DEF Dead, WorldRec
  <2> QED BY <2>4, <2>5
<1>17. CASE v \in Failed(w)
  BY <1>17, FailedSound
<1>18. CASE v \in Failed(done)
  <2> HIDE DEF file, clear
  <2>1. Sound(done, K, T, E, Nil) /\ done.mem = r
    BY <1>13
  <2> HIDE DEF done
  <2> QED
    BY <1>14, <1>18, <2>1, FailedSound
<1> HIDE DEF all, done, replaced
<1> QED
  BY <1>2, <1>15, <1>16, <1>17, <1>18

LEMMA TidiedSound ==
  ASSUME NEW K \in SUBSET Descs, NEW T, NEW E \in SUBSET Stores,
         NEW w, Sound(w, K, T, E, Nil), w.alive, NEW s \in Stores, NEW v \in Tidied(w, s)
  PROVE  Sound(v, K, T, E, Nil)
<1>1. CASE w.mem.len[s] > JournalMax
  <2>1. w.mem.len[s] # 0
    BY <1>1, StoreAssumption
  <2>2. s \notin E
    BY <2>1 DEF Sound, Kept
  <2> QED
    BY <1>1, <2>2, RebuildsSound DEF Tidied
<1>2. CASE ~(w.mem.len[s] > JournalMax)
  BY <1>2 DEF Tidied
<1> QED BY <1>1, <1>2


-----------------------------------------------------------------------------
(* routerlist_remove_old_routers. *)

LEMMA RemoveTypes ==
  ASSUME NEW m \in MemRec, NEW d \in Descs
  PROVE  RemoveRouter(m, d) \in MemRec /\ RemoveOld(m, d) \in MemRec
<1> DEFINE out == Check([m EXCEPT !.routers[Owner[d]] = Nil], m.byDigest[d] = "router")
           off == [out EXCEPT !.byDigest[d] = "none"]
           old == Check([m EXCEPT !.old = @ \ {d}, !.byDigest[d] = "none"],
                        d \in m.old /\ m.byDigest[d] = "old")
<1>1. [m EXCEPT !.routers[Owner[d]] = Nil] \in MemRec
  BY DEF MemRec
<1>2. out \in MemRec
  <2> DEFINE n == [m EXCEPT !.routers[Owner[d]] = Nil]
  <2> HIDE DEF n
  <2>1. Check(n, m.byDigest[d] = "router") \in MemRec
    BY <1>1 DEF Check, MemRec, n
  <2> QED BY <2>1 DEF n
<1>3. [m EXCEPT !.old = @ \ {d}, !.byDigest[d] = "none"] \in MemRec
  BY DEF MemRec
<1>4. old \in MemRec
  <2> DEFINE n == [m EXCEPT !.old = @ \ {d}, !.byDigest[d] = "none"]
  <2> HIDE DEF n
  <2>1. Check(n, d \in m.old /\ m.byDigest[d] = "old") \in MemRec
    BY <1>3 DEF Check, MemRec, n
  <2> QED BY <2>1 DEF n
<1> HIDE DEF out, old
<1>5. off \in MemRec
  BY <1>2 DEF MemRec
<1> HIDE DEF off
<1>6. ASSUME NEW n \in MemRec
      PROVE  Forgotten(Unnames(WithoutExtra(n, ExtraOf[d]), d), d) \in MemRec
  <2> DEFINE q == WithoutExtra(n, ExtraOf[d])
  <2>1. Alike(n, q) /\ SameLists(n, q)
    BY WithoutExtraAlike
  <2> HIDE DEF q
  <2>2. Alike(n, Forgotten(Unnames(q, d), d))
    BY <2>1, LeaverAlike
  <2> QED
    BY <2>2 DEF Alike, q
<1>7. AsOld(out, d) \in MemRec
  BY <1>2, AsOldAlike DEF Alike
<1>8. RemoveRouter(m, d) = IF caches THEN AsOld(out, d)
                           ELSE Forgotten(Unnames(WithoutExtra(off, ExtraOf[d]), d), d)
  BY DEF RemoveRouter, out, off
<1>9. RemoveOld(m, d) = Forgotten(Unnames(WithoutExtra(old, ExtraOf[d]), d), d)
  BY DEF RemoveOld, old
<1> QED
  BY <1>2, <1>4, <1>5, <1>6, <1>7, <1>8, <1>9

LEMMA MovesNone ==
  ASSUME NEW m \in MemRec, Whole(m)
  PROVE  Moves(m, m, {})
BY DEF Moves, Alike, Same

LEMMA RemoveRoutersMoves ==
  ASSUME NEW m \in MemRec, Whole(m), NEW S \in SUBSET Descs,
         \A d \in S : m.byDigest[d] = "router" /\ ~Retained(d), NEW r, r = RemoveRouters(m, S)
  PROVE  Moves(m, r, {})
<1> DEFINE op(d, n) == RemoveRouter(n, d)
           D == [p \in S \X MemRec |-> op(p[1], p[2])]
           pick == [U \in SUBSET S |-> CHOOSE x \in U : TRUE]
           it == CHOOSE f : f = [U \in SUBSET S |->
                   IF U = {} THEN m ELSE op(CHOOSE x \in U : TRUE, f[U \ {CHOOSE x \in U : TRUE}])]
<1>1. r = it[S]
  BY DEF RemoveRouters, FoldSet, MapThenFoldSet
<1>2. IsFiniteSet(S)
  <2>1. S \subseteq Items /\ IsFiniteSet(Items)
    BY StoreAssumption, StoreConstants
  <2> QED BY <2>1, FS_Subset
<1>3. \A U \in SUBSET S : U # {} => pick[U] \in U
  OBVIOUS
<1>4. D \in [S \X MemRec -> MemRec]
  BY RemoveTypes
<1>5. PICK f : Folds(f, S, MemRec, m, pick, D)
  <2> HIDE DEF D, pick
  <2> QED BY <1>2, <1>3, <1>4, FoldExists
<1> HIDE DEF op
<1>6. ASSUME NEW U \in SUBSET S, U # {}
      PROVE  f[U] = op(CHOOSE x \in U : TRUE, f[U \ {CHOOSE x \in U : TRUE}])
  <2>1. pick[U] = CHOOSE x \in U : TRUE
    OBVIOUS
  <2>2. pick[U] \in S
    BY <1>3, <1>6
  <2>3. \A d \in S, n \in MemRec : D[<<d, n>>] = op(d, n)
    OBVIOUS
  <2> HIDE DEF pick, D
  <2>4. f[U] = D[<<pick[U], f[U \ {pick[U]}]>>] /\ f[U \ {pick[U]}] \in MemRec
    BY <1>5, <1>6 DEF Folds
  <2>5. f[U] = op(pick[U], f[U \ {pick[U]}])
    BY <2>2, <2>3, <2>4
  <2> QED
    BY <2>1, <2>5
<1>7. it = [U \in SUBSET S |->
              IF U = {} THEN m ELSE op(CHOOSE x \in U : TRUE, it[U \ {CHOOSE x \in U : TRUE}])]
  <2>1. f = [U \in SUBSET S |->
               IF U = {} THEN m ELSE op(CHOOSE x \in U : TRUE, f[U \ {CHOOSE x \in U : TRUE}])]
    BY <1>5, <1>6 DEF Folds
  <2> QED
    BY <2>1
<1> HIDE DEF it
<1> DEFINE Q(U) == Moves(m, it[U], {}) /\ \A d \in S \ U : it[U].byDigest[d] = m.byDigest[d]
           P == {U \in SUBSET S : Q(U)}
<1>8. {} \in P
  BY <1>7, MovesNone
<1>9. ASSUME NEW U \in SUBSET S, U # {}, \A x \in U : U \ {x} \in P PROVE U \in P
  <2>1. PICK x \in U : x = CHOOSE y \in U : TRUE
    BY <1>9
  <2> DEFINE n == it[U \ {x}]
  <2>2. it[U] = op(x, n) /\ Q(U \ {x}) /\ x \in S /\ x \in Descs
    BY <1>7, <1>9, <2>1
  <2>3. n \in MemRec /\ Whole(n) /\ n.byDigest[x] = "router" /\ ~Retained(x)
    BY <2>2 DEF Moves, Alike
  <2> HIDE DEF n
  <2>4. /\ Moves(n, it[U], {})
        /\ it[U].byDigest = [n.byDigest EXCEPT ![x] = IF caches THEN "old" ELSE "none"]
    <3>1. it[U] = RemoveRouter(n, x)
      BY <2>2 DEF op
    <3> QED
      BY <2>2, <2>3, <3>1, RemoveRouterMoves
  <2>5. Moves(m, it[U], {})
    BY <2>2, <2>4, MovesTransitive DEF n
  <2>6. ASSUME NEW d \in S \ U PROVE it[U].byDigest[d] = m.byDigest[d]
    <3>1. n.byDigest[d] = m.byDigest[d] /\ d # x /\ d \in Descs
      BY <2>2, <2>6 DEF n
    <3>2. n.byDigest \in [Descs -> {"none", "router", "old"}]
      BY <2>3 DEF MemRec
    <3> QED
      BY <2>4, <3>1, <3>2
  <2> QED
    BY <2>5, <2>6
<1>10. S \in P
  <2> HIDE DEF P
  <2> QED
    BY <1>2, <1>8, <1>9, SubsetInduction
<1> QED
  BY <1>1, <1>10


LEMMA RemoveAllOldMoves ==
  ASSUME NEW m \in MemRec, Whole(m), NEW S \in SUBSET Descs,
         \A d \in S : m.byDigest[d] = "old" /\ ~Retained(d), NEW r, r = RemoveAllOld(m, S)
  PROVE  Moves(m, r, {})
<1> DEFINE op(d, n) == RemoveOld(n, d)
           D == [p \in S \X MemRec |-> op(p[1], p[2])]
           pick == [U \in SUBSET S |-> CHOOSE x \in U : TRUE]
           it == CHOOSE f : f = [U \in SUBSET S |->
                   IF U = {} THEN m ELSE op(CHOOSE x \in U : TRUE, f[U \ {CHOOSE x \in U : TRUE}])]
<1>1. r = it[S]
  BY DEF RemoveAllOld, FoldSet, MapThenFoldSet
<1>2. IsFiniteSet(S)
  <2>1. S \subseteq Items /\ IsFiniteSet(Items)
    BY StoreAssumption, StoreConstants
  <2> QED BY <2>1, FS_Subset
<1>3. \A U \in SUBSET S : U # {} => pick[U] \in U
  OBVIOUS
<1>4. D \in [S \X MemRec -> MemRec]
  BY RemoveTypes
<1>5. PICK f : Folds(f, S, MemRec, m, pick, D)
  <2> HIDE DEF D, pick
  <2> QED BY <1>2, <1>3, <1>4, FoldExists
<1> HIDE DEF op
<1>6. ASSUME NEW U \in SUBSET S, U # {}
      PROVE  f[U] = op(CHOOSE x \in U : TRUE, f[U \ {CHOOSE x \in U : TRUE}])
  <2>1. pick[U] = CHOOSE x \in U : TRUE
    OBVIOUS
  <2>2. pick[U] \in S
    BY <1>3, <1>6
  <2>3. \A d \in S, n \in MemRec : D[<<d, n>>] = op(d, n)
    OBVIOUS
  <2> HIDE DEF pick, D
  <2>4. f[U] = D[<<pick[U], f[U \ {pick[U]}]>>] /\ f[U \ {pick[U]}] \in MemRec
    BY <1>5, <1>6 DEF Folds
  <2>5. f[U] = op(pick[U], f[U \ {pick[U]}])
    BY <2>2, <2>3, <2>4
  <2> QED
    BY <2>1, <2>5
<1>7. it = [U \in SUBSET S |->
              IF U = {} THEN m ELSE op(CHOOSE x \in U : TRUE, it[U \ {CHOOSE x \in U : TRUE}])]
  <2>1. f = [U \in SUBSET S |->
               IF U = {} THEN m ELSE op(CHOOSE x \in U : TRUE, f[U \ {CHOOSE x \in U : TRUE}])]
    BY <1>5, <1>6 DEF Folds
  <2> QED
    BY <2>1
<1> HIDE DEF it
<1> DEFINE Q(U) == Moves(m, it[U], {}) /\ \A d \in S \ U : it[U].byDigest[d] = m.byDigest[d]
           P == {U \in SUBSET S : Q(U)}
<1>8. {} \in P
  BY <1>7, MovesNone
<1>9. ASSUME NEW U \in SUBSET S, U # {}, \A x \in U : U \ {x} \in P PROVE U \in P
  <2>1. PICK x \in U : x = CHOOSE y \in U : TRUE
    BY <1>9
  <2> DEFINE n == it[U \ {x}]
  <2>2. it[U] = op(x, n) /\ Q(U \ {x}) /\ x \in S /\ x \in Descs
    BY <1>7, <1>9, <2>1
  <2>3. n \in MemRec /\ Whole(n) /\ x \in n.old /\ ~Retained(x)
    <3>1. n \in MemRec /\ Whole(n) /\ n.byDigest[x] = "old" /\ ~Retained(x)
      BY <2>2 DEF Moves, Alike
    <3> QED BY <2>2, <3>1 DEF Whole, ListsOK
  <2> HIDE DEF n
  <2>4. /\ Moves(n, it[U], {})
        /\ it[U].byDigest = [n.byDigest EXCEPT ![x] = "none"]
    <3>1. it[U] = RemoveOld(n, x)
      BY <2>2 DEF op
    <3> QED
      BY <2>2, <2>3, <3>1, RemoveOldMoves
  <2>5. Moves(m, it[U], {})
    BY <2>2, <2>4, MovesTransitive DEF n
  <2>6. ASSUME NEW d \in S \ U PROVE it[U].byDigest[d] = m.byDigest[d]
    <3>1. n.byDigest[d] = m.byDigest[d] /\ d # x /\ d \in Descs
      BY <2>2, <2>6 DEF n
    <3>2. n.byDigest \in [Descs -> {"none", "router", "old"}]
      BY <2>3 DEF MemRec
    <3> QED
      BY <2>4, <3>1, <3>2
  <2> QED
    BY <2>5, <2>6
<1>10. S \in P
  <2> HIDE DEF P
  <2> QED
    BY <1>2, <1>8, <1>9, SubsetInduction
<1> QED
  BY <1>1, <1>10

\* A change of the lists by which nothing comes.
LEMMA LossSound ==
  ASSUME NEW K \in SUBSET RetainedDescs, NEW T \in SUBSET RetainedDescs, NEW E,
         NEW w, Sound(w, K, T, E, Nil), w.alive, NEW r, Moves(w.mem, r, {}), NEW v, v = [w EXCEPT !.mem = r]
  PROVE  Sound(v, K, T, E, Nil)
<1>1. Nil \notin Descs /\ Nil \notin Extras
  BY StoreConstants
<1>2. Moves(w.mem, r, {Nil})
  BY <1>1 DEF Moves
<1>3. Nil \notin T
  BY <1>1 DEF RetainedDescs
<1> QED
  BY <1>1, <1>2, <1>3, MoveSound

LEMMA SurplusIs ==
  ASSUME NEW m \in MemRec, NEW X \in Surplus(m)
  PROVE  X \in SUBSET m.old /\ \A d \in X : ~Retained(d)
<1> DEFINE mine(r) == {d \in m.old : Owner[d] = r}
           few == Cardinality(m.old) < Cardinality({r \in Routers : m.routers[r] # Nil})
<1>1. CASE few
  BY <1>1 DEF Surplus
<1>2. CASE ~few
  <2>1. X \in SUBSET m.old /\ \A r \in Routers : X \cap mine(r) \in SUBSET {d \in mine(r) : ~Retained(d)}
    BY <1>2 DEF Surplus
  <2>2. ASSUME NEW d \in X PROVE ~Retained(d)
    <3>1. d \in m.old /\ d \in Descs /\ Owner[d] \in Routers
      BY <2>1, StoreConstants DEF MemRec
    <3> QED
      BY <2>1, <3>1
  <2> QED BY <2>1, <2>2
<1> QED BY <1>1, <1>2

LEMMA RemoveOldRoutersSound ==
  ASSUME NEW K \in SUBSET RetainedDescs, NEW T \in SUBSET RetainedDescs, NEW E \in SUBSET Stores,
         NEW w, Sound(w, K, T, E, Nil), w.alive, NEW v \in RemoveOldRouters(w)
  PROVE  Sound(v, K, T, E, Nil)
<1> DEFINE Late(X, past) == {d \in X : ~Retained(d) /\ (past \/ d <= cutoff)}
           first(age) == Late(Held(w.mem, "desc") \ w.mem.old, age # "young")
           mid(age) == RemoveRouters(w.mem, first(age))
           second(age) == Late(mid(age).old, age = "old")
           Aged(age) == RemoveAllOld(mid(age), second(age))
           Ages3 == {"young", "aged", "old"}
           Pruned(m) == {RemoveAllOld(m, X) : X \in Surplus(m)}
           left == {[w EXCEPT !.mem = m] : m \in UNION {Pruned(Aged(age)) : age \in Ages3}}
           tidy == Then(left, LAMBDA u : Tidied(u, "desc"))
<1>1. CASE listed = Nil
  BY <1>1 DEF RemoveOldRouters
<1>2. CASE listed # Nil
  <2>1. v \in Then(tidy, LAMBDA u : Tidied(u, "extra"))
    BY <1>2 DEF RemoveOldRouters
  <2>2. w.mem \in MemRec /\ Whole(w.mem) /\ K \in SUBSET Descs
    BY DEF Sound, WorldRec, RetainedDescs
  <2>3. ASSUME NEW u \in left PROVE Sound(u, K, T, E, Nil) /\ u.alive
    <3>0. PICK age \in Ages3 : \E m \in Pruned(Aged(age)) : u = [w EXCEPT !.mem = m]
      BY <2>3
    <3>1. PICK m \in Pruned(Aged(age)) : u = [w EXCEPT !.mem = m]
      BY <3>0
    <3> DEFINE L == first(age)
               M == mid(age)
               O == second(age)
               A == Aged(age)
    <3>2. L \in SUBSET Descs /\ \A d \in L : ~Retained(d) /\ w.mem.byDigest[d] # "none" /\ d \notin w.mem.old
      <4>1. "desc" \in Stores
        BY DEF Stores
      <4>2. Held(w.mem, "desc") = {i \in Items : StoreOf(i) = "desc" /\ HeldIn(w.mem, i)}
        BY <2>2, <4>1, HeldIs
      <4> QED
        BY <4>2, StoreOfIs DEF HeldIn
    <3>3. L \in SUBSET Descs /\ \A d \in L : w.mem.byDigest[d] = "router" /\ ~Retained(d)
      BY <2>2, <3>2 DEF Whole, ListsOK, MemRec
    <3>4. Moves(w.mem, M, {})
      <4> HIDE DEF first
      <4> QED BY <2>2, <3>3, RemoveRoutersMoves
    <3> HIDE DEF mid
    <3>5. M \in MemRec /\ Whole(M)
      BY <3>4 DEF Moves, Alike
    <3>6. O \in SUBSET Descs /\ \A d \in O : M.byDigest[d] = "old" /\ ~Retained(d)
      BY <3>5 DEF Whole, ListsOK, MemRec
    <3> HIDE DEF second
    <3>7. Moves(M, A, {})
      BY <3>5, <3>6, RemoveAllOldMoves
    <3> HIDE DEF Aged
    <3>8. A \in MemRec /\ Whole(A)
      BY <3>7 DEF Moves, Alike
    <3>9. PICK X \in Surplus(A) : m = RemoveAllOld(A, X)
      BY <3>1
    <3>10. X \in SUBSET Descs /\ \A d \in X : A.byDigest[d] = "old" /\ ~Retained(d)
      BY <3>8, <3>9, SurplusIs DEF Whole, ListsOK, MemRec
    <3>11. Moves(A, m, {})
      BY <3>8, <3>9, <3>10, RemoveAllOldMoves
    <3>12. Moves(w.mem, m, {})
      BY <2>2, <3>4, <3>5, <3>7, <3>8, <3>11, MovesTransitive
    <3>13. Sound(u, K, T, E, Nil)
      BY <3>1, <3>12, LossSound
    <3>14. u.alive
      BY <3>1 DEF Sound, WorldRec
    <3> QED BY <3>13, <3>14
  <2> HIDE DEF left
  <2>4. ASSUME NEW u \in tidy PROVE Sound(u, K, T, E, Nil)
    <3>1. PICK y \in left : u \in IF y.alive THEN Tidied(y, "desc") ELSE {y}
      BY <2>4 DEF Then
    <3>2. "desc" \in Stores
      BY DEF Stores
    <3> QED
      BY <2>2, <2>3, <3>1, <3>2, TidiedSound
  <2> HIDE DEF tidy
  <2>5. PICK y \in tidy : v \in IF y.alive THEN Tidied(y, "extra") ELSE {y}
    BY <2>1 DEF Then
  <2>6. "extra" \in Stores
    BY DEF Stores
  <2> QED
    BY <2>2, <2>4, <2>5, <2>6, TidiedSound
<1> QED BY <1>1, <1>2

\* router_rebuild_store, forced or not.
LEMMA RebuildSound ==
  ASSUME NEW K \in SUBSET RetainedDescs, NEW T \in SUBSET RetainedDescs, NEW E \in SUBSET Stores,
         NEW w, Sound(w, K, T, E, Nil), w.alive, NEW s \in Stores, s \notin E, NEW force \in BOOLEAN,
         NEW v \in Rebuild(w, s, force)
  PROVE  Sound(v, K, T, E, Nil)
<1> DEFINE both == Then(RemoveOldRouters(w), LAMBDA u :
                          {y \in Rebuilds(u, s) : force => ~y.alive \/ y.disk[s].journal = <<>>})
<1>1. v = w \/ v \in both
  BY DEF Rebuild
<1>2. CASE v \in both
  <2>1. PICK u \in RemoveOldRouters(w) :
          v \in IF u.alive THEN {y \in Rebuilds(u, s) : force => ~y.alive \/ y.disk[s].journal = <<>>} ELSE {u}
    BY <1>2 DEF Then
  <2>2. Sound(u, K, T, E, Nil)
    BY RemoveOldRoutersSound
  <2>3. K \in SUBSET Descs
    BY DEF RetainedDescs
  <2>4. v = u \/ (u.alive /\ v \in Rebuilds(u, s))
    BY <2>1
  <2> QED
    BY <2>2, <2>3, <2>4, RebuildsSound
<1> QED
  BY <1>1, <1>2


-----------------------------------------------------------------------------
(* Documents that arrive. *)

\* A program that died holds nothing.
LEMMA DeadAny ==
  ASSUME NEW K, NEW T, NEW E, NEW x, NEW w, Sound(w, K, T, E, x), ~w.alive
  PROVE  Sound(w, K, T, E, Nil)
BY NothingWhole DEF Sound, Placed

\* The descriptor d was added to w, or not.
Added(w, v, d, K, T, E, fromCache) ==
  /\ Sound(v, K, T, E, Nil)
  /\ Retained(d) /\ v.alive => v.mem.byDigest[d] # "none"
  /\ fromCache => v.alive /\ v.disk = w.disk /\ v.mem.uncached \subseteq w.mem.uncached

LEMMA AlikeUncached ==
  ASSUME NEW m \in MemRec, NEW r, Alike(m, r)
  PROVE  r.uncached \subseteq m.uncached
BY StoreConstants DEF Alike, Same, Gone, MemRec

LEMMA AsideAdded ==
  ASSUME NEW K \in SUBSET RetainedDescs, NEW T \in SUBSET RetainedDescs, NEW E \in SUBSET Stores,
         NEW d \in Descs, NEW w, Sound(w, K, T, E, d), w.alive, w.mem.byDigest[d] = "none", ~Retained(d),
         NEW fromCache \in BOOLEAN, fromCache \/ "desc" \notin E, NEW v \in Aside(w, d, fromCache)
  PROVE  Added(w, v, d, K, T, E, fromCache)
<1> DEFINE first == IF caches /\ ~fromCache THEN Append2Journal(w, d) ELSE {w}
<1>1. PICK u \in first : v \in IF u.alive THEN {[u EXCEPT !.mem = InsertOld(u.mem, d)]} ELSE {u}
  BY DEF Aside, Then
<1>2. Sound(u, K, T, E, d) /\ (u.alive => u.mem.byDigest[d] = "none") /\ (fromCache => u = w)
  <2>1. d \in Items /\ StoreOf(d) = "desc" /\ K \in SUBSET Descs
    BY StoreConstants DEF StoreOf, RetainedDescs
  <2>2. CASE u \in Append2Journal(w, d) /\ ~fromCache
    BY <2>1, <2>2, Append2JournalSound
  <2>3. CASE u = w
    BY <2>3
  <2> QED BY <1>1, <2>2, <2>3
<1>3. CASE ~u.alive
  BY <1>1, <1>2, <1>3, DeadAny DEF Added
<1>4. CASE u.alive
  <2> DEFINE r == InsertOld(u.mem, d)
  <2>1. u \in WorldRec /\ u.mem \in MemRec /\ Whole(u.mem)
    BY <1>2 DEF Sound, WorldRec
  <2>2. v = [u EXCEPT !.mem = r]
    BY <1>1, <1>4
  <2>3. /\ Moves(u.mem, r, {d})
        /\ r.byDigest = IF caches THEN [u.mem.byDigest EXCEPT ![d] = "old"] ELSE u.mem.byDigest
        /\ caches \/ Gone(r, d)
    BY <1>2, <1>4, <2>1, InsertOldMoves
  <2> HIDE DEF r
  <2>4. r.byDigest[d] # "none" \/ Gone(r, d)
    BY <2>1, <2>3 DEF MemRec
  <2>5. d \notin T /\ d \in Items /\ d \notin Extras
    BY StoreConstants DEF RetainedDescs
  <2>6. Sound(v, K, T, E, Nil)
    BY <1>2, <1>4, <2>2, <2>3, <2>4, <2>5, MoveSound
  <2>7. r \in MemRec /\ r.uncached \subseteq u.mem.uncached
    BY <2>1, <2>3, AlikeUncached DEF Moves, Alike
  <2>8. v.alive = u.alive /\ v.disk = u.disk /\ v.mem = r
    BY <2>1, <2>2 DEF WorldRec
  <2> QED
    BY <1>2, <1>4, <2>6, <2>7, <2>8 DEF Added
<1> QED BY <1>3, <1>4

\* A change by which d comes to routers, or is forgotten, and is journaled.
WithMem(w, r) == [w EXCEPT !.mem = r]
LEMMA JournaledAdded ==
  ASSUME NEW K \in SUBSET RetainedDescs, NEW T \in SUBSET RetainedDescs, NEW E \in SUBSET Stores,
         NEW d \in Descs, NEW w, Sound(w, K, T, E, d), w.alive, w.mem.byDigest[d] = "none",
         NEW fromCache \in BOOLEAN, fromCache \/ "desc" \notin E,
         NEW r, Moves(w.mem, r, {d}), r.byDigest[d] = "router" \/ (Gone(r, d) /\ ~Retained(d)),
         NEW u, u = WithMem(w, r),
         NEW v, v = u \/ (~fromCache /\ r.byDigest[d] = "router" /\ v \in Append2Journal(u, d))
  PROVE  Added(w, v, d, K, T, E, fromCache)
<1>1. w \in WorldRec /\ w.mem \in MemRec
  BY DEF Sound, WorldRec
<1>2. r \in MemRec /\ r.uncached \subseteq w.mem.uncached
  BY <1>1, AlikeUncached DEF Moves, Alike
<1>3. u.alive = w.alive /\ u.disk = w.disk /\ u.mem = r
  BY <1>1 DEF WorldRec, WithMem
<1>4. d \in Items /\ d \notin Extras /\ StoreOf(d) = "desc" /\ K \in SUBSET Descs
  BY StoreConstants DEF RetainedDescs, StoreOf
<1>5. d \in T => r.byDigest[d] # "old"
  BY DEF RetainedDescs
<1>6. r.byDigest[d] # "none" \/ Gone(r, d)
  OBVIOUS
<1>7. Sound(u, K, T, E, Nil)
  BY <1>4, <1>5, <1>6, MoveSound DEF WithMem
<1>8. CASE v = u
  BY <1>2, <1>3, <1>7, <1>8 DEF Added
<1>9. CASE ~fromCache /\ r.byDigest[d] = "router" /\ v \in Append2Journal(u, d)
  <2>1. HeldIn(u.mem, d)
    BY <1>3, <1>9 DEF HeldIn
  <2>2. Sound(v, K, T, E, Nil) /\ (v.alive => v.mem.byDigest = u.mem.byDigest)
    <3>1. u.alive /\ StoreOf(d) \notin E
      BY <1>3, <1>4, <1>9
    <3>2. d \in Items /\ K \in SUBSET Descs
      BY <1>4
    <3> QED
      BY <1>7, <1>9, <2>1, <3>1, <3>2, Append2JournalSound
  <2> QED
    BY <1>3, <1>9, <2>2 DEF Added
<1> QED BY <1>8, <1>9

LEMMA AddRouterAdded ==
  ASSUME NEW K \in SUBSET RetainedDescs, NEW T \in SUBSET RetainedDescs, NEW E \in SUBSET Stores,
         NEW d \in Descs, NEW w, Sound(w, K, T, E, d), w.alive,
         NEW fromCache \in BOOLEAN, fromCache \/ "desc" \notin E,
         NEW fromFetch \in BOOLEAN, NEW reallyOld \in BOOLEAN,
         NEW v \in AddRouter(w, d, fromCache, fromFetch, reallyOld)
  PROVE  Added(w, v, d, K, T, E, fromCache)
<1> DEFINE m == w.mem
           now == m.routers[Owner[d]]
           aside == ~Listed(d) /\ (fromFetch \/ listed # Nil \/ (now # Nil /\ d <= now))
           Journaled(n) == LET u == [w EXCEPT !.mem = n]
                           IN  IF fromCache THEN {u} ELSE Append2Journal(u, d)
<1>1. w \in WorldRec /\ m \in MemRec /\ Whole(m) /\ Placed(m, w.disk, d)
  BY DEF Sound, WorldRec
<1>2. CASE m.byDigest[d] # "none"
  <2>1. v = w
    BY <1>2 DEF AddRouter
  <2>2. HeldIn(m, d)
    BY <1>2 DEF HeldIn
  <2>3. Placed(m, w.disk, Nil)
    BY <1>1, <2>2 DEF Placed
  <2> QED
    BY <1>2, <2>1, <2>3 DEF Added, Sound
<1>3. CASE m.byDigest[d] = "none" /\ aside
  <2>1. v \in Aside(w, d, fromCache)
    BY <1>3 DEF AddRouter
  <2>2. ~Retained(d)
    BY <1>3 DEF Retained
  <2> QED
    BY <1>3, <2>1, <2>2, AsideAdded
<1>4. CASE m.byDigest[d] = "none" /\ ~aside /\ now # Nil
  <2> DEFINE r == ReplaceRouter(m, d)
             u == [w EXCEPT !.mem = r]
  <2>1. v = u \/ (~fromCache /\ v \in Append2Journal(u, d))
    BY <1>4 DEF AddRouter
  <2>2. ~Retained(now)
    <3>1. Owner[now] = Owner[d] /\ m.byDigest[now] = "router"
      <4>1. now \in Descs /\ Owner[now] = Owner[d]
        BY <1>1, <1>4, StoreConstants DEF Whole, ListsOK, MemRec
      <4> QED
        BY <1>1, <4>1 DEF Whole, ListsOK
    <3> QED
      BY <1>4, <3>1 DEF Listed, Retained
  <2>3. Moves(m, r, {d}) /\ r.byDigest[d] = "router"
    BY <1>1, <1>4, <2>2, ReplaceMoves
  <2>4. u = WithMem(w, r)
    BY DEF WithMem
  <2> HIDE DEF r, u
  <2>5. v = u \/ (~fromCache /\ r.byDigest[d] = "router" /\ v \in Append2Journal(u, d))
    BY <2>1, <2>3
  <2>6. r.byDigest[d] = "router" \/ (Gone(r, d) /\ ~Retained(d))
    BY <2>3
  <2>7. w.mem.byDigest[d] = "none" /\ Moves(w.mem, r, {d})
    BY <1>4, <2>3
  <2> HIDE DEF m, now
  <2> QED
    BY <2>4, <2>5, <2>6, <2>7, JournaledAdded
<1>5. CASE m.byDigest[d] = "none" /\ ~aside /\ now = Nil /\ ~Listed(d) /\ fromCache /\ reallyOld
  <2> DEFINE r == Forgotten(m, d)
             u == [w EXCEPT !.mem = r]
  <2>1. v = u /\ u = WithMem(w, r)
    BY <1>5 DEF AddRouter, WithMem
  <2>2. Alike(m, r) /\ SameLists(m, r) /\ Gone(r, d)
    BY <1>1, StoreConstants, ForgottenAlike
  <2> HIDE DEF r
  <2>3. Whole(r)
    BY <1>1, <2>2 DEF Whole, ListsOK, SameLists, Alike
  <2>4. Moves(m, r, {d})
    BY <2>2, <2>3 DEF Moves, SameLists
  <2>5. ~Retained(d)
    BY <1>5 DEF Retained
  <2> QED
    BY <1>5, <2>1, <2>2, <2>4, <2>5, JournaledAdded
<1>6. CASE m.byDigest[d] = "none" /\ ~aside /\ now = Nil /\ ~(~Listed(d) /\ fromCache /\ reallyOld)
  <2> DEFINE r == Insert(m, d)
             u == [w EXCEPT !.mem = r]
  <2>1. v = u \/ (~fromCache /\ v \in Append2Journal(u, d))
    BY <1>6 DEF AddRouter
  <2>2. Moves(m, r, {d}) /\ r.byDigest = [m.byDigest EXCEPT ![d] = "router"]
    BY <1>1, <1>6, InsertMoves
  <2>3. r.byDigest[d] = "router"
    BY <1>1, <2>2 DEF MemRec
  <2>4. u = WithMem(w, r)
    BY DEF WithMem
  <2> HIDE DEF r, u
  <2>5. v = u \/ (~fromCache /\ r.byDigest[d] = "router" /\ v \in Append2Journal(u, d))
    BY <2>1, <2>3
  <2>6. r.byDigest[d] = "router" \/ (Gone(r, d) /\ ~Retained(d))
    BY <2>3
  <2>7. w.mem.byDigest[d] = "none" /\ Moves(w.mem, r, {d})
    BY <1>6, <2>2
  <2> HIDE DEF m, now
  <2> QED
    BY <2>4, <2>5, <2>6, <2>7, JournaledAdded
<1> HIDE DEF aside
<1> QED
  BY <1>2, <1>3, <1>4, <1>5, <1>6


LEMMA AddExtraSound ==
  ASSUME NEW K \in SUBSET RetainedDescs, NEW T, NEW E \in SUBSET Stores,
         NEW w, Sound(w, K, T, E, Nil), w.alive, NEW e \in Extras, NEW place \in Places, NEW offset \in Nat,
         place = "nowhere" => "extra" \notin E,
         place = "cache" => offset \in DOMAIN w.disk["extra"].file /\ w.disk["extra"].file[offset] = e,
         place = "journal" => Shelf(w.disk, e),
         NEW v \in AddExtra(w, e, place, offset)
  PROVE  /\ Sound(v, K, T, E, Nil)
         /\ place # "nowhere" => /\ v.alive /\ v.disk = w.disk /\ v.mem.uncached = w.mem.uncached
                                 /\ v.mem.byDigest = w.mem.byDigest
<1> DEFINE m == w.mem
           r == [m EXCEPT !.extras = m.extras \cup {e}, !.saved = [m.saved EXCEPT ![e] = place],
                          !.at = [m.at EXCEPT ![e] = offset]]
           in == WithMem(w, r)
<1>1. w \in WorldRec /\ m \in MemRec /\ Whole(m)
  BY DEF Sound, WorldRec
<1>2. v = w \/ (place # "nowhere" /\ v = in) \/ (place = "nowhere" /\ v \in Append2Journal(in, e))
  <2>1. [w EXCEPT !.mem.extras = @ \cup {e}, !.mem.saved[e] = place, !.mem.at[e] = offset] = in
    BY <1>1 DEF WithMem, WorldRec, MemRec
  <2> HIDE DEF in
  <2> QED
    BY <2>1 DEF AddExtra
<1>3. e \in Items /\ e \notin Descs /\ e \notin m.uncached /\ StoreOf(e) = "extra"
  BY <1>1, StoreConstants DEF StoreOf, MemRec
<1>4. m.saved \in [Items -> Places] /\ m.at \in [Items -> Nat]
  BY <1>1 DEF MemRec
<1>5. r \in MemRec
  <2>1. /\ [m.saved EXCEPT ![e] = place] \in [Items -> Places] /\ m.extras \cup {e} \in SUBSET Extras
        /\ [m.at EXCEPT ![e] = offset] \in [Items -> Nat]
    BY <1>1, <1>4 DEF MemRec
  <2> QED
    BY <1>1, <2>1 DEF MemRec
<1>6. /\ r.saved = [m.saved EXCEPT ![e] = place] /\ r.at = [m.at EXCEPT ![e] = offset]
      /\ r.uncached = m.uncached /\ r.extras = m.extras \cup {e} /\ r.byExtra = m.byExtra /\ r.len = m.len
      /\ SameLists(m, r)
  BY <1>1 DEF MemRec, SameLists
<1> HIDE DEF r
<1>7. in \in WorldRec /\ in.mem = r /\ in.disk = w.disk /\ in.alive = w.alive
  BY <1>1, <1>5 DEF WorldRec, WithMem
<1> HIDE DEF in
<1>8. Whole(r)
  BY <1>1, <1>6 DEF Whole, ListsOK, SameLists, Named
<1>9. Placed(r, w.disk, Nil)
  <2> SUFFICES ASSUME NEW k \in Items
               PROVE  /\ r.saved[k] # "nowhere" /\ k # Nil => HeldIn(r, k)
                      /\ r.saved[k] = "cache" => k \notin r.uncached /\ InFile(r, w.disk, k)
                      /\ r.saved[k] = "journal" /\ k \notin r.uncached => Shelf(w.disk, k)
    BY DEF Placed
  <2>1. CASE k = e
    <3>1. r.saved[k] = place /\ r.at[k] = offset
      BY <1>3, <1>4, <1>6, <2>1
    <3>2. HeldIn(r, k)
      BY <1>3, <1>6, <2>1 DEF HeldIn
    <3>3. place = "cache" => InFile(r, w.disk, k)
      BY <1>3, <2>1, <3>1 DEF InFile
    <3> QED
      BY <1>3, <1>6, <2>1, <3>1, <3>2, <3>3
  <2>2. CASE k # e
    <3>1. r.saved[k] = m.saved[k] /\ r.at[k] = m.at[k]
      BY <1>4, <1>6, <2>2
    <3>2. /\ m.saved[k] # "nowhere" /\ k # Nil => HeldIn(m, k)
          /\ m.saved[k] = "cache" => k \notin m.uncached /\ InFile(m, w.disk, k)
          /\ m.saved[k] = "journal" /\ k \notin m.uncached => Shelf(w.disk, k)
      BY DEF Sound, Placed
    <3>3. HeldIn(m, k) => HeldIn(r, k)
      BY <1>6 DEF HeldIn, SameLists
    <3>4. InFile(m, w.disk, k) => InFile(r, w.disk, k)
      BY <3>1 DEF InFile
    <3> QED
      BY <1>6, <3>1, <3>2, <3>3, <3>4
  <2> QED BY <2>1, <2>2
<1>10. Kept(in, K, T, E)
  BY <1>6, <1>7 DEF Sound, Kept, SameLists
<1>11. Sound(in, K, T, E, Nil)
  BY <1>7, <1>8, <1>9, <1>10 DEF Sound
<1>12. CASE v = w
  BY <1>12
<1>13. CASE place # "nowhere" /\ v = in
  BY <1>6, <1>7, <1>11, <1>13 DEF SameLists
<1>14. CASE place = "nowhere" /\ v \in Append2Journal(in, e)
  <2>1. HeldIn(in.mem, e) /\ in.alive /\ K \in SUBSET Descs /\ StoreOf(e) \notin E
    BY <1>3, <1>6, <1>7, <1>14 DEF HeldIn, RetainedDescs
  <2>2. Sound(v, K, T, E, Nil)
    BY <1>3, <1>11, <1>14, <2>1, Append2JournalSound
  <2> QED
    BY <1>14, <2>2
<1> QED BY <1>2, <1>12, <1>13, <1>14

-----------------------------------------------------------------------------
(* A restart. *)

\* The retained descriptors that are on disk and known by now.
Known(u) ==
  {d \in RetainedDescs : Shelf(u.disk, d) /\ u.mem.byDigest[d] # "none" /\ d \notin u.mem.uncached}

\* What a program is while it reads its files.
Reading(g, E) ==
  {u \in WorldRec : /\ u.alive /\ u.disk = g /\ ("desc" \in E => u.mem.uncached = {})
                    /\ Sound(u, Known(u), RetainedDescs, E, Nil)}

\* The k-th document of a file is said to be where it is.
Right(g, s, i, place, offset) ==
  /\ i \in Items /\ StoreOf(i) = s /\ offset \in Nat
  /\ \/ place = "cache" /\ offset \in DOMAIN g[s].file /\ g[s].file[offset] = i
     \/ place = "journal" /\ Contains(g[s].journal, i)

LEMMA RightOnShelf ==
  ASSUME NEW g \in DiskRec, NEW s \in Stores, NEW i, NEW place, NEW offset, Right(g, s, i, place, offset)
  PROVE  Shelf(g, i)
<1>1. CASE place = "cache"
  <2>1. DOMAIN g[s].file = 1 .. Len(g[s].file)
    BY LenProperties DEF DiskRec
  <2> QED
    BY <1>1, <2>1 DEF Right, Shelf, Contains
<1>2. CASE place = "journal"
  BY <1>2 DEF Right, Shelf
<1> QED BY <1>1, <1>2 DEF Right

LEMMA LoadedRight ==
  ASSUME NEW g, NEW E \in SUBSET Stores, NEW w \in Reading(g, E), NEW s \in E,
         NEW i, NEW place \in {"cache", "journal"}, NEW offset, Right(g, s, i, place, offset),
         NEW reallyOld \in BOOLEAN, NEW v \in Loaded(w, i, place, offset, reallyOld)
  PROVE  v \in Reading(g, E) /\ Known(w) \subseteq Known(v) /\ (i \in RetainedDescs => i \in Known(v))
<1>1. /\ w \in WorldRec /\ w.alive /\ w.disk = g /\ w.mem \in MemRec
      /\ ("desc" \in E => w.mem.uncached = {})
      /\ Sound(w, Known(w), RetainedDescs, E, Nil) /\ g \in DiskRec /\ s \in Stores
  BY DEF Reading, WorldRec
<1>2. i \in Items /\ StoreOf(i) = s /\ offset \in Nat /\ Shelf(g, i) /\ place \in Places
  BY <1>1, RightOnShelf DEF Right, Places
<1>3. Known(w) \in SUBSET RetainedDescs
  BY DEF Known
\* What is shown of each case.
<1> DEFINE Goal == /\ v.alive /\ v.disk = g /\ ("desc" \in E => v.mem.uncached = {})
                   /\ Sound(v, Known(w), RetainedDescs, E, Nil)
                   /\ i \in RetainedDescs => v.mem.byDigest[i] # "none"
<1>4. ASSUME i \in Extras PROVE Goal
  <2>1. v \in AddExtra(w, i, place, offset)
    BY <1>4 DEF Loaded
  <2>2. s = "extra" /\ i \notin Descs
    BY <1>2, <1>4, StoreConstants DEF StoreOf
  <2>3. place = "cache" => offset \in DOMAIN w.disk["extra"].file /\ w.disk["extra"].file[offset] = i
    BY <1>1, <2>2 DEF Right
  <2>4. place # "nowhere" /\ (place = "journal" => Shelf(w.disk, i))
    BY <1>1, <1>2
  <2>5. /\ Sound(v, Known(w), RetainedDescs, E, Nil) /\ v.alive /\ v.disk = w.disk
        /\ v.mem.uncached = w.mem.uncached
    BY <1>1, <1>2, <1>3, <1>4, <2>1, <2>3, <2>4, AddExtraSound
  <2>6. i \notin RetainedDescs
    BY <2>2 DEF RetainedDescs
  <2>7. Goal
    BY <1>1, <2>5, <2>6
  <2> QED BY <2>7
<1>5. ASSUME i \in Descs, w.mem.byDigest[i] # "none" PROVE Goal
  <2>1. i \notin Extras
    BY <1>5, StoreConstants
  <2>2. v = w
    BY <1>5, <2>1 DEF Loaded
  <2>3. Goal
    BY <1>1, <1>5, <2>2
  <2> QED BY <2>3
<1>6. ASSUME i \in Descs, w.mem.byDigest[i] = "none" PROVE Goal
  <2> DEFINE m == w.mem
             r == [m EXCEPT !.saved = [m.saved EXCEPT ![i] = place], !.at = [m.at EXCEPT ![i] = offset]]
             u == WithMem(w, r)
  <2>1. i \notin Extras /\ s = "desc" /\ w.mem.uncached = {}
    BY <1>1, <1>2, <1>6, StoreConstants DEF StoreOf
  <2>2. v \in AddRouter(u, i, TRUE, FALSE, reallyOld)
    <3>1. [w EXCEPT !.mem.saved[i] = place, !.mem.at[i] = offset] = u
      BY <1>1 DEF WithMem, WorldRec, MemRec
    <3> HIDE DEF u
    <3> QED
      BY <1>6, <2>1, <3>1 DEF Loaded
  <2>3. m.saved \in [Items -> Places] /\ m.at \in [Items -> Nat]
    BY <1>1 DEF MemRec
  <2>4. r \in MemRec
    <3>1. [m.saved EXCEPT ![i] = place] \in [Items -> Places] /\ [m.at EXCEPT ![i] = offset] \in [Items -> Nat]
      BY <1>2, <2>3
    <3> QED
      BY <1>1, <3>1 DEF MemRec
  <2>5. /\ r.saved = [m.saved EXCEPT ![i] = place] /\ r.at = [m.at EXCEPT ![i] = offset]
        /\ r.uncached = m.uncached /\ r.extras = m.extras /\ r.byExtra = m.byExtra /\ r.len = m.len
        /\ SameLists(m, r)
    BY <1>1 DEF MemRec, SameLists
  <2> HIDE DEF r
  <2>6. u \in WorldRec /\ u.mem = r /\ u.disk = w.disk /\ u.alive = w.alive
    BY <1>1, <2>4 DEF WorldRec, WithMem
  <2> HIDE DEF u
  <2>7. Whole(r)
    BY <1>1, <2>5 DEF Whole, ListsOK, SameLists, Named, Sound
  <2>8. Placed(r, w.disk, i)
    <3> SUFFICES ASSUME NEW k \in Items
                 PROVE  /\ r.saved[k] # "nowhere" /\ k # i => HeldIn(r, k)
                        /\ r.saved[k] = "cache" => k \notin r.uncached /\ InFile(r, w.disk, k)
                        /\ r.saved[k] = "journal" /\ k \notin r.uncached => Shelf(w.disk, k)
      BY DEF Placed
    <3>1. CASE k = i
      <4>1. r.saved[k] = place /\ r.at[k] = offset
        BY <1>2, <2>3, <2>5, <3>1
      <4>2. place = "cache" => InFile(r, w.disk, k)
        BY <1>1, <1>2, <3>1, <4>1 DEF InFile, Right
      <4> QED
        BY <1>1, <1>2, <2>1, <2>5, <3>1, <4>1, <4>2
    <3>2. CASE k # i
      <4>1. r.saved[k] = m.saved[k] /\ r.at[k] = m.at[k]
        BY <2>3, <2>5, <3>2
      <4>2. /\ m.saved[k] # "nowhere" /\ k # Nil => HeldIn(m, k)
            /\ m.saved[k] = "cache" => k \notin m.uncached /\ InFile(m, w.disk, k)
            /\ m.saved[k] = "journal" /\ k \notin m.uncached => Shelf(w.disk, k)
        BY <1>1 DEF Sound, Placed
      <4>3. k # Nil
        BY StoreAssumption
      <4>4. HeldIn(m, k) => HeldIn(r, k)
        BY <2>5 DEF HeldIn, SameLists
      <4>5. InFile(m, w.disk, k) => InFile(r, w.disk, k)
        BY <4>1 DEF InFile
      <4> QED
        BY <2>5, <4>1, <4>2, <4>3, <4>4, <4>5
    <3> QED BY <3>1, <3>2
  <2>9. Kept(u, Known(w), RetainedDescs, E)
    BY <1>1, <2>5, <2>6 DEF Sound, Kept, SameLists
  <2>10. Sound(u, Known(w), RetainedDescs, E, i)
    BY <1>1, <2>6, <2>7, <2>8, <2>9 DEF Sound
  <2>11. u.alive /\ TRUE \in BOOLEAN /\ FALSE \in BOOLEAN
    BY <1>1, <2>6
  <2>12. Added(u, v, i, Known(w), RetainedDescs, E, TRUE)
    BY <1>3, <1>6, <2>2, <2>10, <2>11, AddRouterAdded
  <2>13. Goal
    BY <1>1, <2>1, <2>5, <2>6, <2>12 DEF Added, RetainedDescs
  <2> QED BY <2>13
<1>7. Goal
  BY <1>2, <1>4, <1>5, <1>6 DEF Items
<1>8. Known(w) \subseteq Known(v)
  BY <1>1, <1>7 DEF Known, Sound, Kept
<1>9. i \in RetainedDescs => i \in Known(v)
  <2>1. i \in RetainedDescs => "desc" \in E
    BY <1>2 DEF RetainedDescs, StoreOf
  <2> QED
    BY <1>2, <1>7, <2>1 DEF Known
<1>10. Kept(v, Known(v), RetainedDescs, E)
  BY <1>7 DEF Sound, Kept, Known
<1>11. v \in WorldRec /\ Sound(v, Known(v), RetainedDescs, E, Nil)
  BY <1>7, <1>10 DEF Sound
<1> QED
  BY <1>7, <1>8, <1>9, <1>11 DEF Reading


Grows(g, E, w, v, i) ==
  v \in Reading(g, E) /\ Known(w) \subseteq Known(v) /\ (i \in RetainedDescs => i \in Known(v))
LEMMA LoadedGrows ==
  ASSUME NEW g, NEW E \in SUBSET Stores, NEW w \in Reading(g, E), NEW s \in E,
         NEW i, NEW place \in {"cache", "journal"}, NEW offset, Right(g, s, i, place, offset),
         NEW reallyOld \in BOOLEAN, NEW v \in Loaded(w, i, place, offset, reallyOld)
  PROVE  Grows(g, E, w, v, i)
BY LoadedRight DEF Grows

LEMMA AllLoaded ==
  ASSUME NEW g, NEW E \in SUBSET Stores, NEW s \in E,
         NEW i, NEW place \in {"cache", "journal"}, NEW offset, Right(g, s, i, place, offset),
         NEW reallyOld \in BOOLEAN
  PROVE  \A w \in Reading(g, E) : \A v \in Loaded(w, i, place, offset, reallyOld) : Grows(g, E, w, v, i)
BY LoadedGrows

Rights(g, s, file, place) ==
  \A k \in 1 .. Len(file) : Right(g, s, file[k], place, IF place = "cache" THEN k ELSE 0)
Reads(g, E, L, file, R) ==
  /\ R \in SUBSET Reading(g, E)
  /\ \A v \in R : /\ L \subseteq Known(v)
                  /\ \A d \in RetainedDescs : Contains(file, d) => d \in Known(v)
Know(worlds, L) == \A u \in worlds : L \subseteq Known(u)

\* A file is loaded, document after document.
LEMMA LoadRight ==
  ASSUME NEW g, NEW E \in SUBSET Stores, NEW worlds \in SUBSET Reading(g, E), NEW s \in E,
         NEW file \in Seq(Items), NEW place \in {"cache", "journal"}, Rights(g, s, file, place),
         NEW reallyOld \in BOOLEAN, NEW L, Know(worlds, L)
  PROVE  Reads(g, E, L, file, Load(worlds, file, place, reallyOld))
<1> DEFINE n == Len(file)
           idx == [i \in DOMAIN file |-> i]
           S == DOMAIN idx
           off(k) == IF place = "cache" THEN k ELSE 0
           op(k, ws) == UNION {Loaded(u, file[k], place, off(k), reallyOld) : u \in ws}
           X == SUBSET Reading(g, E)
           D == [p \in (1 .. n) \X X |-> op(p[1], p[2])]
           it == CHOOSE f : f = [T \in SUBSET S |->
                   IF T = {} THEN worlds ELSE op(idx[Max(T)], f[T \ {Max(T)}])]
<1>1. Load(worlds, file, place, reallyOld) = it[S]
  BY DEF Load, FoldLeftDomain, FoldLeft, MapThenFoldSet
<1>2. S = 1 .. n /\ n \in Nat /\ \A k \in 1 .. n : idx[k] = k
  BY LenProperties
<1> HIDE DEF idx, S
<1>3. ASSUME NEW k \in 1 .. n, NEW ws \in X, NEW v \in op(k, ws)
      PROVE  /\ v \in Reading(g, E)
             /\ \E u \in ws : Known(u) \subseteq Known(v) /\ (file[k] \in RetainedDescs => file[k] \in Known(v))
  <2> DEFINE i == file[k]
             o == off(k)
  <2>1. v \in UNION {Loaded(u, i, place, o, reallyOld) : u \in ws} /\ Right(g, s, i, place, o)
    BY <1>3 DEF Rights
  <2> HIDE DEF i, o, X, D, it, op, n
  <2>2. ws \in SUBSET Reading(g, E)
    BY DEF X
  <2>3. \A w \in Reading(g, E) : \A y \in Loaded(w, i, place, o, reallyOld) : Grows(g, E, w, y, i)
    BY <2>1, AllLoaded
  <2>4. PICK u \in ws : Grows(g, E, u, v, i)
    BY <2>1, <2>2, <2>3
  <2> QED
    BY <2>4 DEF Grows, i
<1> HIDE DEF op
<1>4. \A k \in 1 .. n, ws \in X : op(k, ws) \in X
  BY <1>3
<1>5. D \in [(1 .. n) \X X -> X]
  BY <1>4
<1>6. PICK f : /\ Folds(f, 1 .. n, X, worlds, [T \in SUBSET (1 .. n) |-> Max(T)], D)
               /\ Steps(f, n, worlds, D)
  <2>1. worlds \in X
    OBVIOUS
  <2> HIDE DEF D, X, n
  <2> QED BY <1>2, <1>5, <2>1, FoldSteps
<1>7. it = [T \in SUBSET S |-> IF T = {} THEN worlds ELSE op(idx[Max(T)], it[T \ {Max(T)}])]
  <2> DEFINE h == [T \in SUBSET S |-> IF T = {} THEN worlds ELSE op(idx[Max(T)], f[T \ {Max(T)}])]
  <2> HIDE DEF n
  <2>1. ASSUME NEW T \in SUBSET S PROVE f[T] = h[T]
    <3>1. CASE T = {}
      BY <1>2, <1>6, <3>1 DEF Folds
    <3>2. CASE T # {}
      <4>1. Max(T) \in T /\ T \in SUBSET (1 .. n) /\ Max(T) \in 1 .. n
        BY <1>2, <3>2, MaxIn
      <4>2. f[T \ {Max(T)}] \in X
        <5> HIDE DEF X, D
        <5> QED BY <1>6, <4>1 DEF Folds
      <4>3. f[T] = D[<<Max(T), f[T \ {Max(T)}]>>]
        <5> HIDE DEF X, D
        <5> QED BY <1>6, <3>2, <4>1 DEF Folds
      <4> HIDE DEF X
      <4>4. f[T] = op(Max(T), f[T \ {Max(T)}])
        BY <4>1, <4>2, <4>3
      <4> QED
        BY <1>2, <3>2, <4>1, <4>4
    <3> QED BY <3>1, <3>2
  <2>2. f = h
    BY <1>2, <1>6, <2>1 DEF Folds
  <2> QED
    BY <2>2
<1> HIDE DEF it
<1>8. it[{}] = worlds
  BY <1>7
<1>9. ASSUME NEW k \in 1 .. n PROVE it[1 .. k] = op(k, it[1 .. (k - 1)])
  <2>1. 1 .. k \in SUBSET S /\ 1 .. k # {} /\ (1 .. k) \ {k} = 1 .. (k - 1)
    <3>1. \A j \in 1 .. k : j \in 1 .. n
      BY <1>2
    <3>2. k \in Nat \ {0}
      BY <1>2
    <3>3. 1 .. k # {} /\ (1 .. k) \ {k} = 1 .. (k - 1)
      <4>1. k \in 1 .. k
        BY <3>2
      <4>2. ASSUME NEW j PROVE j \in (1 .. k) \ {k} <=> j \in 1 .. (k - 1)
        BY <3>2
      <4> QED
        BY <4>1, <4>2
    <3>4. 1 .. k \in SUBSET S
      BY <1>2, <3>1
    <3> QED
      BY <3>3, <3>4
  <2>2. Max(1 .. k) = k
    BY <1>2, MaxOf
  <2>3. it[1 .. k] = op(idx[Max(1 .. k)], it[(1 .. k) \ {Max(1 .. k)}])
    BY <1>7, <2>1
  <2> QED
    BY <1>2, <2>1, <2>2, <2>3
<1> DEFINE Q(k) == /\ it[1 .. k] \in X
                   /\ \A v \in it[1 .. k] : /\ L \subseteq Known(v)
                                            /\ \A j \in 1 .. k : file[j] \in RetainedDescs => file[j] \in Known(v)
           P == {k \in Nat : k <= n => Q(k)}
<1>10. 0 \in P
  <2>1. 1 .. 0 = {} /\ it[1 .. 0] = worlds
    BY <1>8
  <2> QED
    BY <2>1 DEF Know
<1>11. ASSUME NEW m \in Nat, m \in P PROVE m + 1 \in P
  <2>1. SUFFICES ASSUME m + 1 <= n PROVE Q(m + 1)
    OBVIOUS
  <2> DEFINE k == m + 1
             old == it[1 .. m]
             new == it[1 .. k]
  <2>2. k \in 1 .. n /\ k - 1 = m /\ 1 .. k = 1 .. m \cup {k}
    BY <1>2, <2>1
  <2>3. /\ old \in X
        /\ \A v \in old : /\ L \subseteq Known(v)
                          /\ \A j \in 1 .. m : file[j] \in RetainedDescs => file[j] \in Known(v)
    BY <1>2, <1>11, <2>1
  <2>4. new = op(k, old)
    BY <1>9, <2>2
  <2> HIDE DEF old, new, k
  <2>5. new \in X
    BY <1>4, <2>2, <2>3, <2>4
  <2>6. ASSUME NEW v \in new
        PROVE  L \subseteq Known(v) /\ \A j \in 1 .. k : file[j] \in RetainedDescs => file[j] \in Known(v)
    <3>1. PICK u \in old : Known(u) \subseteq Known(v) /\ (file[k] \in RetainedDescs => file[k] \in Known(v))
      BY <1>3, <2>2, <2>3, <2>4, <2>6
    <3> QED
      BY <2>2, <2>3, <3>1
  <2> QED
    BY <2>5, <2>6 DEF k, new
<1>12. n \in P
  <2> HIDE DEF P
  <2> QED
    BY <1>2, <1>10, <1>11, SetInduction
<1>13. Q(n)
  BY <1>2, <1>12
<1> QED
  BY <1>1, <1>2, <1>13 DEF Contains, Reads

\* What is on disk of a store is read, and then the store is tidied.
LEMMA ReloadedSound ==
  ASSUME NEW g, NEW E \in SUBSET Stores, NEW s \in E, NEW w \in Reading(g, E),
         NEW K \in SUBSET RetainedDescs,
         \A d \in K : d \in Known(w) \/ (s = "desc" /\ Shelf(g, d)),
         NEW reallyOld \in BOOLEAN, NEW v \in Reloaded(w, s, reallyOld)
  PROVE  Sound(v, K, RetainedDescs, E \ {s}, Nil)
<1> DEFINE file == disk[s].file
           journal == Journal(s)
           first == Load({w}, file, "cache", reallyOld)
           read == Load(first, journal, "journal", reallyOld)
           L == Known(w) \cup {d \in RetainedDescs : Contains(file, d)}
<1>1. /\ w \in WorldRec /\ w.alive /\ w.disk = g /\ g \in DiskRec /\ s \in Stores
      /\ Filed(g) /\ g[s] = disk[s] /\ disk[s] \in [file : Seq(Items), journal : Seq(Items \cup {Torn})]
  BY DEF Reading, Sound, Kept, WorldRec, DiskRec
<1>2. /\ file \in Seq(Items) /\ journal \in Seq(Items)
      /\ \A i : Contains(journal, i) <=> Contains(disk[s].journal, i) /\ i \in Items
  <2>1. disk[s].journal \in Seq(Items \cup {Torn}) /\ file \in Seq(Items)
    BY <1>1
  <2> QED
    BY <2>1, ThoseMembers DEF Journal
<1>3. \A k \in 1 .. Len(file) : Right(g, s, file[k], "cache", k)
  <2> SUFFICES ASSUME NEW k \in 1 .. Len(file) PROVE Right(g, s, file[k], "cache", k)
    OBVIOUS
  <2>1. k \in DOMAIN file /\ file[k] \in Items /\ Contains(file, file[k]) /\ k \in Nat
    BY <1>2, LenProperties, ElementOfSeq DEF Contains
  <2>2. file = g[s].file
    BY <1>1
  <2> HIDE DEF file
  <2>3. StoreOf(file[k]) = s
    BY <1>1, <2>1, <2>2 DEF Filed
  <2> QED
    BY <2>1, <2>2, <2>3 DEF Right
<1>4. \A k \in 1 .. Len(journal) : Right(g, s, journal[k], "journal", 0)
  <2> SUFFICES ASSUME NEW k \in 1 .. Len(journal) PROVE Right(g, s, journal[k], "journal", 0)
    OBVIOUS
  <2>1. journal[k] \in Items /\ Contains(journal, journal[k])
    BY <1>2, LenProperties, ElementOfSeq DEF Contains
  <2>2. Contains(g[s].journal, journal[k])
    BY <1>1, <1>2, <2>1
  <2>3. journal[k] # Torn
    BY <2>1, StoreAssumption DEF Torn
  <2> HIDE DEF journal
  <2>4. StoreOf(journal[k]) = s
    BY <1>1, <2>2, <2>3 DEF Filed
  <2> QED
    BY <2>1, <2>2, <2>4 DEF Right
<1> HIDE DEF file, journal
<1>5. /\ first \in SUBSET Reading(g, E)
      /\ \A u \in first : L \subseteq Known(u)
  <2>1. {w} \in SUBSET Reading(g, E) /\ Know({w}, Known(w))
    BY DEF Know
  <2>2. Rights(g, s, file, "cache")
    BY <1>3 DEF Rights
  <2>3. Reads(g, E, Known(w), file, first)
    BY <1>2, <2>1, <2>2, LoadRight
  <2> QED
    BY <2>3 DEF Reads
<1> HIDE DEF first, L
<1>6. /\ read \in SUBSET Reading(g, E)
      /\ \A u \in read : /\ L \subseteq Known(u)
                         /\ \A d \in RetainedDescs : Contains(journal, d) => d \in Known(u)
  <2>1. Rights(g, s, journal, "journal") /\ Know(first, L)
    BY <1>4, <1>5 DEF Rights, Know
  <2>2. Reads(g, E, L, journal, read)
    BY <1>2, <1>5, <2>1, LoadRight
  <2> QED
    BY <2>2 DEF Reads
<1> HIDE DEF read
<1>7. ASSUME NEW u \in read PROVE Sound(u, K, RetainedDescs, E, Nil) /\ u.alive /\ u \in WorldRec
  <2>1. u \in Reading(g, E)
    BY <1>6
  <2>2. ASSUME NEW d \in K PROVE d \in Known(u)
    <3>1. CASE d \in Known(w)
      BY <1>6, <3>1 DEF L
    <3>2. CASE s = "desc" /\ Shelf(g, d)
      <4>1. StoreOf(d) = "desc" /\ d \in RetainedDescs /\ d \in Items
        BY StoreConstants DEF RetainedDescs, StoreOf
      <4>2. Contains(file, d) \/ Contains(disk[s].journal, d)
        BY <1>1, <3>2, <4>1 DEF Shelf, file
      <4>3. d \in L \/ Contains(journal, d)
        BY <1>2, <4>1, <4>2 DEF L
      <4> QED
        BY <1>6, <4>1, <4>3
    <3> QED BY <3>1, <3>2
  <2>3. Kept(u, K, RetainedDescs, E)
    BY <2>1, <2>2 DEF Reading, Sound, Kept
  <2> QED
    BY <2>1, <2>3 DEF Reading, Sound
<1>8. CASE disk[s].journal # <<>>
  <2>1. PICK u \in read : v \in Rebuild([u EXCEPT !.mem.len[s] = Len(disk[s].journal)], s, TRUE)
    BY <1>8 DEF Reloaded, read, first, file, journal
  <2> DEFINE y == [u EXCEPT !.mem.len[s] = Len(disk[s].journal)]
             z == [u.mem EXCEPT !.len = [u.mem.len EXCEPT ![s] = Len(disk[s].journal)]]
  <2>2. u \in WorldRec /\ u.mem \in MemRec /\ Sound(u, K, RetainedDescs, E, Nil) /\ u.alive
    BY <1>7 DEF WorldRec
  <2>3. Len(disk[s].journal) \in Nat
    BY <1>1, LenProperties
  <2>4. z \in MemRec
    <3>1. [u.mem.len EXCEPT ![s] = Len(disk[s].journal)] \in [Stores -> Nat]
      BY <1>1, <2>2, <2>3 DEF MemRec
    <3> QED BY <2>2, <3>1 DEF MemRec
  <2>5. y = WithMem(u, z)
    BY <2>2 DEF WithMem, WorldRec, MemRec
  <2>6. /\ z.routers = u.mem.routers /\ z.old = u.mem.old /\ z.byDigest = u.mem.byDigest /\ z.ok = u.mem.ok
        /\ z.byExtra = u.mem.byExtra /\ z.extras = u.mem.extras /\ z.uncached = u.mem.uncached
        /\ z.saved = u.mem.saved /\ z.at = u.mem.at
        /\ \A o \in E \ {s} : z.len[o] = u.mem.len[o]
    BY <1>1, <2>2 DEF MemRec
  <2> HIDE DEF z
  <2>7. y \in WorldRec /\ y.mem = z /\ y.disk = u.disk /\ y.alive = u.alive
    BY <2>2, <2>4, <2>5 DEF WithMem, WorldRec
  <2> HIDE DEF y
  <2>8. Whole(z) /\ Placed(z, u.disk, Nil)
    BY <2>2, <2>6 DEF Sound, Whole, ListsOK, Named, Placed, HeldIn, InFile
  <2>9. Kept(y, K, RetainedDescs, E \ {s})
    BY <2>2, <2>6, <2>7 DEF Sound, Kept
  <2>10. Sound(y, K, RetainedDescs, E \ {s}, Nil) /\ y.alive
    BY <2>2, <2>7, <2>8, <2>9 DEF Sound
  <2>11. v \in Rebuild(y, s, TRUE) /\ s \in Stores /\ s \notin E \ {s} /\ E \ {s} \in SUBSET Stores /\ TRUE \in BOOLEAN
    BY <1>1, <2>1 DEF y
  <2> QED
    BY <2>10, <2>11, RebuildSound
<1>9. CASE disk[s].journal = <<>>
  <2>1. PICK u \in read : v = u \/ v \in RemoveOldRouters(u)
    BY <1>9 DEF Reloaded, read, first, file, journal
  <2>2. Sound(u, K, RetainedDescs, E, Nil) /\ u.alive
    BY <1>7
  <2>3. Sound(v, K, RetainedDescs, E, Nil)
    BY <2>1, <2>2, RemoveOldRoutersSound
  <2> QED
    BY <2>3 DEF Sound, Kept
<1> QED BY <1>8, <1>9

-----------------------------------------------------------------------------
(* The program. *)

Present == [mem |-> mem, disk |-> disk, alive |-> alive, errors |-> errors]

\* The inductive invariant.
StoreInv ==
  /\ caches \in BOOLEAN /\ listed \in Consensuses \cup {Nil} /\ cutoff \in Descs \cup {0}
  /\ alive \in BOOLEAN
  /\ Sound(Present, {}, {}, {}, Nil)

\* A step of the program after which all of K is still on disk.
Steady(K, T) ==
  /\ \E w : /\ Sound(w, K, T, {}, Nil)
            /\ mem' = w.mem /\ disk' = w.disk /\ alive' = w.alive /\ errors' = w.errors
  /\ UNCHANGED <<caches, listed, cutoff>>

LEMMA SteadyInv ==
  ASSUME StoreInv, NEW K, NEW T, Steady(K, T)
  PROVE  StoreInv'
<1>1. PICK w : /\ Sound(w, K, T, {}, Nil)
               /\ mem' = w.mem /\ disk' = w.disk /\ alive' = w.alive /\ errors' = w.errors
  BY DEF Steady
<1>2. w \in WorldRec /\ Filed(w.disk) /\ Whole(w.mem) /\ Placed(w.mem, w.disk, Nil) /\ (~w.alive => w.mem = Nothing)
  BY <1>1 DEF Sound
<1>3. Present' = w
  BY <1>1, <1>2 DEF Present, WorldRec
<1>4. caches' = caches /\ listed' = listed /\ cutoff' = cutoff
  BY DEF Steady
<1>5. Whole(w.mem)'
  BY <1>2, <1>4 DEF Whole, ListsOK, Named
<1>6. Kept(Present, {}, {}, {})'
  BY DEF Kept
<1>7. Sound(Present, {}, {}, {}, Nil)'
  BY <1>2, <1>3, <1>5, <1>6 DEF Sound, Whole, ListsOK, Named, Filed, Placed, HeldIn, InFile, Shelf
<1> QED
  BY <1>1, <1>2, <1>4, <1>7 DEF StoreInv, WorldRec


\* The program as it runs, and a step that Becomes makes.
LEMMA WorldPresent ==
  ASSUME StoreInv, alive
  PROVE  World = Present /\ World \in WorldRec /\ World.alive /\ World.mem = mem /\ World.disk = disk
<1>1. Present \in WorldRec /\ alive = TRUE
  BY DEF StoreInv, Sound
<1> QED
  BY <1>1 DEF Present, World

LEMMA BecomesSteady ==
  ASSUME NEW K, NEW T, NEW worlds, \A w \in worlds : Sound(w, K, T, {}, Nil),
         Becomes(worlds), UNCHANGED <<caches, listed, cutoff>>
  PROVE  Steady(K, T)
BY DEF Becomes, Steady

LEMMA ThenSound ==
  ASSUME NEW K, NEW T, NEW E, NEW d \in Items, NEW w, Sound(w, K, T, E, Nil)
  PROVE  Sound(w, K, T, E, d)
<1>1. Placed(w.mem, w.disk, Nil)
  BY DEF Sound
<1>2. \A i \in Items : i # Nil
  BY StoreAssumption
<1>3. Placed(w.mem, w.disk, d)
  BY <1>1, <1>2 DEF Placed
<1> QED
  BY <1>3 DEF Sound

LEMMA FetchSteady ==
  ASSUME StoreInv, NEW K \in SUBSET RetainedDescs, alive, Sound(World, K, {}, {}, Nil), NEW d \in Descs, Fetch(d)
  PROVE  Steady(K, {})
<1> DEFINE added == AddRouter(World, d, FALSE, TRUE, FALSE)
           kept(u) == IF u.mem.routers[Owner[d]] = d /\ mem.routers[Owner[d]] # d
                        THEN Rebuild(u, "desc", FALSE) ELSE {u}
           worlds == UNION {IF u.alive THEN kept(u) ELSE {u} : u \in added}
<1>1. Becomes(worlds) /\ UNCHANGED <<caches, listed, cutoff>>
  BY DEF Fetch, Then
<1>2. ASSUME NEW v \in worlds PROVE Sound(v, K, {}, {}, Nil)
  <2>1. PICK u \in added : v \in IF u.alive THEN kept(u) ELSE {u}
    BY <1>2
  <2>2. Sound(World, K, {}, {}, d) /\ World.alive
    BY ThenSound, StoreConstants, WorldPresent
  <2>3. {} \in SUBSET RetainedDescs /\ {} \in SUBSET Stores /\ FALSE \in BOOLEAN /\ TRUE \in BOOLEAN /\ "desc" \notin {}
        /\ "desc" \in Stores
    BY DEF Stores
  <2>4. Added(World, u, d, K, {}, {}, FALSE)
    BY <2>1, <2>2, <2>3, AddRouterAdded
  <2>5. Sound(u, K, {}, {}, Nil)
    BY <2>4 DEF Added
  <2> QED
    BY <2>1, <2>3, <2>5, RebuildSound
<1> HIDE DEF worlds
<1> QED
  BY <1>1, <1>2, BecomesSteady

LEMMA PostSteady ==
  ASSUME StoreInv, NEW K \in SUBSET RetainedDescs, alive, Sound(World, K, {}, {}, Nil),
         NEW d \in Descs, NEW cache \in BOOLEAN, Post(d, cache)
  PROVE  Steady(K, {})
<1> DEFINE w == IF cache \/ mem.byDigest[d] # "none" THEN World
                ELSE [World EXCEPT !.mem.uncached = @ \cup {d}]
           worlds == AddRouter(w, d, FALSE, FALSE, FALSE)
<1>1. Becomes(worlds) /\ UNCHANGED <<caches, listed, cutoff>>
  BY DEF Post
<1>2. World \in WorldRec /\ World.alive /\ World.mem = mem /\ World.disk = disk /\ mem \in MemRec
  BY WorldPresent DEF WorldRec
<1>3. Sound(w, K, {}, {}, d) /\ w.alive
  <2>1. CASE cache \/ mem.byDigest[d] # "none"
    BY <1>2, <2>1, ThenSound, StoreConstants
  <2>2. CASE ~(cache \/ mem.byDigest[d] # "none")
    <3> DEFINE r == [mem EXCEPT !.uncached = mem.uncached \cup {d}]
    <3>1. w = WithMem(World, r)
      BY <1>2, <2>2 DEF WithMem, WorldRec, MemRec
    <3>2. r \in MemRec
      BY <1>2 DEF MemRec
    <3>3. /\ r.routers = mem.routers /\ r.old = mem.old /\ r.byDigest = mem.byDigest /\ r.ok = mem.ok
          /\ r.byExtra = mem.byExtra /\ r.extras = mem.extras /\ r.uncached = mem.uncached \cup {d}
          /\ r.saved = mem.saved /\ r.at = mem.at
      BY <1>2 DEF MemRec
    <3> HIDE DEF r, w
    <3>4. w \in WorldRec /\ w.mem = r /\ w.disk = disk /\ w.alive
      BY <1>2, <3>1, <3>2 DEF WithMem, WorldRec
    <3>5. Whole(r)
      BY <1>2, <3>3 DEF Sound, Whole, ListsOK, Named
    <3>6. mem.byDigest[d] = "none" /\ d \in Items /\ d # Nil
      BY <2>2, StoreConstants
    <3>7. mem.saved[d] = "nowhere"
      BY <1>2, <3>6 DEF Sound, Placed, HeldIn, MemRec
    <3>8. Placed(r, disk, d)
      <4> SUFFICES ASSUME NEW k \in Items
                   PROVE  /\ r.saved[k] # "nowhere" /\ k # d => HeldIn(r, k)
                          /\ r.saved[k] = "cache" => k \notin r.uncached /\ InFile(r, disk, k)
                          /\ r.saved[k] = "journal" /\ k \notin r.uncached => Shelf(disk, k)
        BY DEF Placed
      <4>1. /\ mem.saved[k] # "nowhere" /\ k # Nil => HeldIn(mem, k)
            /\ mem.saved[k] = "cache" => k \notin mem.uncached /\ InFile(mem, disk, k)
            /\ mem.saved[k] = "journal" /\ k \notin mem.uncached => Shelf(disk, k)
        BY <1>2 DEF Sound, Placed
      <4>2. k # Nil /\ (HeldIn(mem, k) => HeldIn(r, k)) /\ (InFile(mem, disk, k) => InFile(r, disk, k))
        BY <3>3, StoreAssumption DEF HeldIn, InFile
      <4> QED
        BY <3>3, <3>7, <4>1, <4>2
    <3>9. Kept(w, K, {}, {})
      <4>1. \A k \in K : k # d
        BY <1>2, <3>6 DEF Sound, Kept
      <4> QED
        BY <1>2, <3>3, <3>4, <4>1 DEF Sound, Kept
    <3>10. Filed(w.disk)
      BY <1>2, <3>4 DEF Sound
    <3> QED
      BY <3>4, <3>5, <3>8, <3>9, <3>10 DEF Sound
  <2> QED BY <2>1, <2>2
<1> HIDE DEF w
<1>4. ASSUME NEW v \in worlds PROVE Sound(v, K, {}, {}, Nil)
  <2>1. {} \in SUBSET RetainedDescs /\ {} \in SUBSET Stores /\ FALSE \in BOOLEAN /\ "desc" \notin {}
    OBVIOUS
  <2>2. Added(w, v, d, K, {}, {}, FALSE)
    BY <1>3, <1>4, <2>1, AddRouterAdded
  <2> QED
    BY <2>2 DEF Added
<1> HIDE DEF worlds
<1> QED
  BY <1>1, <1>4, BecomesSteady

LEMMA FetchExtraSteady ==
  ASSUME StoreInv, NEW K \in SUBSET RetainedDescs, alive, Sound(World, K, {}, {}, Nil), NEW e \in Extras, FetchExtra(e)
  PROVE  Steady(K, {})
<1> DEFINE added == AddExtra(World, e, "nowhere", 0)
           worlds == UNION {IF u.alive THEN Rebuild(u, "extra", FALSE) ELSE {u} : u \in added}
<1>1. Becomes(worlds) /\ UNCHANGED <<caches, listed, cutoff>>
  BY DEF FetchExtra, Then
<1>2. ASSUME NEW v \in worlds PROVE Sound(v, K, {}, {}, Nil)
  <2>1. PICK u \in added : v \in IF u.alive THEN Rebuild(u, "extra", FALSE) ELSE {u}
    BY <1>2
  <2>2. World.alive
    BY WorldPresent
  <2>3. /\ {} \in SUBSET RetainedDescs /\ {} \in SUBSET Stores /\ FALSE \in BOOLEAN /\ "extra" \notin {}
        /\ "extra" \in Stores /\ "nowhere" \in Places /\ 0 \in Nat
    BY DEF Stores, Places
  <2>4. Sound(u, K, {}, {}, Nil)
    BY <2>1, <2>2, <2>3, AddExtraSound
  <2> QED
    BY <2>1, <2>3, <2>4, RebuildSound
<1> HIDE DEF worlds
<1> QED
  BY <1>1, <1>2, BecomesSteady

LEMMA HourlySteady ==
  ASSUME StoreInv, NEW K \in SUBSET RetainedDescs, alive, Sound(World, K, {}, {}, Nil), Hourly
  PROVE  Steady(K, {})
<1> DEFINE worlds == RemoveOldRouters(World)
<1>1. Becomes(worlds) /\ UNCHANGED <<caches, listed, cutoff>>
  BY DEF Hourly
<1>2. ASSUME NEW v \in worlds PROVE Sound(v, K, {}, {}, Nil)
  <2>1. {} \in SUBSET RetainedDescs /\ {} \in SUBSET Stores /\ World.alive
    BY WorldPresent
  <2> QED
    BY <1>2, <2>1, RemoveOldRoutersSound
<1> HIDE DEF worlds
<1> QED
  BY <1>1, <1>2, BecomesSteady

LEMMA CrashSteady ==
  ASSUME StoreInv, NEW K \in SUBSET RetainedDescs, alive, Sound(World, K, {}, {}, Nil), Crash
  PROVE  Steady(K, {})
<1> DEFINE worlds == {Dead(World)}
<1>1. Becomes(worlds) /\ UNCHANGED <<caches, listed, cutoff>>
  BY DEF Crash
<1>2. ASSUME NEW v \in worlds PROVE Sound(v, K, {}, {}, Nil)
  <2>1. /\ World \in WorldRec /\ Filed(World.disk) /\ (\A d \in K : Shelf(World.disk, d))
        /\ (\A s \in {} : World.disk[s] = disk[s]) /\ v = Dead(World)
    BY <1>2 DEF Sound, Kept
  <2> QED
    BY <2>1, DeadSound
<1> HIDE DEF worlds
<1> QED
  BY <1>1, <1>2, BecomesSteady


\* A restart finds what was on disk of all that is retained.
LEMMA RestartSteady ==
  ASSUME StoreInv, Restart
  PROVE  Steady({d \in RetainedDescs : Shelf(disk, d)}, RetainedDescs)
<1> DEFINE K == {d \in RetainedDescs : Shelf(disk, d)}
<1>1. PICK reallyOld \in BOOLEAN :
        Becomes(Then(Reloaded(World, "desc", reallyOld), LAMBDA u : Reloaded(u, "extra", reallyOld)))
  BY DEF Restart
<1> DEFINE first == Reloaded(World, "desc", reallyOld)
           worlds == UNION {IF u.alive THEN Reloaded(u, "extra", reallyOld) ELSE {u} : u \in first}
<1>2. Becomes(worlds) /\ UNCHANGED <<caches, listed, cutoff>>
  BY <1>1 DEF Restart, Then
<1>3. K \in SUBSET RetainedDescs
  OBVIOUS
<1>4. World \in Reading(disk, Stores)
  <2>1. Present \in WorldRec /\ Present.alive = FALSE /\ Present.mem = Nothing
    BY DEF Restart, StoreInv, Sound, Present
  <2>2. mem = Nothing /\ World \in WorldRec /\ World.mem = mem /\ World.disk = disk /\ World.alive
    BY <2>1 DEF World, WorldRec, Present
  <2>3. /\ Nothing.uncached = {} /\ (\A d \in Descs : Nothing.byDigest[d] = "none")
        /\ \A s \in Stores : Nothing.len[s] = 0
    BY DEF Nothing
  <2>4. Known(World) = {}
    BY <2>2, <2>3 DEF Known, RetainedDescs
  <2>5. Kept(World, {}, RetainedDescs, Stores)
    BY <2>2, <2>3 DEF Kept, RetainedDescs
  <2>6. Filed(World.disk)
    BY <2>2 DEF StoreInv, Sound, Present
  <2>7. Whole(World.mem) /\ Placed(World.mem, World.disk, Nil)
    BY <2>2, NothingWhole DEF Placed
  <2>8. Sound(World, {}, RetainedDescs, Stores, Nil)
    BY <2>2, <2>5, <2>6, <2>7 DEF Sound
  <2> QED
    BY <2>2, <2>3, <2>4, <2>8 DEF Reading
<1>5. Stores = {"desc", "extra"} /\ Stores \ {"desc"} = {"extra"} /\ {"extra"} \ {"extra"} = {}
  BY DEF Stores
<1>6. ASSUME NEW u \in first PROVE Sound(u, K, RetainedDescs, {"extra"}, Nil)
  <2>1. \A d \in K : d \in Known(World) \/ ("desc" = "desc" /\ Shelf(disk, d))
    OBVIOUS
  <2> HIDE DEF K
  <2>2. Sound(u, K, RetainedDescs, Stores \ {"desc"}, Nil)
    BY <1>3, <1>4, <1>5, <2>1, ReloadedSound
  <2> QED
    BY <1>5, <2>2
<1> HIDE DEF K
<1>7. ASSUME NEW v \in worlds PROVE Sound(v, K, RetainedDescs, {}, Nil)
  <2>1. PICK u \in first : v \in IF u.alive THEN Reloaded(u, "extra", reallyOld) ELSE {u}
    BY <1>7
  <2>2. Sound(u, K, RetainedDescs, {"extra"}, Nil)
    BY <1>6
  <2> HIDE DEF first
  <2>3. CASE ~u.alive
    BY <2>1, <2>2, <2>3 DEF Sound, Kept
  <2>4. CASE u.alive
    <3>1. Sound(u, Known(u), RetainedDescs, {"extra"}, Nil)
      BY <2>2, <2>4 DEF Sound, Kept, Known
    <3>2. u \in Reading(u.disk, {"extra"})
      BY <2>2, <2>4, <3>1 DEF Reading, Sound
    <3>3. \A d \in K : d \in Known(u)
      BY <1>3, <2>2, <2>4 DEF Sound, Kept, Known
    <3>4. \A d \in K : d \in Known(u) \/ ("extra" = "desc" /\ Shelf(u.disk, d))
      BY <3>3
    <3>5. {"extra"} \in SUBSET Stores /\ "extra" \in {"extra"} /\ v \in Reloaded(u, "extra", reallyOld)
      BY <1>5, <2>1, <2>4
    <3>6. Sound(v, K, RetainedDescs, {"extra"} \ {"extra"}, Nil)
      BY <1>3, <3>2, <3>4, <3>5, ReloadedSound
    <3> QED
      BY <1>5, <3>6
  <2> QED BY <2>3, <2>4
<1> HIDE DEF worlds
<1>8. Steady(K, RetainedDescs)
  BY <1>2, <1>7, BecomesSteady
<1> QED
  BY <1>8 DEF K

LEMMA StoreStart == Init => StoreInv
<1> SUFFICES ASSUME Init PROVE StoreInv
  OBVIOUS
<1>1. mem = Nothing /\ alive = TRUE /\ errors = 0 /\ disk = [s \in Stores |-> [file |-> <<>>, journal |-> <<>>]]
  BY DEF Init
<1>2. <<>> \in Seq(Items) /\ <<>> \in Seq(Items \cup {Torn}) /\ \A i : ~Contains(<<>>, i)
  BY DEF Contains
<1>3. disk \in DiskRec
  BY <1>1, <1>2 DEF DiskRec
<1>4. Present \in WorldRec /\ Present.mem = Nothing /\ Present.disk = disk /\ Present.alive
  BY <1>1, <1>3, NothingWhole DEF Present, WorldRec
<1>5. Filed(disk)
  BY <1>1, <1>2 DEF Filed
<1>6. Kept(Present, {}, {}, {})
  BY DEF Kept
<1>7. Placed(Nothing, disk, Nil)
  BY NothingWhole DEF Placed
<1>8. Sound(Present, {}, {}, {}, Nil)
  BY <1>4, <1>5, <1>6, <1>7, NothingWhole DEF Sound
<1> QED
  BY <1>8 DEF Init, StoreInv

\* What is saved, and held, is on disk.
LEMMA SavedOnDisk ==
  ASSUME StoreInv, NEW s \in Stores, NEW i \in Saved(s)
  PROVE  /\ i \in Items /\ OnDisk(i) /\ Shelf(disk, i) /\ i \notin mem.uncached /\ StoreOf(i) = s /\ HeldIn(mem, i)
<1>1. /\ Present \in WorldRec /\ Present.mem = mem /\ Present.disk = disk /\ mem \in MemRec /\ disk \in DiskRec
      /\ Whole(mem) /\ Placed(mem, disk, Nil)
  BY DEF StoreInv, Sound, Present, WorldRec
<1>2. i \in Items /\ StoreOf(i) = s /\ HeldIn(mem, i) /\ i \notin mem.uncached /\ mem.saved[i] # "nowhere"
  BY <1>1, HeldIs DEF Saved
<1>3. mem.saved[i] \in Places
  BY <1>1, <1>2 DEF MemRec
<1>4. CASE mem.saved[i] = "cache"
  <2>1. InFile(mem, disk, i)
    BY <1>1, <1>2, <1>4 DEF Placed
  <2>2. Contains(disk[s].file, i)
    BY <1>2, <2>1 DEF InFile, Contains, DiskRec
  <2> QED
    BY <1>2, <2>2 DEF Shelf, OnDisk
<1>5. CASE mem.saved[i] = "journal"
  BY <1>1, <1>2, <1>5 DEF Placed, Shelf, OnDisk
<1> QED
  BY <1>2, <1>3, <1>4, <1>5 DEF Places

LEMMA SavedKept ==
  ASSUME StoreInv, alive
  PROVE  /\ {d \in Saved("desc") : Retained(d)} \in SUBSET RetainedDescs
         /\ Sound(World, {d \in Saved("desc") : Retained(d)}, {}, {}, Nil)
<1> DEFINE K == {d \in Saved("desc") : Retained(d)}
<1>1. "desc" \in Stores
  BY DEF Stores
<1>2. \A d \in K : d \in Descs /\ Shelf(disk, d) /\ mem.byDigest[d] # "none" /\ d \notin mem.uncached
  BY <1>1, SavedOnDisk, StoreOfIs DEF HeldIn
<1>3. K \in SUBSET RetainedDescs
  BY <1>2 DEF RetainedDescs
<1> HIDE DEF K
<1>4. World = Present /\ World.alive /\ World.mem = mem /\ World.disk = disk
  BY WorldPresent
<1>5. Kept(World, K, {}, {})
  BY <1>2, <1>4 DEF Kept
<1>6. Sound(World, K, {}, {}, Nil)
  BY <1>4, <1>5 DEF StoreInv, Sound
<1> QED
  BY <1>3, <1>6 DEF K

\* A step of the program, and what stays on disk.
LEMMA StoreSteps ==
  ASSUME StoreInv, Next
  PROVE  \/ alive /\ Steady({d \in Saved("desc") : Retained(d)}, {})
         \/ Restart /\ Steady({d \in RetainedDescs : Shelf(disk, d)}, RetainedDescs)
         \/ (\E c \in Consensuses : Consensus(c)) \/ Ages \/ Discarded
<1> DEFINE K == {d \in Saved("desc") : Retained(d)}
<1>1. ASSUME alive PROVE K \in SUBSET RetainedDescs /\ Sound(World, K, {}, {}, Nil)
  BY <1>1, SavedKept
<1> HIDE DEF K
<1> DEFINE Goal == alive /\ Steady(K, {})
<1>2. ASSUME NEW d \in Descs, Fetch(d) PROVE Goal
  BY <1>1, <1>2, FetchSteady DEF Fetch
<1>3. ASSUME NEW d \in Descs, NEW cache \in BOOLEAN, Post(d, cache) PROVE Goal
  BY <1>1, <1>3, PostSteady DEF Post
<1>4. ASSUME NEW e \in Extras, FetchExtra(e) PROVE Goal
  BY <1>1, <1>4, FetchExtraSteady DEF FetchExtra
<1>5. ASSUME Hourly PROVE Goal
  BY <1>1, <1>5, HourlySteady DEF Hourly
<1>6. ASSUME Crash PROVE Goal
  BY <1>1, <1>6, CrashSteady DEF Crash
<1>7. Goal \/ Restart \/ (\E c \in Consensuses : Consensus(c)) \/ Ages \/ Discarded
  <2> HIDE DEF Goal
  <2> QED BY <1>2, <1>3, <1>4, <1>5, <1>6, StoreAssumption DEF Next
<1> QED
  BY <1>7, RestartSteady DEF K

LEMMA StoreKept == StoreInv /\ [Next]_vars => StoreInv'
<1> SUFFICES ASSUME StoreInv, [Next]_vars PROVE StoreInv'
  OBVIOUS
<1>1. CASE Next
  <2>1. ASSUME (\E c \in Consensuses : Consensus(c)) \/ Ages \/ Discarded PROVE StoreInv'
    <3>1. /\ listed' \in Consensuses \cup {Nil} /\ cutoff' \in Descs \cup {0}
          /\ UNCHANGED <<caches, alive, errors, mem, disk>>
      BY <2>1 DEF Consensus, Ages, Discarded, StoreInv
    <3> QED
      BY <3>1 DEF StoreInv, Present, Sound, Whole, ListsOK, Named, Filed, Placed, HeldIn, InFile, Shelf, Kept
  <2> QED
    BY <1>1, <2>1, StoreSteps, SteadyInv
<1>2. CASE UNCHANGED vars
  BY <1>2 DEF vars, StoreInv, Present, Sound, Whole, ListsOK, Named, Filed, Placed, HeldIn, InFile, Shelf, Kept
<1> QED BY <1>1, <1>2

LEMMA StoreInvSound == StoreInv => TypeOK /\ MapsSound /\ BodiesRight /\ \A s \in Stores : \A i \in Saved(s) : OnDisk(i)
<1> SUFFICES ASSUME StoreInv PROVE TypeOK /\ MapsSound /\ BodiesRight /\ \A s \in Stores : \A i \in Saved(s) : OnDisk(i)
  OBVIOUS
<1>1. /\ Present \in WorldRec /\ Present.mem = mem /\ Present.disk = disk /\ mem \in MemRec /\ disk \in DiskRec
      /\ Whole(mem) /\ Placed(mem, disk, Nil)
  BY DEF StoreInv, Sound, Present, WorldRec
<1>2. TypeOK
  BY <1>1 DEF StoreInv, TypeOK, MemRec, DiskRec, Places
<1>3. MapsSound
  BY <1>1 DEF StoreInv, MapsSound, Whole, ListsOK, Named
<1>4. BodiesRight
  BY <1>1 DEF BodiesRight, Placed, InFile
<1> QED
  BY <1>2, <1>3, <1>4, SavedOnDisk

\* What a step keeps of the documents on disk.
LEMMA SavedStep ==
  StoreInv /\ [Next]_vars => \A d \in Saved("desc") : Retained(d) => OnDisk(d)'
<1> SUFFICES ASSUME StoreInv, [Next]_vars, NEW d \in Saved("desc"), Retained(d) PROVE OnDisk(d)'
  OBVIOUS
<1>1. OnDisk(d)
  BY SavedOnDisk DEF Stores
<1>2. CASE disk' = disk
  BY <1>1, <1>2 DEF OnDisk
<1>3. CASE Steady({k \in Saved("desc") : Retained(k)}, {})
  BY <1>3 DEF Steady, Sound, Kept, Shelf, OnDisk
<1>4. CASE Restart
  <2>1. mem = Nothing /\ \A i \in Items : Nothing.saved[i] = "nowhere"
    BY <1>4, NothingWhole DEF Restart, StoreInv, Sound, Present
  <2>2. d \in Items
    BY SavedOnDisk DEF Stores
  <2> QED
    BY <2>1, <2>2 DEF Saved
<1> QED
  BY <1>2, <1>3, <1>4, StoreSteps DEF vars, Consensus, Ages, Discarded

LEMMA RestartStep ==
  StoreInv /\ [Next]_vars =>
    (Restart /\ alive' => \A d \in Descs : Retained(d) /\ OnDisk(d) => mem'.routers[Owner[d]] = d)
<1> SUFFICES ASSUME StoreInv, Restart, alive', NEW d \in Descs, Retained(d), OnDisk(d)
             PROVE  mem'.routers[Owner[d]] = d
  OBVIOUS
<1>1. PICK w : /\ Sound(w, {k \in RetainedDescs : Shelf(disk, k)}, RetainedDescs, {}, Nil)
               /\ mem' = w.mem /\ disk' = w.disk /\ alive' = w.alive /\ errors' = w.errors
  BY RestartSteady DEF Steady
<1>2. d \in RetainedDescs /\ Shelf(disk, d)
  BY DEF RetainedDescs, OnDisk, Shelf
<1>3. w.mem.byDigest[d] # "none" /\ w.mem.byDigest[d] # "old"
  BY <1>1, <1>2 DEF Sound, Kept
<1>4. w.mem.byDigest[d] \in {"none", "router", "old"} /\ Whole(w.mem)
  BY <1>1 DEF Sound, WorldRec, MemRec
<1> QED
  BY <1>1, <1>3, <1>4 DEF Whole, ListsOK

-----------------------------------------------------------------------------
(* The vote. *)

LEMMA SameCardinality == \A X : Voting!Cardinality(X) = Cardinality(X)
BY DEF Voting!Cardinality, Cardinality

Sig(a, i, doc) == [who |-> a, i |-> i, doc |-> doc]

-----------------------------------------------------------------------------
(* The inductive invariant. *)

\* What an authority's state can be when V are the votes, and W the
\* signatures, that were posted.
States(V, W) ==
  [i : Nat, done : {"nothing", "voted", "built"}, pending : SUBSET V,
   doc : (SUBSET V) \cup {Nil}, sigs : SUBSET Auths, queue : SUBSET W]

\* The states of the authorities.
AuthOK ==
  /\ auth \in [Auths -> States(votes, signed)]
  /\ restarts \in [Auths -> Nat]

\* The signatures: each names its author, an interval and a set of votes.
SigsOK == signed \subseteq [who : Auths, i : Nat, doc : SUBSET votes]

\* The signatures an authority holds on its pending consensus were posted,
\* and their authors are among the voters.
HeldPosted ==
  \A a \in Auths : \A b \in auth[a].sigs :
    b \in Voting!Voters(auth[a].doc) /\ Sig(b, auth[a].i, auth[a].doc) \in signed

\* An authority that was never restarted has left behind the interval of each
\* of its signatures, or the step of that interval in which it signs.
SignedIsPast ==
  \A s \in signed : restarts[s.who] = 0 =>
    \/ s.i < auth[s.who].i
    \/ s.i = auth[s.who].i /\ auth[s.who].done = "built"

\* ... and signed one consensus of each interval.
SignsOnce ==
  \A s, t \in signed :
    s.who = t.who /\ s.i = t.i /\ restarts[s.who] = 0 => s.doc = t.doc

\* What was published had a majority of the authorities behind it.
MajoritySigned ==
  \A p \in published : \E S \in SUBSET Auths :
    /\ Cardinality(S) >= Cardinality(Auths) \div 2 + 1
    /\ \A b \in S : b \in Voting!Voters(p.doc) /\ Sig(b, p.i, p.doc) \in signed

VoteInv == AuthOK /\ SigsOK /\ HeldPosted /\ SignedIsPast /\ SignsOnce /\ MajoritySigned

LEMMA VoteStart == Voting!Init => VoteInv
BY DEF Voting!Init, Voting!Fresh, VoteInv, AuthOK, States, SigsOK, HeldPosted, SignedIsPast, SignsOnce,
       MajoritySigned

\* A vote changes the pending votes only, and brings in no other than itself.
LEMMA AddedProperties ==
  ASSUME NEW V, NEW W, NEW o \in States(V, W),
         NEW v
  PROVE  /\ Voting!Added(o, v) \in States(V \cup {v}, W)
         /\ v \in V => Voting!Added(o, v) \in States(V, W)
         /\ Voting!Added(o, v).i = o.i /\ Voting!Added(o, v).done = o.done
         /\ Voting!Added(o, v).doc = o.doc /\ Voting!Added(o, v).sigs = o.sigs
BY DEF Voting!Added, States

-----------------------------------------------------------------------------
(* The steps. *)

LEMMA PerformVoteKept ==
  ASSUME VoteInv, NEW a \in Auths, Voting!PerformVote(a)
  PROVE  VoteInv'
<1>. DEFINE v == [who |-> a, i |-> auth[a].i, time |-> restarts[a]]
            o == Voting!Added(auth[a], v)
<1>1. /\ votes' = votes \cup {v} \/ votes' = votes
      /\ \/ auth' = [auth EXCEPT ![a] = [o EXCEPT !.done = "voted"]] /\ votes' = votes \cup {v}
         \/ auth' = [auth EXCEPT ![a] = [auth[a] EXCEPT !.done = "voted"]]
  BY DEF Voting!PerformVote
<1>2. UNCHANGED <<restarts, signed, published>> /\ auth[a].done = "nothing"
  BY DEF Voting!PerformVote
<1>3. auth[a] \in States(votes, signed)
  BY DEF VoteInv, AuthOK
<1>4. /\ o \in States(votes \cup {v}, signed)
      /\ o.i = auth[a].i /\ o.doc = auth[a].doc /\ o.sigs = auth[a].sigs
  <2>1. ASSUME NEW w
        PROVE  /\ Voting!Added(auth[a], w) \in States(votes \cup {w}, signed)
               /\ Voting!Added(auth[a], w).i = auth[a].i /\ Voting!Added(auth[a], w).doc = auth[a].doc
               /\ Voting!Added(auth[a], w).sigs = auth[a].sigs
    <3>1. Voting!Added(auth[a], w) \in States(votes \cup {w}, signed)
      BY <1>3, AddedProperties
    <3>2. /\ Voting!Added(auth[a], w).i = auth[a].i /\ Voting!Added(auth[a], w).doc = auth[a].doc
               /\ Voting!Added(auth[a], w).sigs = auth[a].sigs
      BY <1>3 DEF Voting!Added, States
    <3> QED
      BY <3>1, <3>2
  <2> QED
    BY <2>1
<1>. HIDE DEF o, v
<1>5. PICK u \in States(votes', signed) :
        /\ auth' = [auth EXCEPT ![a] = u]
        /\ u.i = auth[a].i /\ u.doc = auth[a].doc /\ u.sigs = auth[a].sigs
  <2>1. CASE auth' = [auth EXCEPT ![a] = [o EXCEPT !.done = "voted"]] /\ votes' = votes \cup {v}
    <3>1. [o EXCEPT !.done = "voted"] \in States(votes', signed)
      BY <1>4, <2>1 DEF States
    <3>2. /\ [o EXCEPT !.done = "voted"].i = o.i /\ [o EXCEPT !.done = "voted"].doc = o.doc
          /\ [o EXCEPT !.done = "voted"].sigs = o.sigs
      BY <1>4 DEF States
    <3> QED
      BY <1>4, <2>1, <3>1, <3>2
  <2>2. CASE auth' = [auth EXCEPT ![a] = [auth[a] EXCEPT !.done = "voted"]]
    <3>1. [auth[a] EXCEPT !.done = "voted"] \in States(votes', signed)
      BY <1>1, <1>3 DEF States
    <3>2. /\ [auth[a] EXCEPT !.done = "voted"].i = auth[a].i
          /\ [auth[a] EXCEPT !.done = "voted"].doc = auth[a].doc
          /\ [auth[a] EXCEPT !.done = "voted"].sigs = auth[a].sigs
      BY <1>3 DEF States
    <3> QED
      BY <2>2, <3>1, <3>2
  <2> QED
    BY <1>1, <2>1, <2>2
<1>6. /\ \A b \in Auths : auth'[b].i = auth[b].i /\ auth'[b].doc = auth[b].doc
                          /\ auth'[b].sigs = auth[b].sigs
      /\ \A b \in Auths \ {a} : auth'[b] = auth[b]
  BY <1>5 DEF VoteInv, AuthOK
<1>7. AuthOK' /\ SigsOK'
  BY <1>1, <1>2, <1>5 DEF VoteInv, AuthOK, SigsOK, States
<1>8. HeldPosted'
  BY <1>2, <1>6 DEF VoteInv, HeldPosted
<1>9. SignedIsPast'
  BY <1>2, <1>6 DEF VoteInv, SignedIsPast, SigsOK
<1> QED
  BY <1>2, <1>7, <1>8, <1>9 DEF VoteInv, SignsOnce, MajoritySigned

LEMMA ReceiveVoteKept ==
  ASSUME VoteInv, NEW a \in Auths, NEW v \in votes, Voting!ReceiveVote(a, v)
  PROVE  VoteInv'
<1>1. /\ auth' = [auth EXCEPT ![a] = Voting!Added(auth[a], v)]
      /\ UNCHANGED <<restarts, votes, signed, published>>
  BY DEF Voting!ReceiveVote
<1>2. auth[a] \in States(votes, signed)
  BY DEF VoteInv, AuthOK
<1>3. /\ Voting!Added(auth[a], v) \in States(votes, signed)
      /\ Voting!Added(auth[a], v).i = auth[a].i /\ Voting!Added(auth[a], v).doc = auth[a].doc
      /\ Voting!Added(auth[a], v).sigs = auth[a].sigs /\ Voting!Added(auth[a], v).done = auth[a].done
  BY <1>2, AddedProperties
<1>4. \A b \in Auths : /\ auth'[b].i = auth[b].i /\ auth'[b].doc = auth[b].doc
                       /\ auth'[b].sigs = auth[b].sigs /\ auth'[b].done = auth[b].done
  BY <1>1, <1>3 DEF VoteInv, AuthOK
<1>5. AuthOK'
  BY <1>1, <1>3 DEF VoteInv, AuthOK
<1>6. HeldPosted'
  BY <1>1, <1>4 DEF VoteInv, HeldPosted
<1>7. SignedIsPast'
  BY <1>1, <1>4 DEF VoteInv, SignedIsPast, SigsOK
<1> QED
  BY <1>1, <1>5, <1>6, <1>7 DEF VoteInv, SigsOK, SignsOnce, MajoritySigned

\* The only step that signs: the signature is the first of its author in the
\* interval, since the author had not taken the step in which it signs.
LEMMA ComputeConsensusKept ==
  ASSUME VoteInv, NEW a \in Auths, Voting!ComputeConsensus(a)
  PROVE  VoteInv'
<1>. DEFINE o == auth[a]
            able == Cardinality(o.pending) > Cardinality(Auths) \div 2 /\ a \in Voting!Voters(o.pending)
            doc == [o EXCEPT !.doc = o.pending, !.pending = {}]
            s == [who |-> a, i |-> o.i, doc |-> o.pending]
            early == {t \in o.queue : Voting!Accepts(doc, t)}
            built == IF able THEN [doc EXCEPT !.done = "built", !.queue = {},
                                              !.sigs = {a} \cup {t.who : t \in early}]
                     ELSE [o EXCEPT !.done = "built", !.pending = {}]
<1>1. /\ o.done = "voted"
      /\ signed' = IF able THEN signed \cup {s} ELSE signed
      /\ auth' = [auth EXCEPT ![a] = built]
      /\ UNCHANGED <<restarts, votes, published>>
  BY SameCardinality DEF Voting!ComputeConsensus, VoteInv, AuthOK
<1>2. o \in States(votes, signed) /\ SigsOK
  BY DEF VoteInv, AuthOK
<1>3. /\ built \in States(votes, signed) /\ built.done = "built"
      /\ built.i = o.i
      /\ able => /\ built.doc = o.pending
                 /\ built.sigs = {a} \cup {t.who : t \in early}
      /\ ~able => built.doc = o.doc /\ built.sigs = o.sigs
  <2>1. {a} \cup {t.who : t \in early} \subseteq Auths
    BY <1>2 DEF SigsOK, States
  <2>2. CASE able
    <3>. DEFINE sigs == {a} \cup {t.who : t \in early}
    <3>. HIDE DEF sigs, able
    <3>1. built = [doc EXCEPT !.done = "built", !.queue = {}, !.sigs = sigs]
      BY <2>2 DEF sigs
    <3> QED
      BY <1>2, <2>1, <2>2, <3>1 DEF States, sigs
  <2>3. CASE ~able
    <3>. HIDE DEF able
    <3> QED
      BY <1>2, <2>3 DEF States
  <2> QED
    BY <2>2, <2>3
<1>4. \A t \in early : /\ t \in signed /\ t.who \in Voting!Voters(o.pending)
                       /\ t.i = o.i /\ t.doc = o.pending
  BY <1>2 DEF Voting!Accepts, States
<1>5. \A t \in early : t = Sig(t.who, o.i, o.pending)
  BY <1>2, <1>4 DEF SigsOK, Sig
<1>. HIDE DEF o, able, doc, s, early, built
<1>6. /\ auth'[a] = built /\ auth[a] = o
      /\ \A b \in Auths \ {a} : auth'[b] = auth[b]
  BY <1>1 DEF VoteInv, AuthOK, States, o
<1>7. signed \subseteq signed' /\ \A t \in signed' \ signed : able /\ t = s
  BY <1>1
<1>8. AuthOK' /\ SigsOK'
  <2>1. AuthOK'
    BY <1>1, <1>3, <1>7 DEF VoteInv, AuthOK, States
  <2>2. s \in [who : Auths, i : Nat, doc : SUBSET votes]
    BY <1>2 DEF s, States
  <2> QED
    BY <1>1, <1>2, <2>1, <2>2 DEF SigsOK
<1>9. HeldPosted'
  <2>1. ASSUME NEW b \in Auths \ {a} PROVE \A c \in auth'[b].sigs :
          c \in Voting!Voters(auth'[b].doc) /\ Sig(c, auth'[b].i, auth'[b].doc) \in signed'
    BY <1>6, <1>7, <2>1 DEF VoteInv, HeldPosted
  <2>2. ASSUME ~able PROVE \A c \in auth'[a].sigs :
          c \in Voting!Voters(auth'[a].doc) /\ Sig(c, auth'[a].i, auth'[a].doc) \in signed'
    BY <1>3, <1>6, <1>7, <2>2 DEF VoteInv, HeldPosted
  <2>3. ASSUME able, NEW c \in {a} \cup {t.who : t \in early}
        PROVE  c \in Voting!Voters(o.pending) /\ Sig(c, o.i, o.pending) \in signed'
    <3>1. CASE c = a
      BY <1>1, <2>3, <3>1 DEF able, s, Sig
    <3>2. CASE \E t \in early : c = t.who
      BY <1>4, <1>5, <1>7, <3>2
    <3> QED
      BY <2>3, <3>1, <3>2
  <2> QED
    BY <1>3, <1>6, <2>1, <2>2, <2>3 DEF HeldPosted
<1>10. SignedIsPast'
  <2>1. ASSUME NEW t \in signed, restarts[t.who] = 0
        PROVE  \/ t.i < auth'[t.who].i
               \/ t.i = auth'[t.who].i /\ auth'[t.who].done = "built"
    <3>1. /\ t.who \in Auths
          /\ \/ t.i < auth[t.who].i
             \/ t.i = auth[t.who].i /\ auth[t.who].done = "built"
      BY <2>1 DEF VoteInv, SignedIsPast, SigsOK
    <3> QED
      BY <1>3, <1>6, <3>1
  <2>2. s.who = a /\ s.i = auth'[a].i /\ auth'[a].done = "built"
    BY <1>3, <1>6 DEF s
  <2> QED
    BY <1>1, <1>7, <2>1, <2>2 DEF SignedIsPast
<1>11. SignsOnce'
  <2>1. ASSUME NEW t \in signed, t.who = a, t.i = o.i, restarts[a] = 0 PROVE FALSE
    <3>1. o.i \in Nat
      BY <1>2 DEF States
    <3> QED
      BY <1>1, <1>6, <2>1, <3>1 DEF VoteInv, SignedIsPast
  <2>2. s.who = a /\ s.i = o.i
    BY DEF s
  <2>3. ASSUME NEW t \in signed', NEW u \in signed',
               t.who = u.who, t.i = u.i, restarts[t.who] = 0
        PROVE  t.doc = u.doc
    <3>1. CASE t \in signed /\ u \in signed
      BY <2>3, <3>1 DEF VoteInv, SignsOnce
    <3>2. CASE t \notin signed
      BY <1>7, <2>1, <2>2, <2>3, <3>2
    <3>3. CASE u \notin signed
      BY <1>7, <2>1, <2>2, <2>3, <3>3
    <3> QED
      BY <3>1, <3>2, <3>3
  <2> QED
    BY <1>1, <2>3 DEF SignsOnce
<1>12. MajoritySigned'
  BY <1>1, <1>7 DEF VoteInv, MajoritySigned
<1> QED
  BY <1>8, <1>9, <1>10, <1>11, <1>12 DEF VoteInv

LEMMA AddSignatureKept ==
  ASSUME VoteInv, NEW a \in Auths, NEW s \in signed, Voting!AddSignature(a, s)
  PROVE  VoteInv'
<1>. DEFINE o == auth[a]
            added == IF o.doc = Nil THEN [o EXCEPT !.queue = @ \cup {s}]
                     ELSE IF Voting!Accepts(o, s) THEN [o EXCEPT !.sigs = @ \cup {s.who}]
                     ELSE o
<1>1. /\ auth' = [auth EXCEPT ![a] = added]
      /\ UNCHANGED <<restarts, votes, signed, published>>
  BY DEF Voting!AddSignature
<1>2. o \in States(votes, signed) /\ s \in [who : Auths, i : Nat, doc : SUBSET votes]
  BY DEF VoteInv, AuthOK, SigsOK
<1>3. /\ added \in States(votes, signed)
      /\ added.i = o.i /\ added.doc = o.doc /\ added.done = o.done
      /\ \A c \in added.sigs \ o.sigs : c = s.who /\ Voting!Accepts(o, s)
  BY <1>2 DEF States
<1>. HIDE DEF o, added
<1>4. /\ auth'[a] = added /\ auth[a] = o
      /\ \A b \in Auths \ {a} : auth'[b] = auth[b]
  BY <1>1 DEF VoteInv, AuthOK, States, o
<1>5. AuthOK' /\ SigsOK'
  BY <1>1, <1>3 DEF VoteInv, AuthOK, States, SigsOK
<1>6. HeldPosted'
  <2>1. ASSUME NEW c \in added.sigs \ o.sigs
        PROVE  c \in Voting!Voters(o.doc) /\ Sig(c, o.i, o.doc) \in signed
    <3>1. c = s.who /\ s.i = o.i /\ s.doc = o.doc /\ c \in Voting!Voters(o.doc)
      BY <1>3, <2>1 DEF Voting!Accepts
    <3>2. s = Sig(c, o.i, o.doc)
      BY <1>2, <3>1 DEF Sig
    <3> QED
      BY <3>1, <3>2
  <2> QED
    BY <1>1, <1>3, <1>4, <2>1 DEF VoteInv, HeldPosted
<1>7. SignedIsPast'
  BY <1>1, <1>3, <1>4 DEF VoteInv, SignedIsPast, SigsOK
<1> QED
  BY <1>1, <1>5, <1>6, <1>7 DEF VoteInv, SignsOnce, MajoritySigned

LEMMA PublishKept ==
  ASSUME VoteInv, NEW a \in Auths, Voting!Publish(a)
  PROVE  VoteInv'
<1>1. /\ auth' = [auth EXCEPT ![a] = Voting!Fresh(auth[a].i + 1)]
      /\ published' = IF auth[a].doc # Nil /\ Voting!EnoughSignatures(auth[a])
                      THEN published \cup {[i |-> auth[a].i, doc |-> auth[a].doc]}
                      ELSE published
      /\ UNCHANGED <<restarts, votes, signed>>
  BY DEF Voting!Publish
<1>2. /\ auth'[a] = Voting!Fresh(auth[a].i + 1) /\ auth[a].i \in Nat
      /\ \A b \in Auths \ {a} : auth'[b] = auth[b]
  BY <1>1 DEF VoteInv, AuthOK, States
<1>3. AuthOK' /\ SigsOK'
  BY <1>1, <1>2 DEF VoteInv, AuthOK, States, SigsOK, Voting!Fresh
<1>4. HeldPosted'
  BY <1>1, <1>2 DEF VoteInv, HeldPosted, Voting!Fresh
<1>5. SignedIsPast'
  <2>1. ASSUME NEW t \in signed, restarts[t.who] = 0
        PROVE  \/ t.i < auth'[t.who].i
               \/ t.i = auth'[t.who].i /\ auth'[t.who].done = "built"
    <3>1. t.who \in Auths /\ t.i \in Nat /\ t.i <= auth[t.who].i
            /\ (t.i < auth[t.who].i \/ auth[t.who].done = "built")
      BY <2>1 DEF VoteInv, SignedIsPast, SigsOK, AuthOK, States
    <3> QED
      BY <1>2, <2>1, <3>1 DEF VoteInv, SignedIsPast, Voting!Fresh
  <2> QED
    BY <1>1, <2>1 DEF SignedIsPast
<1>6. MajoritySigned'
  <2>1. ASSUME Voting!EnoughSignatures(auth[a])
        PROVE  \E S \in SUBSET Auths :
                 /\ Cardinality(S) >= Cardinality(Auths) \div 2 + 1
                 /\ \A b \in S : b \in Voting!Voters(auth[a].doc)
                                 /\ Sig(b, auth[a].i, auth[a].doc) \in signed
    BY <2>1, SameCardinality DEF VoteInv, AuthOK, States, HeldPosted, Voting!EnoughSignatures
  <2>2. ASSUME NEW p \in published'
        PROVE  \E S \in SUBSET Auths :
                 /\ Cardinality(S) >= Cardinality(Auths) \div 2 + 1
                 /\ \A b \in S : b \in Voting!Voters(p.doc) /\ Sig(b, p.i, p.doc) \in signed
    <3>1. CASE p \in published
      BY <3>1 DEF VoteInv, MajoritySigned
    <3>2. CASE Voting!EnoughSignatures(auth[a]) /\ p = [i |-> auth[a].i, doc |-> auth[a].doc]
      BY <2>1, <3>2
    <3> QED
      BY <1>1, <3>1, <3>2
  <2> QED
    BY <1>1, <2>2 DEF MajoritySigned
<1> QED
  BY <1>1, <1>3, <1>4, <1>5, <1>6 DEF VoteInv, SignsOnce

\* From its restart on nothing is claimed of an authority's signatures.
LEMMA RestartKept ==
  ASSUME VoteInv, NEW a \in Auths, Voting!Restart(a)
  PROVE  VoteInv'
<1>1. /\ restarts' = [restarts EXCEPT ![a] = restarts[a] + 1]
      /\ auth' = [auth EXCEPT ![a] = Voting!Fresh(auth[a].i)]
      /\ UNCHANGED <<votes, signed, published>>
  BY DEF Voting!Restart, VoteInv, AuthOK, States
<1>2. /\ auth'[a] = Voting!Fresh(auth[a].i) /\ restarts'[a] # 0
      /\ \A b \in Auths \ {a} : auth'[b] = auth[b] /\ restarts'[b] = restarts[b]
  BY <1>1 DEF VoteInv, AuthOK, States
<1>3. AuthOK' /\ SigsOK'
  BY <1>1 DEF VoteInv, AuthOK, States, SigsOK, Voting!Fresh
<1>4. HeldPosted'
  BY <1>1, <1>2 DEF VoteInv, HeldPosted, Voting!Fresh
<1>5. SignedIsPast' /\ SignsOnce'
  BY <1>1, <1>2 DEF VoteInv, SigsOK, SignedIsPast, SignsOnce
<1> QED
  BY <1>1, <1>3, <1>4, <1>5 DEF VoteInv, MajoritySigned

LEMMA VoteKept == VoteInv /\ [Voting!Next]_(Voting!vars) => VoteInv'
<1> SUFFICES ASSUME VoteInv, [Voting!Next]_(Voting!vars) PROVE VoteInv'
  OBVIOUS
<1>1. ASSUME NEW a \in Auths, Voting!PerformVote(a) PROVE VoteInv'
  BY <1>1, PerformVoteKept
<1>2. ASSUME NEW a \in Auths, Voting!ComputeConsensus(a) PROVE VoteInv'
  BY <1>2, ComputeConsensusKept
<1>3. ASSUME NEW a \in Auths, Voting!Publish(a) PROVE VoteInv'
  BY <1>3, PublishKept
<1>4. ASSUME NEW a \in Auths, Voting!Restart(a) PROVE VoteInv'
  BY <1>4, RestartKept
<1>5. ASSUME NEW a \in Auths, NEW v \in votes, Voting!ReceiveVote(a, v) PROVE VoteInv'
  BY <1>5, ReceiveVoteKept
<1>6. ASSUME NEW a \in Auths, NEW s \in signed, Voting!AddSignature(a, s) PROVE VoteInv'
  BY <1>6, AddSignatureKept
<1>7. CASE UNCHANGED Voting!vars
  BY <1>7 DEF Voting!vars, VoteInv, AuthOK, States, SigsOK, HeldPosted, SignedIsPast, SignsOnce, MajoritySigned
<1> QED
  BY <1>1, <1>2, <1>3, <1>4, <1>5, <1>6, <1>7 DEF Voting!Next

-----------------------------------------------------------------------------
(* What follows. *)

\* Two majorities of a finite set have a member in common.
LEMMA CommonSigner ==
  ASSUME IsFiniteSet(Auths), NEW S \in SUBSET Auths, NEW T \in SUBSET Auths,
         Cardinality(S) >= Cardinality(Auths) \div 2 + 1,
         Cardinality(T) >= Cardinality(Auths) \div 2 + 1
  PROVE  S \cap T # {}
<1>1. /\ Cardinality(Auths) \in Nat /\ Cardinality(S) \in Nat /\ Cardinality(T) \in Nat
  BY FS_CardinalityType, FS_Subset
<1>2. Cardinality(S) + Cardinality(T) > Cardinality(Auths)
  BY <1>1
<1> QED
  BY <1>2, FS_MajoritiesIntersect

LEMMA VoteInvOne ==
  ASSUME IsFiniteSet(Auths), VoteInv
  PROVE  Voting!OneConsensus
<1> SUFFICES ASSUME NEW p \in published, NEW q \in published, p.i = q.i, p.doc # q.doc
             PROVE  \E a \in Voting!Voters(p.doc) \cap Voting!Voters(q.doc) :
                      /\ restarts[a] > 0
                      /\ {[who |-> a, i |-> p.i, doc |-> x.doc] : x \in {p, q}} \subseteq signed
  BY DEF Voting!OneConsensus
<1>1. PICK S \in SUBSET Auths :
        /\ Cardinality(S) >= Cardinality(Auths) \div 2 + 1
        /\ \A b \in S : b \in Voting!Voters(p.doc) /\ Sig(b, p.i, p.doc) \in signed
  BY DEF VoteInv, MajoritySigned
<1>2. PICK T \in SUBSET Auths :
        /\ Cardinality(T) >= Cardinality(Auths) \div 2 + 1
        /\ \A b \in T : b \in Voting!Voters(q.doc) /\ Sig(b, q.i, q.doc) \in signed
  BY DEF VoteInv, MajoritySigned
<1>3. PICK a \in S : a \in T
  BY <1>1, <1>2, CommonSigner
<1>4. /\ a \in Voting!Voters(p.doc) \cap Voting!Voters(q.doc)
      /\ Sig(a, p.i, p.doc) \in signed /\ Sig(a, p.i, q.doc) \in signed
  BY <1>1, <1>2, <1>3
<1>5. restarts[a] > 0
  <2>1. restarts[a] \in Nat
    BY <1>3 DEF VoteInv, AuthOK, States
  <2>2. restarts[a] # 0
    BY <1>4 DEF VoteInv, SignsOnce, Sig
  <2> QED
    BY <2>1, <2>2
<1>6. {[who |-> a, i |-> p.i, doc |-> x.doc] : x \in {p, q}} \subseteq signed
  BY <1>4 DEF Sig
<1> QED
  BY <1>4, <1>5, <1>6

-----------------------------------------------------------------------------
(* The theorems. *)

\* Each part takes its own steps only.
LEMMA SideSteps ==
  /\ SideInit => Init /\ Voting!Init
  /\ [Store \/ Vote]_<<side, vars, voteVars>> => [Next]_vars /\ [Voting!Next]_(Voting!vars)
BY DEF SideInit, Store, Vote, vars, voteVars, Voting!vars

\* Whatever comes from directories, controllers and files, and whatever
\* operation fails or the program dies after: routerlist_assert_ok holds, and
\* a document that is said to be in the store file is there, at its offset.
THEOREM AlwaysStoreSound == SideSpec => []StoreSound
<1>1. StoreInv => StoreSound
  BY StoreInvSound DEF StoreSound
<1> QED
  BY <1>1, SideSteps, StoreStart, StoreKept, PTL DEF SideSpec

\* What was saved and is still held is on disk.  While the consensus is valid,
\* or the descriptor is not older than OLD_ROUTER_DESC_MAX_AGE, what it lists
\* is on disk after every step, also one the program dies in, and a restart
\* (router_reload_router_list) finds what it lists of what is on disk.
THEOREM NeverLost == SideSpec => NothingLost
<1>1. StoreInv => \A s \in Stores : \A i \in Saved(s) : OnDisk(i)
  BY StoreInvSound
<1>2. StoreInv /\ [Next]_vars => [\A d \in Saved("desc") : Retained(d) => OnDisk(d)']_vars
  BY SavedStep
<1>3. StoreInv /\ [Next]_vars =>
        [Restart /\ alive' => \A d \in Descs : Retained(d) /\ OnDisk(d) => mem'.routers[Owner[d]] = d]_vars
  BY RestartStep
<1> QED
  BY <1>1, <1>2, <1>3, SideSteps, StoreStart, StoreKept, PTL DEF SideSpec, NothingLost, SavedStays, ComesBack

\* Authorities that are never restarted publish one consensus of an interval;
\* where two are published, a majority signed each, and whoever signed both
\* was restarted (dirvote_publish_consensus, networkstatus_check_consensus_signature).
THEOREM ConsensusUnique == ASSUME IsFiniteSet(Auths) PROVE SideSpec => []OneConsensus
<1>1. VoteInv => OneConsensus
  BY VoteInvOne DEF OneConsensus
<1> QED
  BY <1>1, SideSteps, VoteStart, VoteKept, PTL DEF SideSpec
=============================================================================
