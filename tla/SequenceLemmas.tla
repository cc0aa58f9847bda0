--------------------------- MODULE SequenceLemmas ---------------------------
(***************************************************************************)
(* Facts about lists on which each element is at most once: the pointer    *)
(* lists of the program, seen as sequences.  And induction over numbers    *)
(* and over finite sets, without operators as parameters: what is to hold  *)
(* of each number or subset is a set of numbers or subsets, and a loop     *)
(* over a finite set is a function on its subsets.                         *)
(***************************************************************************)
EXTENDS Integers, Sequences, SequencesExt, SequenceTheorems, FiniteSetTheorems, FunctionTheorems, WellFoundedInduction, TLAPS

\* The indices and the members of a sequence.
LEMMA ToSetProperties ==
  ASSUME NEW S, NEW q \in Seq(S)
  PROVE  /\ DOMAIN q = 1 .. Len(q) /\ Len(q) \in Nat
         /\ ToSet(q) \subseteq S
         /\ \A x : x \in ToSet(q) <=> \E i \in 1 .. Len(q) : q[i] = x
         /\ ToSet(q) = {} <=> q = <<>>
         /\ IsInjective(q) <=> \A i, j \in 1 .. Len(q) : q[i] = q[j] => i = j
<1>1. DOMAIN q = 1 .. Len(q) /\ Len(q) \in Nat
  BY LenProperties
<1>2. \A i \in 1 .. Len(q) : q[i] \in S
  BY ElementOfSeq
<1>3. ToSet(q) \subseteq S /\ \A x : x \in ToSet(q) <=> \E i \in 1 .. Len(q) : q[i] = x
  BY <1>1, <1>2 DEF ToSet
<1>4. IsInjective(q) <=> \A i, j \in 1 .. Len(q) : q[i] = q[j] => i = j
  BY <1>1 DEF IsInjective
<1>5. ToSet(q) = {} <=> q = <<>>
  BY <1>1, <1>3, EmptySeq
<1> QED
  BY <1>1, <1>3, <1>4, <1>5

\* The empty list.
LEMMA EmptyList == ToSet(<<>>) = {} /\ IsInjective(<<>>)
BY DEF ToSet, IsInjective

\* The first of a list.
LEMMA HeadMember ==
  ASSUME NEW S, NEW q \in Seq(S), q # <<>>
  PROVE  Head(q) \in S /\ Head(q) \in ToSet(q)
<1>1. Len(q) \in Nat \ {0}
  BY EmptySeq
<1>2. Head(q) = q[1] /\ 1 \in 1 .. Len(q)
  BY <1>1
<1> QED
  BY <1>2, ToSetProperties, ElementOfSeq

\* smartlist_add, or a tail insertion.
LEMMA AppendMember ==
  ASSUME NEW S, NEW q \in Seq(S), NEW x \in S
  PROVE  /\ Append(q, x) \in Seq(S)
         /\ ToSet(Append(q, x)) = ToSet(q) \cup {x}
         /\ IsInjective(q) /\ x \notin ToSet(q) => IsInjective(Append(q, x))
<1>. DEFINE a == Append(q, x)
            n == Len(q)
<1>1. /\ a \in Seq(S) /\ Len(a) = n + 1
      /\ \A i \in 1 .. n : a[i] = q[i]
      /\ a[n + 1] = x
  BY AppendProperties
<1>2. n \in Nat /\ \A y : y \in ToSet(q) <=> \E i \in 1 .. n : q[i] = y
  BY ToSetProperties
<1>3. \A y : y \in ToSet(a) <=> \E i \in 1 .. n + 1 : a[i] = y
  BY <1>1, ToSetProperties
<1>4. 1 .. n + 1 = (1 .. n) \cup {n + 1}
  BY <1>2
<1>. HIDE DEF a, n
<1>5. ToSet(a) = ToSet(q) \cup {x}
  BY <1>1, <1>2, <1>3, <1>4
<1>6. ASSUME IsInjective(q), x \notin ToSet(q) PROVE IsInjective(a)
  <2>1. \A i, j \in 1 .. n : q[i] = q[j] => i = j
    BY <1>6, ToSetProperties DEF n
  <2>2. \A i \in 1 .. n : q[i] # x
    BY <1>2, <1>6
  <2>3. \A i, j \in 1 .. n + 1 : a[i] = a[j] => i = j
    BY <1>1, <1>4, <2>1, <2>2
  <2> QED
    BY <1>1, <2>3, ToSetProperties
<1> QED
  BY <1>1, <1>5, <1>6 DEF a

\* What is left of a list when its first m elements are taken off.
LEMMA SuffixMembers ==
  ASSUME NEW S, NEW q \in Seq(S), IsInjective(q), NEW m \in 0 .. Len(q)
  PROVE  /\ SubSeq(q, m + 1, Len(q)) \in Seq(S)
         /\ IsInjective(SubSeq(q, m + 1, Len(q)))
         /\ ToSet(SubSeq(q, m + 1, Len(q))) = ToSet(q) \ ToSet(SubSeq(q, 1, m))
         /\ ToSet(SubSeq(q, 1, m)) \subseteq ToSet(q)
         /\ SubSeq(q, 1, m) \in Seq(S)
         /\ m = 0 => ToSet(SubSeq(q, 1, m)) = {}
         /\ m < Len(q) => q[Len(q)] \notin ToSet(SubSeq(q, 1, m))
<1>. DEFINE n == Len(q)
            r == SubSeq(q, m + 1, n)
            p == SubSeq(q, 1, m)
<1>1. n \in Nat /\ m \in Nat /\ m <= n /\ \A i \in 1 .. n : q[i] \in S
  BY ToSetProperties, ElementOfSeq
<1>2. \A i, j \in 1 .. n : q[i] = q[j] => i = j
  BY ToSetProperties
<1>3. /\ r \in Seq(S)
      /\ Len(r) = IF m + 1 <= n THEN n - (m + 1) + 1 ELSE 0
      /\ \A i \in 1 .. n - (m + 1) + 1 : r[i] = q[(m + 1) + i - 1]
  <2>1. m + 1 \in Int /\ n \in Int /\ \A i \in m + 1 .. n : q[i] \in S
    BY <1>1
  <2> HIDE DEF n
  <2> QED
    BY <2>1, SubSeqProperties
<1>4. /\ p \in Seq(S)
      /\ Len(p) = IF 1 <= m THEN m - 1 + 1 ELSE 0
      /\ \A i \in 1 .. m - 1 + 1 : p[i] = q[1 + i - 1]
  <2>1. 1 \in Int /\ m \in Int /\ \A i \in 1 .. m : q[i] \in S
    BY <1>1
  <2> QED
    BY <2>1, SubSeqProperties
<1>5. \A x : x \in ToSet(q) <=> \E i \in 1 .. n : q[i] = x
  BY ToSetProperties
<1>. HIDE DEF n, r, p
<1>6. /\ \A x : x \in ToSet(r) <=> \E i \in 1 .. Len(r) : r[i] = x
      /\ \A x : x \in ToSet(p) <=> \E i \in 1 .. Len(p) : p[i] = x
  <2>1. \A x : x \in ToSet(r) <=> \E i \in 1 .. Len(r) : r[i] = x
    BY <1>3, ToSetProperties
  <2>2. \A x : x \in ToSet(p) <=> \E i \in 1 .. Len(p) : p[i] = x
    BY <1>4, ToSetProperties
  <2> QED
    BY <2>1, <2>2
<1>7. Len(r) = n - m /\ \A i \in 1 .. n - m : r[i] = q[m + i]
  <2>1. Len(r) = n - m
    BY <1>1, <1>3
  <2>2. ASSUME NEW i \in 1 .. n - m PROVE r[i] = q[m + i]
    <3>1. i \in 1 .. n - (m + 1) + 1 /\ (m + 1) + i - 1 = m + i
      BY <1>1
    <3> QED
      BY <1>3, <3>1
  <2> QED
    BY <2>1, <2>2
<1>8. Len(p) = m /\ \A i \in 1 .. m : p[i] = q[i]
  <2>1. Len(p) = m
    BY <1>1, <1>4
  <2>2. ASSUME NEW i \in 1 .. m PROVE p[i] = q[i]
    <3>1. i \in 1 .. m - 1 + 1 /\ 1 + i - 1 = i
      BY <1>1
    <3> QED
      BY <1>4, <3>1
  <2> QED
    BY <2>1, <2>2
<1>9. \A x : x \in ToSet(r) <=> \E j \in m + 1 .. n : q[j] = x
  <2>1. ASSUME NEW i \in 1 .. n - m PROVE m + i \in m + 1 .. n
    BY <1>1
  <2>2. ASSUME NEW j \in m + 1 .. n PROVE j - m \in 1 .. n - m /\ m + (j - m) = j
    BY <1>1
  <2> QED
    BY <1>6, <1>7, <2>1, <2>2
<1>10. IsInjective(r)
  <2>1. ASSUME NEW i \in 1 .. n - m, NEW j \in 1 .. n - m, r[i] = r[j] PROVE i = j
    <3>1. m + i \in 1 .. n /\ m + j \in 1 .. n
      BY <1>1
    <3>2. m + i = m + j
      BY <1>2, <1>7, <2>1, <3>1
    <3> QED
      BY <1>1, <3>2
  <2> QED
    BY <1>3, <1>7, <2>1, ToSetProperties
<1>11. \A x : x \in ToSet(p) <=> \E i \in 1 .. m : q[i] = x
  BY <1>6, <1>8
<1>12. ToSet(p) \subseteq ToSet(q) /\ ToSet(r) = ToSet(q) \ ToSet(p)
  <2>1. 1 .. n = (1 .. m) \cup (m + 1 .. n) /\ (1 .. m) \cap (m + 1 .. n) = {}
    BY <1>1
  <2> QED
    BY <1>2, <1>5, <1>9, <1>11, <2>1
<1>13. m < n => q[n] \notin ToSet(p)
  BY <1>1, <1>2, <1>11
<1>14. m = 0 => ToSet(p) = {}
  BY <1>11
<1> QED
  BY <1>3, <1>4, <1>10, <1>12, <1>13, <1>14 DEF n, r, p

\* The search for an element and its removal.
LEMMA RemoveFirstMembers ==
  ASSUME NEW S, NEW q \in Seq(S), IsInjective(q), NEW x
  PROVE  /\ RemoveFirst(q, x) \in Seq(S)
         /\ IsInjective(RemoveFirst(q, x))
         /\ ToSet(RemoveFirst(q, x)) = ToSet(q) \ {x}
<1>1. CASE x \notin ToSet(q)
  <2>1. RemoveFirst(q, x) = q
    BY <1>1, ToSetProperties DEF RemoveFirst
  <2> QED
    BY <1>1, <2>1
<1>2. CASE x \in ToSet(q)
  <2>. DEFINE n == Len(q)
              I == {i \in 1 .. n : q[i] = x}
              k == Min(I)
              s == SubSeq(q, 1, k - 1)
              t == SubSeq(q, k + 1, n)
  <2>1. /\ n \in Nat /\ \A i \in 1 .. n : q[i] \in S
        /\ \A i, j \in 1 .. n : q[i] = q[j] => i = j
        /\ \A y : y \in ToSet(q) <=> \E i \in 1 .. n : q[i] = y
    BY ToSetProperties, ElementOfSeq
  <2>2. PICK l \in 1 .. n : q[l] = x
    BY <1>2, <2>1
  <2>3. I = {l}
    BY <2>1, <2>2
  <2>4. k = l
    BY <2>3 DEF Min
  <2>5. RemoveFirst(q, x) = s \o t
    BY <2>2 DEF RemoveFirst, SelectInSeq, RemoveAt
  <2>. HIDE DEF I, k, n
  <2>6. l \in Nat /\ 1 <= l /\ l <= n /\ k = l
    BY <2>1, <2>2, <2>4
  <2>7. /\ s \in Seq(S) /\ Len(s) = l - 1
        /\ \A i \in 1 .. l - 1 : s[i] = q[i]
    <3>1. 1 \in Int /\ k - 1 \in Int /\ \A i \in 1 .. k - 1 : q[i] \in S
      BY <2>1, <2>6
    <3>2. /\ s \in Seq(S) /\ Len(s) = IF 1 <= k - 1 THEN (k - 1) - 1 + 1 ELSE 0
          /\ \A i \in 1 .. (k - 1) - 1 + 1 : s[i] = q[1 + i - 1]
      BY <3>1, SubSeqProperties
    <3>3. (k - 1) - 1 + 1 = l - 1 /\ \A i \in 1 .. l - 1 : 1 + i - 1 = i
      BY <2>6
    <3>. HIDE DEF s
    <3>4. Len(s) = l - 1
      BY <2>6, <3>2
    <3>5. ASSUME NEW i \in 1 .. l - 1 PROVE s[i] = q[i]
      <4>1. i \in 1 .. (k - 1) - 1 + 1 /\ 1 + i - 1 = i
        BY <3>3
      <4> QED
        BY <3>2, <4>1
    <3> QED
      BY <3>2, <3>4, <3>5
  <2>8. /\ t \in Seq(S) /\ Len(t) = n - l
        /\ \A i \in 1 .. n - l : t[i] = q[l + i]
    <3>1. k + 1 \in Int /\ n \in Int /\ \A i \in k + 1 .. n : q[i] \in S
      BY <2>1, <2>6
    <3>2. /\ t \in Seq(S) /\ Len(t) = IF k + 1 <= n THEN n - (k + 1) + 1 ELSE 0
          /\ \A i \in 1 .. n - (k + 1) + 1 : t[i] = q[(k + 1) + i - 1]
      BY <3>1, SubSeqProperties
    <3>. HIDE DEF t
    <3>3. Len(t) = n - l
      BY <2>1, <2>6, <3>2
    <3>4. ASSUME NEW i \in 1 .. n - l PROVE t[i] = q[l + i]
      <4>1. i \in 1 .. n - (k + 1) + 1 /\ (k + 1) + i - 1 = l + i
        BY <2>1, <2>6
      <4> QED
        BY <3>2, <4>1
    <3> QED
      BY <3>2, <3>3, <3>4
  <2>. DEFINE u == s \o t
  <2>9. /\ u \in Seq(S) /\ Len(u) = Len(s) + Len(t)
        /\ \A i \in 1 .. Len(s) + Len(t) : u[i] = IF i <= Len(s) THEN s[i] ELSE t[i - Len(s)]
    <3>. HIDE DEF s, t
    <3> QED
      BY <2>7, <2>8, ConcatProperties
  <2>. HIDE DEF s, t, u
  <2>10. \A y : y \in ToSet(u) <=> \E i \in 1 .. Len(u) : u[i] = y
    BY <2>9, ToSetProperties
  <2>11. IsInjective(u) <=> \A i, j \in 1 .. Len(u) : u[i] = u[j] => i = j
    BY <2>9, ToSetProperties
  <2>12. /\ Len(u) = n - 1
         /\ \A i \in 1 .. n - 1 : u[i] = IF i < l THEN q[i] ELSE q[i + 1]
    <3>1. Len(u) = n - 1
      BY <2>1, <2>6, <2>7, <2>8, <2>9
    <3>2. ASSUME NEW i \in 1 .. n - 1, i < l PROVE u[i] = q[i]
      <4>1. i \in 1 .. l - 1 /\ i \in 1 .. Len(s) + Len(t) /\ i <= Len(s)
        BY <2>1, <2>6, <2>7, <2>8, <3>2
      <4> QED
        BY <2>7, <2>9, <4>1
    <3>3. ASSUME NEW i \in 1 .. n - 1, ~(i < l) PROVE u[i] = q[i + 1]
      <4>1. /\ i \in 1 .. Len(s) + Len(t) /\ ~(i <= Len(s))
            /\ i - Len(s) \in 1 .. n - l /\ l + (i - Len(s)) = i + 1
        BY <2>1, <2>6, <2>7, <2>8, <3>3
      <4>2. u[i] = t[i - Len(s)]
        BY <2>9, <4>1
      <4>3. t[i - Len(s)] = q[l + (i - Len(s))]
        BY <2>8, <4>1
      <4> QED
        BY <4>1, <4>2, <4>3
    <3> QED
      BY <3>1, <3>2, <3>3
  <2>13. ToSet(u) = ToSet(q) \ {x}
    <3>1. ASSUME NEW i \in 1 .. n - 1 PROVE u[i] \in ToSet(q) \ {x}
      <4>1. i \in 1 .. n /\ i + 1 \in 1 .. n /\ (i < l => i # l) /\ (~(i < l) => i + 1 # l)
        BY <2>1, <2>6
      <4> QED
        BY <2>1, <2>2, <2>12, <4>1
    <3>2. ASSUME NEW j \in 1 .. n, q[j] # x PROVE \E i \in 1 .. n - 1 : u[i] = q[j]
      <4>1. CASE j < l
        <5>1. j \in 1 .. n - 1
          BY <2>1, <2>6, <4>1
        <5> QED
          BY <2>12, <4>1, <5>1
      <4>2. CASE j > l
        <5>1. j - 1 \in 1 .. n - 1 /\ ~(j - 1 < l) /\ (j - 1) + 1 = j
          BY <2>1, <2>6, <4>2
        <5> QED
          BY <2>12, <5>1
      <4> QED
        BY <2>1, <2>2, <2>6, <3>2, <4>1, <4>2
    <3> QED
      BY <2>1, <2>10, <2>12, <3>1, <3>2
  <2>14. IsInjective(u)
    <3>1. ASSUME NEW i \in 1 .. n - 1, NEW j \in 1 .. n - 1, u[i] = u[j] PROVE i = j
      <4>1. i \in 1 .. n /\ j \in 1 .. n /\ i + 1 \in 1 .. n /\ j + 1 \in 1 .. n
        BY <2>1
      <4> QED
        BY <2>1, <2>6, <2>12, <3>1, <4>1
    <3> QED
      BY <2>11, <2>12, <3>1
  <2> QED
    BY <2>5, <2>9, <2>13, <2>14 DEF u
<1> QED
  BY <1>1, <1>2

\* smartlist_pop_last.
LEMMA PopLastMembers ==
  ASSUME NEW S, NEW q \in Seq(S), q # <<>>, IsInjective(q)
  PROVE  /\ Last(q) \in S /\ Last(q) \in ToSet(q)
         /\ Front(q) \in Seq(S) /\ IsInjective(Front(q))
         /\ ToSet(Front(q)) = ToSet(q) \ {Last(q)}
<1>. DEFINE n == Len(q)
            f == Front(q)
<1>1. n \in Nat \ {0} /\ (\A i \in 1 .. n : q[i] \in S) /\ Last(q) = q[n]
  BY EmptySeq, LenProperties, ElementOfSeq DEF Last
<1>2. f = SubSeq(q, 1, n - 1)
  BY DEF Front
<1>3. /\ \A x : x \in ToSet(q) <=> \E i \in 1 .. n : q[i] = x
      /\ \A i, j \in 1 .. n : q[i] = q[j] => i = j
  BY ToSetProperties
<1>. HIDE DEF n, f
<1>4. f \in Seq(S) /\ Len(f) = n - 1 /\ \A i \in 1 .. n - 1 : f[i] = q[i]
  <2>1. 1 \in Int /\ n - 1 \in Int /\ \A i \in 1 .. n - 1 : q[i] \in S
    BY <1>1
  <2>2. /\ SubSeq(q, 1, n - 1) \in Seq(S)
        /\ Len(SubSeq(q, 1, n - 1)) = IF 1 <= n - 1 THEN (n - 1) - 1 + 1 ELSE 0
        /\ \A i \in 1 .. (n - 1) - 1 + 1 : SubSeq(q, 1, n - 1)[i] = q[1 + i - 1]
    BY <2>1, SubSeqProperties
  <2>3. n \in Int /\ n >= 1
    BY <1>1
  <2>4. /\ (IF 1 <= n - 1 THEN (n - 1) - 1 + 1 ELSE 0) = n - 1
        /\ (n - 1) - 1 + 1 = n - 1 /\ \A i \in 1 .. n - 1 : 1 + i - 1 = i
    BY <2>3
  <2> QED
    BY <1>2, <2>2, <2>4
<1>5. /\ \A x : x \in ToSet(f) <=> \E i \in 1 .. n - 1 : f[i] = x
      /\ IsInjective(f) <=> \A i, j \in 1 .. n - 1 : f[i] = f[j] => i = j
  BY <1>4, ToSetProperties
<1>6. 1 .. n = (1 .. n - 1) \cup {n} /\ n \notin 1 .. n - 1
  BY <1>1
<1>7. IsInjective(f)
  BY <1>3, <1>4, <1>5, <1>6
<1>8. ToSet(f) = ToSet(q) \ {q[n]}
  <2>1. ASSUME NEW x \in ToSet(f) PROVE x \in ToSet(q) \ {q[n]}
    BY <1>3, <1>4, <1>5, <1>6, <2>1
  <2>2. ASSUME NEW x \in ToSet(q), x # q[n] PROVE x \in ToSet(f)
    BY <1>3, <1>4, <1>5, <1>6, <2>2
  <2> QED
    BY <2>1, <2>2
<1> QED
  BY <1>1, <1>3, <1>4, <1>6, <1>7, <1>8 DEF f

\* Two lists without common members, one after the other.
LEMMA ConcatMembers ==
  ASSUME NEW S, NEW p \in Seq(S), NEW q \in Seq(S)
  PROVE  /\ p \o q \in Seq(S)
         /\ ToSet(p \o q) = ToSet(p) \cup ToSet(q)
         /\ IsInjective(p) /\ IsInjective(q) /\ ToSet(p) \cap ToSet(q) = {}
              => IsInjective(p \o q)
<1>. DEFINE u == p \o q
            m == Len(p)
            n == Len(q)
<1>1. /\ u \in Seq(S) /\ Len(u) = m + n /\ m \in Nat /\ n \in Nat
      /\ \A i \in 1 .. m + n : u[i] = IF i <= m THEN p[i] ELSE q[i - m]
  BY ConcatProperties, LenProperties
<1>2. /\ \A x : x \in ToSet(p) <=> \E i \in 1 .. m : p[i] = x
      /\ \A x : x \in ToSet(q) <=> \E i \in 1 .. n : q[i] = x
      /\ IsInjective(p) <=> \A i, j \in 1 .. m : p[i] = p[j] => i = j
      /\ IsInjective(q) <=> \A i, j \in 1 .. n : q[i] = q[j] => i = j
  BY ToSetProperties
<1>. HIDE DEF u, m, n
<1>3. /\ \A x : x \in ToSet(u) <=> \E i \in 1 .. m + n : u[i] = x
      /\ IsInjective(u) <=> \A i, j \in 1 .. m + n : u[i] = u[j] => i = j
  BY <1>1, ToSetProperties
<1>4. \A i \in 1 .. m : i \in 1 .. m + n /\ u[i] = p[i]
  BY <1>1
<1>5. \A i \in 1 .. n : m + i \in 1 .. m + n /\ u[m + i] = q[i]
  <2>1. ASSUME NEW i \in 1 .. n PROVE m + i \in 1 .. m + n /\ ~(m + i <= m) /\ (m + i) - m = i
    BY <1>1
  <2> QED
    BY <1>1, <2>1
<1>6. \A i \in 1 .. m + n : \/ i \in 1 .. m /\ u[i] = p[i]
                            \/ i - m \in 1 .. n /\ ~(i <= m) /\ u[i] = q[i - m]
  BY <1>1
<1>7. ToSet(u) = ToSet(p) \cup ToSet(q)
  <2>1. ASSUME NEW x \in ToSet(u) PROVE x \in ToSet(p) \cup ToSet(q)
    BY <1>2, <1>3, <1>6
  <2>2. ASSUME NEW x \in ToSet(p) PROVE x \in ToSet(u)
    BY <1>2, <1>3, <1>4
  <2>3. ASSUME NEW x \in ToSet(q) PROVE x \in ToSet(u)
    BY <1>2, <1>3, <1>5
  <2> QED
    BY <2>1, <2>2, <2>3
<1>8. ASSUME IsInjective(p), IsInjective(q), ToSet(p) \cap ToSet(q) = {},
             NEW i \in 1 .. m + n, NEW j \in 1 .. m + n, u[i] = u[j]
      PROVE  i = j
  <2>1. CASE i \in 1 .. m /\ u[i] = p[i] /\ j \in 1 .. m /\ u[j] = p[j]
    BY <1>2, <1>8, <2>1
  <2>2. CASE i - m \in 1 .. n /\ u[i] = q[i - m] /\ j - m \in 1 .. n /\ u[j] = q[j - m]
    <3>1. i - m = j - m
      BY <1>2, <1>8, <2>2
    <3> QED
      BY <1>1, <3>1
  <2>3. CASE i \in 1 .. m /\ u[i] = p[i] /\ j - m \in 1 .. n /\ u[j] = q[j - m]
    BY <1>2, <1>8, <2>3
  <2>4. CASE i - m \in 1 .. n /\ u[i] = q[i - m] /\ j \in 1 .. m /\ u[j] = p[j]
    BY <1>2, <1>8, <2>4
  <2> QED
    BY <1>6, <2>1, <2>2, <2>3, <2>4
<1> QED
  BY <1>1, <1>3, <1>7, <1>8 DEF u

\* ... of any list.
LEMMA PopAnyMembers ==
  ASSUME NEW S, NEW q \in Seq(S), q # <<>>
  PROVE  /\ Last(q) \in S /\ Last(q) \in ToSet(q)
         /\ Front(q) \in Seq(S) /\ ToSet(Front(q)) \subseteq ToSet(q)
<1>. DEFINE n == Len(q)
<1>1. n \in Nat \ {0} /\ (\A i \in 1 .. n : q[i] \in S) /\ Last(q) = q[n]
  BY EmptySeq, LenProperties, ElementOfSeq DEF Last
<1>2. \A x : x \in ToSet(q) <=> \E i \in 1 .. n : q[i] = x
  BY ToSetProperties
<1>3. Front(q) = SubSeq(q, 1, n - 1)
  BY DEF Front
<1>. HIDE DEF n
<1>4. 1 \in Int /\ n - 1 \in Int /\ n \in 1 .. n /\ \A i \in 1 .. n - 1 : i \in 1 .. n
  BY <1>1
<1>5. \A i \in 1 .. n - 1 : q[i] \in ToSet(q)
  BY <1>2, <1>4
<1>6. SubSeq(q, 1, n - 1) \in Seq(S) /\ SubSeq(q, 1, n - 1) \in Seq(ToSet(q))
  BY <1>1, <1>4, <1>5, SubSeqProperties
<1>7. ToSet(SubSeq(q, 1, n - 1)) \subseteq ToSet(q)
  BY <1>6, ToSetProperties
<1> QED
  BY <1>1, <1>2, <1>3, <1>4, <1>6, <1>7

\* A list on which each element is once is as long as it has members.
LEMMA InjectiveLength ==
  ASSUME NEW S, NEW q \in Seq(S), IsInjective(q)
  PROVE  IsFiniteSet(ToSet(q)) /\ Cardinality(ToSet(q)) = Len(q)
<1>. DEFINE n == Len(q)
            T == ToSet(q)
<1>1. /\ n \in Nat /\ DOMAIN q = 1 .. n
      /\ \A x : x \in T <=> \E i \in 1 .. n : q[i] = x
      /\ \A i, j \in 1 .. n : q[i] = q[j] => i = j
  BY ToSetProperties
<1>2. q = [i \in 1 .. n |-> q[i]]
  BY LenProperties, SeqDef
<1>. HIDE DEF n, T
<1>3. q \in [1 .. n -> T]
  BY <1>1, <1>2
<1>4. \A t \in T : \E i \in 1 .. n : q[i] = t
  BY <1>1
<1>5. q \in Bijection(1 .. n, T)
  BY <1>1, <1>3, <1>4, Fun_IsBij
<1>6. ExistsBijection(1 .. n, T)
  BY <1>5, Fun_ExistsBij
<1>7. Cardinality(T) = n
  BY <1>1, <1>6, FS_CountingElements
<1>8. IsFiniteSet(T)
  BY <1>1, <1>6, FS_NatBijection
<1> QED
  BY <1>7, <1>8 DEF n, T
-----------------------------------------------------------------------------
(* Induction. *)

\* A set of numbers has a least.
LEMMA LeastOf ==
  ASSUME NEW T \in SUBSET Nat, T # {}
  PROVE  \E n \in T : \A m \in T : n <= m
<1>1. IsWellFoundedOn(OpToRel(<, Nat), Nat)
  BY NatLessThanWellFounded
<1>2. PICK n \in T : \A m \in T : ~ (<<m, n>> \in OpToRel(<, Nat))
  BY <1>1, WFMin
<1>3. \A m \in T : ~ (m < n)
  BY <1>2 DEF OpToRel
<1> QED BY <1>3

\* Induction over the natural numbers.
LEMMA SetInduction ==
  ASSUME NEW S, 0 \in S, \A n \in Nat : n \in S => n + 1 \in S
  PROVE  Nat \subseteq S
<1> DEFINE T == Nat \ S
<1>1. SUFFICES ASSUME T # {} PROVE FALSE
  OBVIOUS
<1>2. PICK n \in T : \A m \in T : n <= m
  BY <1>1, LeastOf
<1>3. n # 0 /\ n - 1 \in Nat
  OBVIOUS
<1>4. n - 1 \in T
  <2>1. n - 1 \in S => (n - 1) + 1 \in S
    BY <1>3
  <2> QED BY <2>1, <1>3
<1> QED BY <1>4, <1>2, <1>3

\* g computes on d, which holds the predecessors of its elements.
Computes(g, d, S, B, pre, X, base, D) ==
  /\ d \in SUBSET S /\ g \in [d -> X]
  /\ \A x \in d : IF x \in B THEN g[x] = base[x]
                  ELSE pre[x] \in d /\ g[x] = D[<<x, g[pre[x]]>>]

\* A recursion along a well-founded relation defines a function.
LEMMA RecursionExists ==
  ASSUME NEW S, NEW R, IsWellFoundedOn(R, S), NEW B \in SUBSET S, NEW pre,
         \A x \in S \ B : pre[x] \in S /\ <<pre[x], x>> \in R,
         NEW X, NEW base \in [S -> X], NEW D \in [S \X X -> X]
  PROVE  \E f : Computes(f, S, S, B, pre, X, base, D)
<1> DEFINE C(g, d) == Computes(g, d, S, B, pre, X, base, D)
<1>1. ASSUME NEW g, NEW d, NEW h, NEW e, C(g, d), C(h, e), NEW x \in d \cap e
      PROVE  g[x] = h[x]
  <2> DEFINE T == {y \in d \cap e : g[y] # h[y]}
  <2>1. SUFFICES ASSUME T # {} PROVE FALSE
    OBVIOUS
  <2>2. T \subseteq S
    BY <1>1 DEF Computes
  <2>3. PICK y \in T : \A z \in T : ~ (<<z, y>> \in R)
    BY <2>1, <2>2, WFMin
  <2>4. CASE y \in B
    BY <2>4, <1>1 DEF Computes
  <2>5. CASE y \notin B
    <3>1. pre[y] \in d \cap e /\ <<pre[y], y>> \in R
      BY <2>2, <2>5, <1>1 DEF Computes
    <3>2. g[pre[y]] = h[pre[y]]
      BY <3>1, <2>3
    <3>3. g[y] = D[<<y, g[pre[y]]>>] /\ h[y] = D[<<y, h[pre[y]]>>]
      BY <1>1, <2>5 DEF Computes
    <3> QED
      BY <3>2, <3>3
  <2> QED
    BY <2>4, <2>5
<1>2. ASSUME NEW x \in S PROVE \E g, d : C(g, d) /\ x \in d
  <2> DEFINE T == {y \in S : ~ \E g, d : C(g, d) /\ y \in d}
  <2>1. SUFFICES ASSUME T # {} PROVE FALSE
    OBVIOUS
  <2>3. PICK y \in T : \A z \in T : ~ (<<z, y>> \in R)
    BY <2>1, WFMin
  <2>4. CASE y \in B
    <3>1. C([z \in {y} |-> base[y]], {y})
      BY <2>4 DEF Computes
    <3> QED
      BY <3>1
  <2>5. CASE y \notin B
    <3>1. pre[y] \in S /\ pre[y] \notin T
      BY <2>3, <2>5
    <3>2. PICK g, d : C(g, d) /\ pre[y] \in d
      BY <3>1
    <3> DEFINE e == d \cup {y}
               h == [z \in e |-> IF z = y THEN D[<<y, g[pre[y]]>>] ELSE g[z]]
    <3>3. y \notin d
      BY <3>2
    <3>4. pre[y] # y /\ pre[y] \in e
      BY <3>2, <3>3
    <3>5. D[<<y, g[pre[y]]>>] \in X
      <4>1. g[pre[y]] \in X
        BY <3>2 DEF Computes
      <4> QED
        BY <4>1
    <3>6. h \in [e -> X] /\ e \in SUBSET S
      BY <3>2, <3>5 DEF Computes
    <3>7. ASSUME NEW z \in e
          PROVE  IF z \in B THEN h[z] = base[z] ELSE pre[z] \in e /\ h[z] = D[<<z, h[pre[z]]>>]
      <4>1. CASE z = y
        BY <4>1, <2>5, <3>4
      <4>2. CASE z # y
        <5>1. z \in d /\ h[z] = g[z]
          BY <4>2
        <5>2. IF z \in B THEN g[z] = base[z] ELSE pre[z] \in d /\ g[z] = D[<<z, g[pre[z]]>>]
          BY <5>1, <3>2 DEF Computes
        <5>3. z \notin B => h[pre[z]] = g[pre[z]]
          BY <5>2, <3>3
        <5> QED
          BY <5>1, <5>2, <5>3
      <4> QED
        BY <4>1, <4>2
    <3>8. C(h, e)
      BY <3>6, <3>7 DEF Computes
    <3> QED
      BY <3>8
  <2> QED
    BY <2>4, <2>5
<1> DEFINE f == [x \in S |-> LET p == CHOOSE p : C(p[1], p[2]) /\ x \in p[2] IN p[1][x]]
<1>3. ASSUME NEW x \in S, NEW g, NEW d, C(g, d), x \in d PROVE f[x] = g[x]
  <2> DEFINE p == CHOOSE p : C(p[1], p[2]) /\ x \in p[2]
  <2>1. C(<<g, d>>[1], <<g, d>>[2]) /\ x \in <<g, d>>[2]
    BY <1>3
  <2>2. C(p[1], p[2]) /\ x \in p[2]
    BY <2>1
  <2> HIDE DEF p
  <2>3. p[1][x] = g[x]
    BY <2>2, <1>1, <1>3
  <2> QED
    BY <2>3 DEF p
<1> HIDE DEF f
<1>4. ASSUME NEW x \in S
      PROVE  /\ f[x] \in X
             /\ IF x \in B THEN f[x] = base[x] ELSE pre[x] \in S /\ f[x] = D[<<x, f[pre[x]]>>]
  <2>1. PICK g, d : C(g, d) /\ x \in d
    BY <1>2
  <2>2. f[x] = g[x] /\ d \subseteq S
    BY <2>1, <1>3 DEF Computes
  <2>3. x \notin B => f[pre[x]] = g[pre[x]] /\ pre[x] \in d
    <3>1. x \notin B => pre[x] \in d
      BY <2>1 DEF Computes
    <3> QED
      BY <3>1, <2>1, <2>2, <1>3
  <2> QED
    BY <2>1, <2>2, <2>3 DEF Computes
<1>5. f \in [S -> X]
  BY <1>4 DEF f
<1> QED
  BY <1>4, <1>5 DEF Computes

\* Induction over the subsets of a finite set.
LEMMA SubsetInduction ==
  ASSUME NEW S, IsFiniteSet(S), NEW P, {} \in P,
         \A T \in SUBSET S : T # {} /\ (\A x \in T : T \ {x} \in P) => T \in P
  PROVE  S \in P
<1> DEFINE Bad == (SUBSET S) \ P
<1>1. SUFFICES ASSUME Bad # {} PROVE FALSE
  OBVIOUS
<1>2. IsWellFoundedOn(StrictSubsetOrdering(S), SUBSET S)
  BY FS_StrictSubsetOrderingWellFounded, FS_FiniteSubsetsOfFinite
<1>3. PICK T \in Bad : \A U \in Bad : ~ (<<U, T>> \in StrictSubsetOrdering(S))
  BY <1>1, <1>2, WFMin
<1>4. ASSUME NEW x \in T PROVE T \ {x} \in P
  <2>1. T \ {x} \in SUBSET S /\ T \in SUBSET S /\ T \ {x} # T
    OBVIOUS
  <2>2. <<T \ {x}, T>> \in StrictSubsetOrdering(S)
    BY <2>1 DEF StrictSubsetOrdering
  <2> QED
    BY <1>3, <2>1, <2>2
<1> QED
  BY <1>4

\* f folds the subsets of S.
Folds(f, S, X, b, pick, D) ==
  /\ f \in [SUBSET S -> X]
  /\ \A T \in SUBSET S : f[T] = IF T = {} THEN b ELSE D[<<pick[T], f[T \ {pick[T]}]>>]

\* A loop over a finite set, which takes one element after another, has a result.
LEMMA FoldExists ==
  ASSUME NEW S, IsFiniteSet(S), NEW X, NEW b \in X,
         NEW pick, \A T \in SUBSET S : T # {} => pick[T] \in T, NEW D \in [S \X X -> X]
  PROVE  \E f : Folds(f, S, X, b, pick, D)
<1> DEFINE R == StrictSubsetOrdering(S)
           pre == [T \in SUBSET S |-> T \ {pick[T]}]
           E == [p \in (SUBSET S) \X X |-> IF p[1] = {} THEN b ELSE D[<<pick[p[1]], p[2]>>]]
           base == [T \in SUBSET S |-> b]
<1>1. IsWellFoundedOn(R, SUBSET S)
  BY FS_StrictSubsetOrderingWellFounded, FS_FiniteSubsetsOfFinite
<1>2. \A T \in (SUBSET S) \ {{}} : pre[T] \in SUBSET S /\ <<pre[T], T>> \in R
  BY DEF StrictSubsetOrdering
<1>3. E \in [(SUBSET S) \X X -> X]
  OBVIOUS
<1>4. base \in [SUBSET S -> X] /\ {{}} \in SUBSET (SUBSET S)
  OBVIOUS
<1> HIDE DEF R, base
<1>5. PICK f : Computes(f, SUBSET S, SUBSET S, {{}}, pre, X, base, E)
  <2> HIDE DEF pre, E
  <2> QED
    BY <1>1, <1>2, <1>3, <1>4, RecursionExists
<1>6. f \in [SUBSET S -> X]
  BY <1>5 DEF Computes
<1>7. ASSUME NEW T \in SUBSET S
      PROVE  f[T] = IF T = {} THEN b ELSE D[<<pick[T], f[T \ {pick[T]}]>>]
  <2>1. CASE T = {}
    BY <2>1, <1>5 DEF Computes, base
  <2>2. CASE T # {}
    <3>1. f[T] = E[<<T, f[pre[T]]>>] /\ f[pre[T]] \in X
      BY <2>2, <1>5, <1>6, <1>2 DEF Computes
    <3> QED
      BY <3>1, <2>2
  <2> QED
    BY <2>1, <2>2
<1> QED
  BY <1>6, <1>7 DEF Folds
\* The sum over a finite set, in whichever order it is taken.
Sums(g, D, M) ==
  /\ g \in [SUBSET D -> Nat] /\ g[{}] = 0
  /\ \A T \in SUBSET D : \A y \in T : g[T] = M[y] + g[T \ {y}]
  /\ \A T \in SUBSET D : SumFunctionOnSet(M, T) = g[T]

LEMMA SumOfSet ==
  ASSUME NEW D, IsFiniteSet(D), NEW M \in [D -> Nat]
  PROVE  \E g : Sums(g, D, M)
<1> DEFINE pick == [T \in SUBSET D |-> CHOOSE x \in T : TRUE]
           P == [p \in D \X Nat |-> M[p[1]] + p[2]]
<1>1. P \in [D \X Nat -> Nat] /\ \A x \in D, n \in Nat : P[<<x, n>>] = M[x] + n
  OBVIOUS
<1>2. \A T \in SUBSET D : T # {} => pick[T] \in T
  OBVIOUS
<1>3. \A T \in SUBSET D : pick[T] = CHOOSE x \in T : TRUE
  OBVIOUS
<1> HIDE DEF pick, P
<1>4. PICK g : Folds(g, D, Nat, 0, pick, P)
  BY <1>1, <1>2, FoldExists
<1>5. g \in [SUBSET D -> Nat] /\ g[{}] = 0
      /\ \A T \in SUBSET D : T # {} => g[T] = M[pick[T]] + g[T \ {pick[T]}]
  BY <1>1, <1>2, <1>4 DEF Folds
<1>6. \A T \in SUBSET D : \A y \in T : g[T] = M[y] + g[T \ {y}]
  <2> SUFFICES ASSUME NEW T \in SUBSET D
               PROVE  \A y \in T : g[T] = M[y] + g[T \ {y}]
    OBVIOUS
  <2> DEFINE Q == {U \in SUBSET T : \A y \in U : g[U] = M[y] + g[U \ {y}]}
  <2>1. {} \in Q
    OBVIOUS
  <2>2. ASSUME NEW U \in SUBSET T, U # {}, \A x \in U : U \ {x} \in Q
        PROVE  U \in Q
    <3> SUFFICES ASSUME NEW y \in U PROVE g[U] = M[y] + g[U \ {y}]
      OBVIOUS
    <3> DEFINE c == pick[U]
    <3>1. c \in U /\ g[U] = M[c] + g[U \ {c}]
      BY <1>2, <1>5, <2>2
    <3> HIDE DEF c
    <3>2. CASE y = c
      BY <3>1, <3>2
    <3>3. CASE y # c
      <4>1. g[U \ {c}] = M[y] + g[(U \ {c}) \ {y}]
        BY <3>1, <3>3, <2>2
      <4>2. g[U \ {y}] = M[c] + g[(U \ {y}) \ {c}]
        BY <3>1, <3>3, <2>2
      <4>3. (U \ {c}) \ {y} = (U \ {y}) \ {c}
        OBVIOUS
      <4>4. M[y] \in Nat /\ M[c] \in Nat /\ g[(U \ {c}) \ {y}] \in Nat
        BY <3>1, <1>5
      <4> HIDE DEF Q
      <4> QED
        BY <3>1, <4>1, <4>2, <4>3, <4>4
    <3> QED
      BY <3>2, <3>3
  <2>3. IsFiniteSet(T)
    BY FS_Subset
  <2>4. T \in Q
    <3> HIDE DEF Q
    <3> QED
      BY <2>1, <2>2, <2>3, SubsetInduction
  <2> QED
    BY <2>4
<1>7. ASSUME NEW T \in SUBSET D PROVE SumFunctionOnSet(M, T) = g[T]
  <2> DEFINE pk(U) == CHOOSE x \in U : TRUE
             def(f) == f = [U \in SUBSET T |-> IF U = {} THEN 0 ELSE M[pk(U)] + f[U \ {pk(U)}]]
             gT == [U \in SUBSET T |-> g[U]]
             it == CHOOSE f : def(f)
  <2>1. SumFunctionOnSet(M, T) = it[T]
    BY DEF SumFunctionOnSet, FoldFunctionOnSet, MapThenFoldSet
  <2>2. def(gT)
    <3>1. ASSUME NEW U \in SUBSET T
          PROVE  gT[U] = IF U = {} THEN 0 ELSE M[pk(U)] + gT[U \ {pk(U)}]
      BY <1>3, <1>5
    <3> QED
      BY <3>1
  <2>3. def(it)
    <3> HIDE DEF def, gT
    <3> QED
      BY <2>2
  <2> DEFINE Q == {U \in SUBSET T : it[U] = g[U]}
  <2>4. ASSUME NEW U \in SUBSET T
        PROVE  it[U] = IF U = {} THEN 0 ELSE M[pk(U)] + it[U \ {pk(U)}]
    <3> HIDE DEF it
    <3> QED
      BY <2>3
  <2> HIDE DEF it
  <2>5. {} \in Q
    BY <2>4, <1>5
  <2>6. ASSUME NEW U \in SUBSET T, U # {}, \A x \in U : U \ {x} \in Q
        PROVE  U \in Q
    <3>1. pk(U) = pick[U] /\ pk(U) \in U
      BY <1>2, <1>3, <2>6
    <3>2. it[U] = M[pk(U)] + it[U \ {pk(U)}] /\ g[U] = M[pick[U]] + g[U \ {pick[U]}]
      BY <2>4, <2>6, <1>5
    <3> HIDE DEF pk
    <3>3. it[U \ {pk(U)}] = g[U \ {pk(U)}]
      BY <2>6, <3>1
    <3> QED
      BY <3>1, <3>2, <3>3
  <2>7. IsFiniteSet(T)
    BY FS_Subset
  <2>8. T \in Q
    <3> HIDE DEF Q
    <3> QED
      BY <2>5, <2>6, <2>7, SubsetInduction
  <2> QED
    BY <2>1, <2>8
<1> QED
  BY <1>5, <1>6, <1>7 DEF Sums

\* What a function gives of a finite set is finite.
LEMMA FiniteImage ==
  ASSUME NEW S, IsFiniteSet(S), NEW X, NEW f \in [S -> X]
  PROVE  IsFiniteSet({f[x] : x \in S})
<1>. DEFINE T == {f[x] : x \in S}
<1>1. f \in Surjection(S, T)
  BY DEF Surjection
<1> QED
  BY <1>1, FS_Surjection
=============================================================================
