-------------------------- MODULE Transfer_proofs --------------------------
(***************************************************************************)
(* For all constants that the assumptions allow.  The window of relay.c is *)
(* conserved, honest ends never kill it, no SENDME overfills it, and it    *)
(* never wedges.  A relay keeps the quota of its accounting intervals.     *)
(***************************************************************************)
EXTENDS MCTransfer, SequenceLemmas

-----------------------------------------------------------------------------
\* The numbers among the constants.
LEMMA ConstantBounds ==
  /\ Increment \in Nat /\ Increment >= 1
  /\ Initial \in Nat /\ Start \in Nat /\ Limit \in Nat
  /\ Increment <= Initial /\ Initial <= Start /\ Initial <= Limit
BY WindowAssumption

\* The products that occur below, for Z3: one factor is a constant it does
\* not know, so each fact is stated once and cited.
LEMMA ProductFacts ==
  ASSUME NEW c \in Nat, NEW m \in Nat, NEW n \in Nat
  PROVE  /\ c * m \in Nat
         /\ c * (m + n) = c * m + c * n
         /\ m * c = c * m
         /\ m >= 1 => c * (m - 1) = c * m - c
         /\ m >= 1 => c * m >= c
<1>1. c * m \in Nat /\ c * (m + n) = c * m + c * n /\ m * c = c * m
  BY SMT
<1>2. ASSUME m >= 1 PROVE c * (m - 1) = c * m - c /\ c * m >= c
  <2>1. m - 1 \in Nat
    BY <1>2
  <2>2. c * ((m - 1) + 1) = c * (m - 1) + c * 1
    BY <2>1, SMT
  <2>3. c * (m - 1) \in Nat
    BY <2>1, SMT
  <2> QED
    BY <1>2, <2>1, <2>2, <2>3, SMT
<1> QED
  BY <1>1, <1>2

\* The loop of the two consider_sending_sendme functions leaves the window
\* above Start - Increment and never above Start.
LEMMA TopUpBounds ==
  ASSUME NEW window \in Nat, window <= Start,
         NEW m \in 0 .. Start, Rounds(window, m)
  PROVE  /\ window + Increment * m \in Nat
         /\ window + Increment * m > Start - Increment
         /\ window + Increment * m <= Start
<1> USE ConstantBounds
<1>1. m \in Nat /\ Increment \in Nat
  OBVIOUS
<1>2. Increment * m \in Nat /\ m * Increment = Increment * m
  BY <1>1, ProductFacts
<1>3. window + Increment * m > Start - Increment
  BY <1>2 DEF Rounds
<1>4. CASE m = 0
  BY <1>2, <1>3, <1>4, Increment * 0 = 0
<1>5. CASE m > 0
  <2>1. m - 1 \in Nat /\ m >= 1
    BY <1>5
  <2>2. Increment * (m - 1) = Increment * m - Increment
    BY <1>1, <2>1, ProductFacts
  <2>3. (m - 1) * Increment = Increment * (m - 1)
    BY <1>1, <2>1, ProductFacts
  <2>4. window + (m - 1) * Increment <= Start - Increment
    BY <1>5 DEF Rounds
  <2> QED
    BY <1>1, <1>2, <1>3, <2>2, <2>3, <2>4
<1> QED
  BY <1>1, <1>4, <1>5
-----------------------------------------------------------------------------
\* The inductive invariant: conservation needs the deliverer's window to stay
\* within Start, and wedge-freedom needs that an eager deliverer never leaves
\* a top-up undone.
WindowBounds ==
  life = "open" =>
    /\ deliver <= Start
    /\ Eager => deliver > Start - Increment

IInv == TypeOK /\ Conservation /\ NeverKilled /\ WindowBounds

LEMMA InitIInv == Init => IInv
<1> USE ConstantBounds
<1>1. Increment * 0 = 0
  OBVIOUS
<1> QED
  BY <1>1 DEF Init, IInv, TypeOK, Conservation, NeverKilled, WindowBounds

\* What the conserved quantity says of the packager's side.
LEMMA PackagerBounds ==
  ASSUME IInv, life = "open"
  PROVE  /\ Increment * sendmes \in Nat
         /\ sendmes > 0 => Increment * sendmes >= Increment
         /\ package + data + Increment * sendmes <= Initial
<1> USE ConstantBounds
<1>1. Increment \in Nat /\ sendmes \in Nat
  BY DEF IInv, TypeOK
<1>2. Increment * sendmes \in Nat
  BY <1>1, ProductFacts
<1>3. sendmes > 0 => Increment * sendmes >= Increment
  BY <1>1, ProductFacts
<1> QED
  BY <1>1, <1>2, <1>3 DEF IInv, TypeOK, Conservation, WindowBounds

LEMMA PackageIInv ==
  ASSUME IInv, NEW k \in 1 .. package, Package(k)
  PROVE  IInv'
<1> USE ConstantBounds
<1>1. life = "open" /\ life' = "open"
  BY DEF Package
<1>2. Increment * sendmes \in Nat
  BY <1>1, PackagerBounds
<1>3. TypeOK'
  BY <1>1 DEF Package, IInv, TypeOK
<1>4. Conservation'
  BY <1>1, <1>2 DEF Package, IInv, TypeOK, Conservation
<1>5. NeverKilled' /\ WindowBounds'
  BY <1>1 DEF Package, IInv, NeverKilled, WindowBounds
<1> QED
  BY <1>3, <1>4, <1>5 DEF IInv

\* A top-up from any window within bounds moves Increment * m units from
\* nowhere to the SENDMEs in flight and to the deliverer alike.
LEMMA TopUpFromBalance ==
  ASSUME NEW window \in Nat, window <= Start, sendmes \in Nat, TopUpFrom(window)
  PROVE  /\ deliver' \in Nat /\ sendmes' \in Nat
         /\ deliver' <= Start /\ deliver' > Start - Increment
         /\ deliver' - Increment * sendmes' = window - Increment * sendmes
<1> USE ConstantBounds
<1>1. PICK m \in 0 .. Start : /\ Rounds(window, m)
                              /\ deliver' = window + m * Increment
                              /\ sendmes' = sendmes + m
  BY DEF TopUpFrom
<1>2. m \in Nat /\ Increment \in Nat
  OBVIOUS
<1>3. /\ Increment * m \in Nat /\ Increment * sendmes \in Nat
      /\ m * Increment = Increment * m
      /\ Increment * (sendmes + m) = Increment * sendmes + Increment * m
  BY <1>2, ProductFacts
<1>4. /\ window + Increment * m \in Nat
      /\ window + Increment * m > Start - Increment
      /\ window + Increment * m <= Start
  BY <1>1, TopUpBounds
<1> QED
  BY <1>1, <1>2, <1>3, <1>4

LEMMA DeliverIInv ==
  ASSUME IInv, Deliver
  PROVE  IInv'
<1> USE ConstantBounds
<1>1. life = "open" /\ data > 0
  BY DEF Deliver
<1>2. /\ Increment * sendmes \in Nat
      /\ package \in Nat /\ deliver \in Nat /\ data \in Nat /\ sendmes \in Nat
  BY <1>1, PackagerBounds DEF IInv, TypeOK
<1>3. deliver - Increment * sendmes = package + data + (Start - Initial)
  BY <1>1 DEF IInv, Conservation
<1>4. deliver - 1 \in Nat /\ deliver - 1 <= Start
  BY <1>1, <1>2, <1>3 DEF IInv, WindowBounds
<1>5. /\ data' = data - 1 /\ package' = package /\ life' = life
      /\ \/ TopUpFrom(deliver - 1)
         \/ ~Eager /\ deliver' = deliver - 1 /\ sendmes' = sendmes
  BY <1>2, <1>4 DEF Deliver
<1>6. CASE TopUpFrom(deliver - 1)
  <2>1. /\ deliver' \in Nat /\ sendmes' \in Nat
        /\ deliver' <= Start /\ deliver' > Start - Increment
        /\ deliver' - Increment * sendmes' = (deliver - 1) - Increment * sendmes
    BY <1>2, <1>4, <1>6, TopUpFromBalance
  <2>2. Increment * sendmes' \in Nat
    BY <2>1, ProductFacts
  <2>3. TypeOK' /\ NeverKilled'
    BY <1>1, <1>2, <1>5, <2>1 DEF IInv, TypeOK, NeverKilled
  <2>4. deliver' - Increment * sendmes' = package' + data' + (Start - Initial)
    <3>1. (deliver - 1) - Increment * sendmes = (deliver - Increment * sendmes) - 1
      BY <1>2
    <3>2. (package + data + (Start - Initial)) - 1
            = package + (data - 1) + (Start - Initial)
      BY <1>2
    <3> QED
      BY <1>3, <1>5, <2>1, <3>1, <3>2
  <2>5. Conservation'
    BY <2>4 DEF Conservation
  <2>6. WindowBounds'
    BY <2>1 DEF WindowBounds
  <2> QED
    BY <2>3, <2>5, <2>6 DEF IInv
<1>7. CASE ~Eager /\ deliver' = deliver - 1 /\ sendmes' = sendmes
  BY <1>1, <1>2, <1>3, <1>4, <1>5, <1>7
  DEF IInv, TypeOK, Conservation, NeverKilled, WindowBounds
<1> QED
  BY <1>5, <1>6, <1>7

LEMMA TopUpIInv ==
  ASSUME IInv, TopUp
  PROVE  IInv'
<1> USE ConstantBounds
<1>1. /\ life = "open" /\ package' = package /\ data' = data /\ life' = life
      /\ TopUpFrom(deliver)
  BY DEF TopUp
<1>2. /\ Increment * sendmes \in Nat
      /\ package \in Nat /\ deliver \in Nat /\ data \in Nat /\ sendmes \in Nat
      /\ deliver <= Start
  BY <1>1, PackagerBounds DEF IInv, TypeOK, WindowBounds
<1>3. /\ deliver' \in Nat /\ sendmes' \in Nat
      /\ deliver' <= Start /\ deliver' > Start - Increment
      /\ deliver' - Increment * sendmes' = deliver - Increment * sendmes
  BY <1>1, <1>2, TopUpFromBalance
<1>4. Increment * sendmes' \in Nat
  BY <1>3, ProductFacts
<1>5. TypeOK' /\ NeverKilled'
  BY <1>1, <1>2, <1>3 DEF IInv, TypeOK, NeverKilled
<1>6. deliver - Increment * sendmes = package + data + (Start - Initial)
  BY <1>1 DEF IInv, Conservation
<1>7. deliver' - Increment * sendmes' = package' + data' + (Start - Initial)
  BY <1>1, <1>3, <1>6
<1>8. Conservation'
  BY <1>7 DEF Conservation
<1>9. WindowBounds'
  BY <1>3 DEF WindowBounds
<1> QED
  BY <1>5, <1>8, <1>9 DEF IInv

LEMMA ReceiveSendmeIInv ==
  ASSUME IInv, NEW k \in 0 .. package + Increment, ReceiveSendme(k)
  PROVE  IInv'
<1> USE ConstantBounds
<1>1. life = "open" /\ sendmes > 0
  BY DEF ReceiveSendme
<1>2. /\ Increment * sendmes \in Nat
      /\ package \in Nat /\ deliver \in Nat /\ data \in Nat /\ sendmes \in Nat
      /\ package + Increment <= Initial
  BY <1>1, PackagerBounds DEF IInv, TypeOK
<1>3. /\ k \in Nat
      /\ package' = package + Increment - k /\ data' = data + k
      /\ sendmes' = sendmes - 1 /\ deliver' = deliver /\ life' = life
      /\ package' \in Nat
  BY <1>1, <1>2 DEF ReceiveSendme
<1>4. Increment * (sendmes - 1) = Increment * sendmes - Increment
  BY <1>1, <1>2, ProductFacts
<1> QED
  BY <1>1, <1>2, <1>3, <1>4
  DEF IInv, TypeOK, Conservation, NeverKilled, WindowBounds

\* IInv is inductive.
LEMMA NextIInv == IInv /\ [Next]_vars => IInv'
<1> SUFFICES ASSUME IInv, [Next]_vars PROVE IInv'
  OBVIOUS
<1>1. CASE \E k \in 1 .. package : Package(k)
  BY <1>1, PackageIInv
<1>2. CASE Deliver
  BY <1>2, DeliverIInv
<1>3. CASE TopUp
  BY <1>3, TopUpIInv
<1>4. CASE \E k \in 0 .. package + Increment : ReceiveSendme(k)
  BY <1>4, ReceiveSendmeIInv
<1>5. CASE End
  BY <1>5 DEF End, Close, IInv, TypeOK, Conservation, NeverKilled, WindowBounds
<1>6. CASE UNCHANGED vars
  BY <1>6 DEF vars, IInv, TypeOK, Conservation, NeverKilled, WindowBounds
<1> QED
  BY <1>1, <1>2, <1>3, <1>4, <1>5, <1>6 DEF Next
-----------------------------------------------------------------------------
\* The inductive invariant holds in every reachable state.
THEOREM Inductive == Spec => []IInv
BY InitIInv, NextIInv, PTL DEF Spec

\* Both windows and both counts of cells in flight are natural numbers in
\* every reachable state: assert_circuit_ok's "deliver_window >= 0".
THEOREM TypeCorrect == Spec => []TypeOK
<1>1. IInv => TypeOK
  BY DEF IInv
<1> QED
  BY <1>1, Inductive, PTL

\* No unit of window is lost or made up between the two ends.
THEOREM WindowConserved == Spec => []Conservation
<1>1. IInv => Conservation
  BY DEF IInv
<1> QED
  BY <1>1, Inductive, PTL

\* Two ends that run this code never reach the branches of relay.c that tear
\* the circuit down for a window violation.
THEOREM HonestNeverKilled == Spec => []NeverKilled
<1>1. IInv => NeverKilled
  BY DEF IInv
<1> QED
  BY <1>1, Inductive, PTL

\* The unchecked addition of the stream SENDME handler is safe.
THEOREM NoOverfill == Spec => []NeverOverfilled
<1>1. IInv => NeverOverfilled
  BY PackagerBounds, ConstantBounds DEF IInv, TypeOK, NeverOverfilled
<1> QED
  BY <1>1, Inductive, PTL

\* An empty pipe always leaves the packager something to send.
THEOREM NoWedge == Spec => []NeverWedged
<1>1. IInv => NeverWedged
  <2> USE ConstantBounds
  <2>1. Increment * 0 = 0
    OBVIOUS
  <2> QED
    BY <2>1 DEF IInv, TypeOK, Conservation, WindowBounds, NeverWedged
<1> QED
  BY <1>1, Inductive, PTL
-----------------------------------------------------------------------------
(* Hibernation: the quota of an accounting interval.                        *)

LEMMA QuotaConstants ==
  /\ Hard \in Nat /\ Hard >= 2 /\ SoftBytes \in Nat /\ SoftMinutes \in Nat
  /\ Length \in Nat \ {0} /\ PerSecond \in Nat /\ ShutdownWait \in Nat
BY QuotaAssumption DEF H!HibernationAssumption
LEMMA QuotaData ==
  Expectations \subseteq Nat /\ Months \in Seq(Nat) /\ (\A m \in DOMAIN Months : Months[m] >= 3)
BY QuotaAssumption DEF H!HibernationAssumption

\* What is known of the state in memory at t.
Modes == {"initial", "live", "lowbandwidth", "dormant", "exiting"}
HRec == [mode : Modes, on : BOOLEAN, until : Int, start : Int,
         end : Int, wake : Int, used : Nat, expected : Nat, stop : Int]
FileRec == [start : Int, used : Nat, expected : Nat]

\* s is a start of a period, not after t.
StartsAt(s, t) == s \in Nat /\ H!PeriodStart(s) = s /\ s <= t

StateOK(s, t) ==
  /\ s \in HRec
  /\ s.start = H!Never => /\ s.mode \in {"initial", "live", "exiting"}
                        /\ s.used = 0 /\ s.wake = 0
  /\ s.start # H!Never => /\ StartsAt(s.start, t)
                        /\ s.end = s.start + Length
                        /\ H!WithWakeup(s) = s
  /\ s.mode = "dormant" => s.until <= t \/ s.until = s.wake \/ (s.until = s.end /\ s.used >= Hard)
  /\ s.mode = "lowbandwidth" => s.until = s.end

FileOK(d, t) ==
  /\ d \in FileRec
  /\ d.start = H!Never => d.used = 0
  /\ d.start # H!Never => StartsAt(d.start, t)

\* The bytes of this interval that the program knows of, or will when it starts.
Remembered == IF up THEN H!OfInterval(H!Known(h)) ELSE H!OfInterval(disk)

QuotaTypes ==
  /\ now \in Nat /\ up \in BOOLEAN /\ draw \in Nat /\ events \in Nat
  /\ fresh \in BOOLEAN /\ total \in Nat /\ lost \in Nat /\ exempt \in Nat
  /\ StateOK(h, now) /\ FileOK(state, now) /\ FileOK(disk, now)
\* The program, while it runs, and what is recorded of it.
Recorded ==
  /\ ~up => h = H!Off(h.on) /\ state = H!Nothing
  /\ up /\ h.start = H!Never => ~h.on
  /\ up /\ h.on => h.start = H!PeriodStart(now)
\* The bytes of the interval: a relay that has used its quota and is awake has
\* been woken by the options, or is shutting down.
Counted ==
  /\ total <= Remembered + lost
  /\ H!QuotaKept
  /\ up /\ h.on /\ ~fresh /\ h.mode \notin {"dormant", "exiting"} => h.used < Hard
\* What consider_hibernation leaves, until the options change.
Settled ==
  up /\ settled /\ h.on =>
    /\ h.mode # "exiting" =>
       /\ h.used >= Hard => h.mode = "dormant"
       /\ now < h.wake => h.mode \in {"dormant", "lowbandwidth"}
       /\ h.mode = "dormant" => h.used >= Hard \/ now < h.wake
    /\ now < h.end
QuotaInv == QuotaTypes /\ Recorded /\ Counted /\ Settled
-----------------------------------------------------------------------------
(* Periods. *)

\* Division with a remainder, which SMT knows only term by term.
LEMMA DivMod ==
  ASSUME NEW a \in Nat, NEW b \in Nat \ {0}
  PROVE  a = b * (a \div b) + (a % b) /\ a \div b \in Nat /\ a % b \in 0 .. b - 1
<1>1. a = (a \div b) * b + (a % b)
  BY SMTT(30)
<1>2. a \div b \in Nat
  OBVIOUS
<1>3. a % b \in 0 .. b - 1
  OBVIOUS
<1>4. \A q \in Nat : q * b = b * q
  OBVIOUS
<1> QED
  BY <1>1, <1>2, <1>3, <1>4

LEMMA DivisionUnique ==
  ASSUME NEW b \in Nat \ {0}, NEW q \in Nat, NEW r \in 0 .. b - 1,
         NEW p \in Nat, NEW s \in 0 .. b - 1, b * q + r = b * p + s
  PROVE  q = p /\ r = s
<1>1. b * (q - p) = b * q - b * p
  OBVIOUS
<1>2. b * q \in Nat /\ b * p \in Nat
  OBVIOUS
<1>3. b * (q - p) = s - r
  BY <1>1, <1>2
<1>4. s - r < b /\ s - r > -b
  OBVIOUS
<1>5. q - p \in Int /\ b * (q - p) < b /\ b * (q - p) > -b
  BY <1>3, <1>4
<1>6. \A z \in Int : b * z < b /\ b * z > -b => z = 0
  OBVIOUS
<1>7. q - p = 0
  BY <1>5, <1>6
<1> QED
  BY <1>7

LEMMA PeriodFacts ==
  ASSUME NEW t \in Nat
  PROVE  /\ H!PeriodStart(t) \in Nat /\ H!PeriodStart(t) <= t /\ t < H!PeriodStart(t) + Length
         /\ \A u \in Nat : H!PeriodStart(t) <= u /\ u < H!PeriodStart(t) + Length
                             => H!PeriodStart(u) = H!PeriodStart(t)
<1> DEFINE L == Length
<1>1. L \in Nat \ {0}
  BY QuotaConstants
<1> DEFINE q == t \div L
           r == t % L
<1>2. t = L * q + r /\ q \in Nat /\ r \in 0 .. L - 1
  BY <1>1, DivMod
<1>3. H!PeriodStart(t) = t - r
  BY DEF H!PeriodStart
<1> HIDE DEF q, r
<1>4. L * q \in Nat
  BY <1>1, <1>2
<1>5. H!PeriodStart(t) = L * q
  BY <1>2, <1>3, <1>4
<1>6. ASSUME NEW u \in Nat, L * q <= u, u < L * q + L
      PROVE  H!PeriodStart(u) = L * q
  <2> DEFINE p == u \div L
             s == u % L
  <2>1. u = L * p + s /\ p \in Nat /\ s \in 0 .. L - 1
    BY <1>1, DivMod
  <2>2. H!PeriodStart(u) = u - s
    BY DEF H!PeriodStart
  <2> HIDE DEF p, s, L
  <2>3. u - L * q \in 0 .. L - 1 /\ u = L * q + (u - L * q)
    BY <1>6, <1>4, <1>1
  <2>4. s = u - L * q
    BY <1>1, <1>2, <2>1, <2>3, DivisionUnique
  <2> QED
    BY <2>2, <2>4, <1>4
<1> DEFINE m == L * q
<1>7. m \in Nat /\ H!PeriodStart(t) = m /\ t = m + r
        /\ \A u \in Nat : m <= u /\ u < m + L => H!PeriodStart(u) = m
  BY <1>2, <1>4, <1>5, <1>6
<1> HIDE DEF m
<1>8. H!PeriodStart(t) <= t /\ t < H!PeriodStart(t) + L /\ H!PeriodStart(t) \in Nat
  <2>1. r \in 0 .. L - 1 /\ L \in Nat
    BY <1>1, <1>2
  <2>2. m \in Nat /\ t = m + r
    BY <1>7
  <2>3. m <= t /\ t < m + L
    BY <2>1, <2>2
  <2> QED
    BY <2>3, <1>7
<1>9. \A u \in Nat : H!PeriodStart(t) <= u /\ u < H!PeriodStart(t) + L => H!PeriodStart(u) = H!PeriodStart(t)
  <2> HIDE DEF L
  <2> QED
    BY <1>7
<1> QED
  BY <1>8, <1>9

\* The next period begins a whole period later.
LEMMA PeriodsApart ==
  ASSUME NEW t \in Nat, NEW s, StartsAt(s, t), s # H!PeriodStart(t)
  PROVE  H!PeriodStart(t) >= s + Length /\ t >= s + Length
<1>1. s \in Nat /\ H!PeriodStart(s) = s /\ s <= t
  BY DEF StartsAt
<1>2. Length \in Nat
  BY QuotaConstants
<1>3. H!PeriodStart(t) \in Nat /\ H!PeriodStart(t) <= t /\ t < H!PeriodStart(t) + Length
  BY PeriodFacts
<1>4. ~(t < s + Length)
  BY <1>1, PeriodFacts
<1>5. H!PeriodStart(H!PeriodStart(t)) = H!PeriodStart(t)
  <2>1. H!PeriodStart(t) <= H!PeriodStart(t) /\ H!PeriodStart(t) < H!PeriodStart(t) + Length
    BY <1>3, QuotaConstants
  <2> QED
    BY <1>3, <2>1, PeriodFacts
<1>6. ~(s <= H!PeriodStart(t) /\ H!PeriodStart(t) < s + Length)
  <2>1. SUFFICES ASSUME s <= H!PeriodStart(t), H!PeriodStart(t) < s + Length PROVE FALSE
    OBVIOUS
  <2>2. H!PeriodStart(H!PeriodStart(t)) = H!PeriodStart(s)
    BY <1>1, <1>3, <2>1, PeriodFacts
  <2> QED
    BY <2>2, <1>5, <1>1
<1> QED
  BY <1>1, <1>2, <1>3, <1>4, <1>6

LEMMA StartsRight ==
  ASSUME NEW t \in Nat
  PROVE  /\ StartsAt(H!PeriodStart(t), t)
         /\ \A s : StartsAt(s, t) => s <= H!PeriodStart(t)
         /\ \A s, u : StartsAt(s, t) /\ u \in Nat /\ t <= u => StartsAt(s, u)
<1>1. H!PeriodStart(t) \in Nat /\ H!PeriodStart(t) <= t /\ t < H!PeriodStart(t) + Length
  BY PeriodFacts
<1>2. H!PeriodStart(H!PeriodStart(t)) = H!PeriodStart(t)
  <2>1. H!PeriodStart(t) <= H!PeriodStart(t) /\ H!PeriodStart(t) < H!PeriodStart(t) + Length
    BY <1>1, QuotaConstants
  <2> QED
    BY <1>1, <2>1, PeriodFacts
<1>3. ASSUME NEW s, StartsAt(s, t) PROVE s <= H!PeriodStart(t)
  <2>1. CASE s = H!PeriodStart(t)
    BY <2>1, <1>1
  <2>2. CASE s # H!PeriodStart(t)
    <3>1. H!PeriodStart(t) >= s + Length /\ s \in Nat
      BY <2>2, <1>3, PeriodsApart DEF StartsAt
    <3> QED
      BY <3>1, <1>1, QuotaConstants
  <2> QED
    BY <2>1, <2>2
<1> QED
  BY <1>1, <1>2, <1>3 DEF StartsAt

-----------------------------------------------------------------------------
(* What the operators of hibernate.c do to the state. *)

LEMMA HRecFields ==
  ASSUME NEW s \in HRec
  PROVE  /\ s.mode \in Modes /\ s.on \in BOOLEAN
         /\ s.until \in Int /\ s.start \in Int /\ s.end \in Int /\ s.wake \in Int
         /\ s.used \in Nat /\ s.expected \in Nat /\ s.stop \in Int
  BY DEF HRec

LEMMA WithWakeupIs ==
  ASSUME NEW s \in HRec, s.start \in Nat, s.end = s.start + Length, draw \in Nat
  PROVE  LET r == H!WithWakeup(s) IN
           /\ r \in HRec /\ r.start = s.start /\ r.end = s.end /\ r.used = s.used /\ r.mode = s.mode
           /\ r.on = s.on /\ r.until = s.until
           /\ s.start <= r.wake /\ r.wake < s.end
           /\ H!WithWakeup(r) = r
<1> DEFINE c == IF s.expected = 0 THEN 0 ELSE (s.end - s.start) - Hard \div s.expected
           w == s.start + IF c <= 0 THEN 0 ELSE draw % c
           r == [s EXCEPT !.wake = w]
<1>1. H!WithWakeup(s) = r
  BY DEF H!WithWakeup
<1>2. s.expected \in Nat /\ Length \in Nat \ {0} /\ Hard \in Nat
  BY HRecFields, QuotaConstants
<1>3. c \in Int /\ c <= Length
  <2>1. CASE s.expected = 0
    BY <2>1, <1>2
  <2>2. CASE s.expected # 0
    <3>1. Hard \div s.expected \in Nat
      BY <1>2, <2>2, DivMod
    <3> QED
      BY <2>2, <3>1, <1>2
  <2> QED
    BY <2>1, <2>2
<1> HIDE DEF c
<1>4. w \in Nat /\ s.start <= w /\ w < s.end
  <2>1. CASE c <= 0
    BY <2>1, <1>2
  <2>2. CASE ~(c <= 0)
    <3>1. draw % c \in 0 .. c - 1
      BY <2>2, <1>3, DivMod
    <3> QED
      BY <2>2, <3>1, <1>2, <1>3
  <2> QED
    BY <2>1, <2>2, <1>3
<1> HIDE DEF w
<1>5. /\ r \in HRec /\ r.start = s.start /\ r.end = s.end /\ r.used = s.used /\ r.mode = s.mode
      /\ r.on = s.on /\ r.until = s.until /\ r.wake = w /\ r.expected = s.expected
  BY <1>4 DEF HRec
<1>6. H!WithWakeup(r) = [r EXCEPT !.wake = w]
  BY <1>5 DEF H!WithWakeup, w, c
<1>7. [r EXCEPT !.wake = w] = r
  BY <1>5 DEF HRec
<1> QED
  BY <1>1, <1>4, <1>5, <1>6, <1>7

\* What configure_accounting makes of the state.
Configured(r, s, t, file) ==
  /\ r \in HRec /\ r.start = H!PeriodStart(t) /\ r.end = H!PeriodStart(t) + Length /\ H!WithWakeup(r) = r
  /\ r.mode = s.mode /\ r.on = s.on /\ r.until = s.until
  /\ r.wake < r.end /\ r.start <= r.wake
  /\ LET d == IF s.start = H!Never THEN file ELSE s
     IN  r.used = IF d.start = H!PeriodStart(t) THEN d.used ELSE 0
  /\ s.start = H!PeriodStart(t) /\ s.end = s.start + Length /\ H!WithWakeup(s) = s => r = s

LEMMA ConfigureIs ==
  ASSUME NEW t \in Nat, NEW e \in Nat, NEW s \in HRec, s.start # H!Never => StartsAt(s.start, t),
         NEW file, FileOK(file, t), draw \in Nat
  PROVE  Configured(H!Configure(s, t, e, file), s, t, file)
<1> DEFINE r == IF s.start = H!Never
                THEN [s EXCEPT !.used = file.used, !.start = file.start, !.expected = file.expected] ELSE s
           d == IF s.start = H!Never THEN file ELSE s
           z == IF d.start = H!PeriodStart(t) THEN d.used ELSE 0
<1>1. Length \in Nat \ {0}
  BY QuotaConstants
<1>2. r \in HRec /\ r.start = d.start /\ r.used = d.used /\ r.mode = s.mode /\ r.on = s.on /\ r.until = s.until
  BY DEF HRec, FileOK, FileRec
<1>3. r.start # H!Never => StartsAt(r.start, t)
  BY <1>2 DEF FileOK
<1>4. s.start # H!Never => r = s
  OBVIOUS
<1> HIDE DEF r
<1> DEFINE moved == H!PeriodStart(t) - r.start
           x == IF r.start = H!Never THEN H!Reset(r, t, e)
                ELSE IF moved = 0 THEN [r EXCEPT !.end = H!PeriodEnd(r.start)]
                ELSE IF 2 * moved <= Length /\ -2 * moved <= Length THEN [r EXCEPT !.end = H!PeriodEnd(t)]
                ELSE H!Reset(r, t, e)
<1>5. H!Configure(s, t, e, file) = H!WithWakeup(x)
  BY DEF H!Configure, r
<1>6. H!PeriodStart(t) \in Nat
  BY PeriodFacts
<1>7. /\ x \in HRec /\ x.start = H!PeriodStart(t) /\ x.end = H!PeriodStart(t) + Length
      /\ x.mode = s.mode /\ x.on = s.on /\ x.until = s.until /\ x.used = z
      /\ r.start = H!PeriodStart(t) => x = [r EXCEPT !.end = H!PeriodStart(t) + Length]
  <2>1. CASE r.start = H!PeriodStart(t)
    <3>1. moved = 0 /\ r.start # H!Never
      BY <2>1, <1>6 DEF H!Never
    <3>2. H!PeriodEnd(r.start) = H!PeriodStart(t) + Length
      BY <2>1, StartsRight DEF H!PeriodEnd, StartsAt
    <3>3. x = [r EXCEPT !.end = H!PeriodStart(t) + Length]
      BY <3>1, <3>2
    <3> HIDE DEF x
    <3>4. H!PeriodStart(t) + Length \in Int
      BY <1>6, <1>1
    <3>5. z = r.used
      BY <2>1, <1>2
    <3> HIDE DEF z
    <3> QED
      BY <3>3, <3>4, <3>5, <2>1, <1>2 DEF HRec
  <2>2. CASE r.start # H!PeriodStart(t)
    <3>1. r.start # H!Never => moved >= Length
      BY <2>2, <1>3, <1>6, <1>1, PeriodsApart DEF StartsAt
    <3>2. x = H!Reset(r, t, e)
      BY <3>1, <1>1, <1>6, <1>2, HRecFields
    <3>3. x = [r EXCEPT !.expected = e, !.start = H!PeriodStart(t), !.end = H!PeriodStart(t) + Length, !.used = 0]
      BY <3>2 DEF H!Reset, H!PeriodEnd
    <3> HIDE DEF x
    <3>4. z = 0
      BY <2>2, <1>2
    <3> HIDE DEF z
    <3>5. H!PeriodStart(t) + Length \in Int
      BY <1>6, <1>1
    <3>6. x \in HRec /\ x.start = H!PeriodStart(t) /\ x.end = H!PeriodStart(t) + Length
            /\ x.used = 0 /\ x.mode = r.mode /\ x.on = r.on /\ x.until = r.until
      <4> DEFINE a == H!PeriodStart(t)
                 b == H!PeriodStart(t) + Length
      <4>1. a \in Int /\ b \in Int /\ r \in HRec /\ x = [r EXCEPT !.expected = e, !.start = a, !.end = b, !.used = 0]
        BY <3>3, <3>5, <1>6, <1>2
      <4> HIDE DEF a, b
      <4>2. x \in HRec /\ x.start = a /\ x.end = b
              /\ x.used = 0 /\ x.mode = r.mode /\ x.on = r.on /\ x.until = r.until
        BY <4>1 DEF HRec
      <4> QED
        BY <4>2 DEF a, b
    <3> QED
      BY <3>4, <3>6, <2>2, <1>2
  <2> QED
    BY <2>1, <2>2
<1> HIDE DEF x, z
<1> DEFINE y == H!WithWakeup(x)
<1>8. /\ y \in HRec /\ y.start = x.start /\ y.end = x.end /\ y.used = x.used /\ y.mode = x.mode
      /\ y.on = x.on /\ y.until = x.until
      /\ x.start <= y.wake /\ y.wake < x.end
      /\ H!WithWakeup(y) = y
  BY <1>7, <1>6, WithWakeupIs
<1>9. ASSUME s.start = H!PeriodStart(t), s.end = s.start + Length, H!WithWakeup(s) = s
      PROVE  y = s
  <2>1. r = s
    BY <1>4, <1>9, <1>6 DEF H!Never
  <2>2. x = [s EXCEPT !.end = H!PeriodStart(t) + Length]
    BY <1>7, <1>9, <2>1
  <2>3. x = s
    BY <2>2, <1>9 DEF HRec
  <2> QED
    BY <2>3, <1>9
<1> HIDE DEF y
<1>10. y.used = IF d.start = H!PeriodStart(t) THEN d.used ELSE 0
  BY <1>7, <1>8 DEF z
<1>11. Configured(y, s, t, file)
  BY <1>7, <1>8, <1>9, <1>10 DEF Configured
<1> QED
  BY <1>5, <1>11 DEF y


\* The hard limit is reached after the soft one.
LEMMA SoftFirst ==
  ASSUME NEW s \in HRec
  PROVE  /\ H!HardReached(s) => H!SoftReached(s)
         /\ s.used = 0 => ~H!SoftReached(s) /\ ~H!HardReached(s)
<1>1. /\ Hard \in Nat /\ Hard >= 2 /\ SoftBytes \in Nat /\ SoftMinutes \in Nat
      /\ s.used \in Nat /\ s.expected \in Nat
  BY HRecFields, QuotaConstants
<1> DEFINE percent == (Hard * 95) \div 100
           soon == s.expected * SoftMinutes
<1>2. percent \in Nat /\ percent >= 1 /\ percent <= Hard
  BY <1>1
<1>3. soon \in Nat
  BY <1>1
<1> HIDE DEF percent, soon
<1> DEFINE bytes == IF Hard > SoftBytes THEN H!Most(percent, Hard - SoftBytes) ELSE percent
<1>4. bytes \in Nat /\ bytes >= 1 /\ bytes <= Hard
  BY <1>1, <1>2 DEF H!Most
<1>5. H!SoftLimit(s) = IF s.expected > 0 /\ Hard > soon THEN H!Most(bytes, Hard - soon) ELSE bytes
  BY DEF H!SoftLimit, percent, soon
<1> HIDE DEF bytes
<1>6. H!SoftLimit(s) \in Nat /\ H!SoftLimit(s) >= 1 /\ H!SoftLimit(s) <= Hard
  BY <1>1, <1>3, <1>4, <1>5 DEF H!Most
<1> QED
  BY <1>1, <1>6 DEF H!HardReached, H!SoftReached

\* The wakeup time is in the interval.
LEMMA WakeInside ==
  ASSUME NEW t, NEW s, StateOK(s, t), s.start # H!Never, draw \in Nat
  PROVE  s.start <= s.wake /\ s.wake < s.end
<1>1. s \in HRec /\ s.start \in Nat /\ s.end = s.start + Length /\ H!WithWakeup(s) = s
  BY DEF StateOK, StartsAt
<1> QED
  BY <1>1, WithWakeupIs

\* s is in the same interval and has the same usage, or begins the one of t.
Renewed(r, s, t) ==
  \/ r.start = s.start /\ r.used = s.used /\ r.end = s.end /\ r.wake = s.wake
  \/ r.start = H!PeriodStart(t) /\ t >= s.end /\ r.used = 0

LEMMA NothingOK == ASSUME NEW t \in Nat PROVE FileOK(H!Nothing, t)
  BY DEF FileOK, FileRec, H!Nothing, H!Never

\* accounting_run_housekeeping.
Housekept(r, s, t) ==
  /\ r \in HRec /\ r.mode = s.mode /\ r.on = s.on /\ r.until = s.until
  /\ StartsAt(r.start, t) /\ r.start \in Nat /\ r.start # H!Never
  /\ r.end = r.start + Length /\ H!WithWakeup(r) = r
  /\ r.wake < r.end /\ r.start <= r.wake /\ t < r.end
  /\ Renewed(r, s, t)
  /\ t < s.end => r = s
  /\ t >= s.end => r.start = H!PeriodStart(t) /\ r.used = 0

LEMMA HousekeepingIs ==
  ASSUME NEW t \in Nat, NEW e \in Nat, NEW s, StateOK(s, t), s.start # H!Never, draw \in Nat
  PROVE  Housekept(H!Housekeeping(s, t, e), s, t)
<1>1. s \in HRec /\ StartsAt(s.start, t) /\ s.end = s.start + Length /\ H!WithWakeup(s) = s
  BY DEF StateOK
<1>2. s.start \in Nat
  BY <1>1 DEF StartsAt
<1>3. CASE t < s.end
  <2>1. H!Housekeeping(s, t, e) = s
    BY <1>3, <1>1, <1>2, QuotaConstants DEF H!Housekeeping
  <2> QED
    BY <2>1, <1>1, <1>2, <1>3, WakeInside, QuotaConstants DEF Renewed, Housekept
<1>4. CASE t >= s.end
  <2>1. H!Housekeeping(s, t, e) = H!Configure(s, t, e, H!Nothing)
    BY <1>4 DEF H!Housekeeping
  <2>2. Configured(H!Configure(s, t, e, H!Nothing), s, t, H!Nothing)
    BY <1>1, NothingOK, ConfigureIs
  <2> DEFINE r == H!Configure(s, t, e, H!Nothing)
  <2> HIDE DEF r
  <2>3. s.start # H!PeriodStart(t)
    <3>1. t < H!PeriodStart(t) + Length /\ H!PeriodStart(t) \in Nat /\ Length \in Nat
      BY PeriodFacts, QuotaConstants
    <3> QED
      BY <3>1, <1>1, <1>2, <1>4
  <2>4. r.used = 0
    BY <2>2, <2>3 DEF Configured, r
  <2>5. H!PeriodStart(t) \in Nat /\ StartsAt(H!PeriodStart(t), t) /\ t < H!PeriodStart(t) + Length
    BY PeriodFacts, StartsRight
  <2>6. /\ r \in HRec /\ r.start = H!PeriodStart(t) /\ r.end = H!PeriodStart(t) + Length /\ H!WithWakeup(r) = r
        /\ r.mode = s.mode /\ r.on = s.on /\ r.until = s.until
        /\ r.wake < r.end /\ r.start <= r.wake
    BY <2>2 DEF Configured, r
  <2>7. r.start # H!Never
    BY <2>5, <2>6 DEF H!Never
  <2>8. Renewed(r, s, t)
    BY <2>4, <2>6, <1>4 DEF Renewed
  <2> QED
    BY <2>1, <2>4, <2>5, <2>6, <2>7, <2>8, <1>1, <1>2, <1>4, QuotaConstants DEF r, Housekept
<1> QED
  BY <1>1, <1>2, <1>3, <1>4, QuotaConstants

\* hibernate_go_dormant, in an interval that has a wakeup time.
LEMMA GoDormantIs ==
  ASSUME NEW t \in Nat, NEW s, StateOK(s, t), s.start # H!Never, s.mode # "dormant", draw \in Nat,
         t < s.wake \/ s.used >= Hard
  PROVE  LET r == H!GoDormant(s, t) IN
           /\ StateOK(r, t) /\ r.mode = "dormant" /\ r.on = s.on /\ r.start = s.start /\ r.used = s.used
           /\ r.end = s.end /\ r.wake = s.wake
           /\ r.until = IF t < s.wake THEN s.wake ELSE s.end
<1> DEFINE u == IF t < s.wake THEN s.wake ELSE s.end
           r == [s EXCEPT !.mode = "dormant", !.until = u]
<1>1. s \in HRec /\ StartsAt(s.start, t) /\ s.end = s.start + Length /\ H!WithWakeup(s) = s
  BY DEF StateOK
<1>2. H!GoDormant(s, t) = r
  BY DEF H!GoDormant
<1>3. u \in Int
  BY <1>1, HRecFields
<1>4. u = s.wake \/ (u = s.end /\ s.used >= Hard)
  BY <1>1, HRecFields
<1>5. u = IF t < s.wake THEN s.wake ELSE s.end
  OBVIOUS
<1> HIDE DEF u
<1>6. /\ r \in HRec /\ r.mode = "dormant" /\ r.on = s.on /\ r.start = s.start /\ r.used = s.used
      /\ r.end = s.end /\ r.wake = s.wake /\ r.until = u /\ r.expected = s.expected
  BY <1>1, <1>3 DEF HRec, Modes
<1>7. H!WithWakeup(r) = r
  BY <1>1, <1>6 DEF H!WithWakeup, HRec
<1> HIDE DEF r
<1>8. StateOK(r, t)
  BY <1>1, <1>4, <1>6, <1>7 DEF StateOK
<1> QED
  BY <1>2, <1>5, <1>6, <1>8


\* The state with another mode and time until which it lasts.
Changed(r, s, m, u, t) ==
  /\ StateOK(r, t) /\ r.mode = m /\ r.until = u /\ r.on = s.on /\ r.start = s.start
  /\ r.used = s.used /\ r.end = s.end /\ r.wake = s.wake /\ r.start # H!Never

LEMMA ModeChanges ==
  ASSUME NEW t \in Nat, NEW s \in HRec, StartsAt(s.start, t), s.end = s.start + Length,
         H!WithWakeup(s) = s, NEW m \in {"live", "lowbandwidth", "dormant"}, NEW u \in Int,
         m = "dormant" => u <= t \/ u = s.wake \/ (u = s.end /\ s.used >= Hard),
         m = "lowbandwidth" => u = s.end
  PROVE  Changed([s EXCEPT !.mode = m, !.until = u], s, m, u, t)
<1> DEFINE r == [s EXCEPT !.mode = m, !.until = u]
<1>1. /\ r \in HRec /\ r.mode = m /\ r.on = s.on /\ r.start = s.start /\ r.used = s.used
      /\ r.end = s.end /\ r.wake = s.wake /\ r.until = u /\ r.expected = s.expected
  BY DEF HRec, Modes
<1>2. H!WithWakeup(r) = r
  BY <1>1 DEF H!WithWakeup, HRec
<1>3. r.start # H!Never
  BY <1>1 DEF StartsAt, H!Never
<1> HIDE DEF r
<1>4. StateOK(r, t)
  BY <1>1, <1>2, <1>3 DEF StateOK
<1> QED
  BY <1>1, <1>3, <1>4 DEF r, Changed

\* hibernate_end_time_elapsed.
ElapsedTo(r, s, t) ==
  /\ StateOK(r, t) /\ r.start # H!Never /\ r.on = s.on /\ Renewed(r, s, t)
  /\ r.mode \in {"live", "dormant"} /\ t < r.end
  /\ r.mode = "dormant" => r.until = r.wake /\ t < r.wake
  /\ r.mode = "live" => r.wake <= t

LEMMA ElapsedIs ==
  ASSUME NEW t \in Nat, NEW e \in Nat, NEW s, StateOK(s, t), s.start # H!Never, draw \in Nat
  PROVE  ElapsedTo(H!Elapsed(s, t, e), s, t)
<1> DEFINE h0 == H!Housekeeping(s, t, e)
           r == H!Elapsed(s, t, e)
<1>1. /\ h0 \in HRec /\ h0.mode = s.mode /\ h0.on = s.on /\ h0.until = s.until
      /\ StartsAt(h0.start, t) /\ h0.start # H!Never
      /\ h0.end = h0.start + Length /\ H!WithWakeup(h0) = h0 /\ t < h0.end
      /\ Renewed(h0, s, t)
  BY HousekeepingIs DEF Housekept
<1>2. r = IF h0.wake <= t THEN [h0 EXCEPT !.mode = "live", !.until = 0]
          ELSE IF h0.mode # "dormant" THEN H!GoDormant(h0, t) ELSE [h0 EXCEPT !.until = h0.wake]
  BY DEF H!Elapsed
<1> HIDE DEF h0
<1>3. h0.wake \in Int
  BY <1>1, HRecFields
<1>4. CASE h0.wake <= t
  <2>1. r = [h0 EXCEPT !.mode = "live", !.until = 0]
    BY <1>2, <1>4
  <2> HIDE DEF r
  <2>2. /\ StateOK(r, t) /\ r.mode = "live" /\ r.until = 0 /\ r.on = h0.on /\ r.start = h0.start
        /\ r.used = h0.used /\ r.end = h0.end /\ r.wake = h0.wake /\ r.start # H!Never
    <3>1. "live" \in {"live", "lowbandwidth", "dormant"} /\ 0 \in Int
      BY <2>1, <1>1
    <3>2. Changed(r, h0, "live", 0, t)
      BY <3>1, <2>1, <1>1, ModeChanges
    <3> QED
      BY <3>2 DEF Changed
  <2>3. ElapsedTo(r, s, t)
    BY <2>2, <1>1, <1>4 DEF ElapsedTo, Renewed
  <2> QED
    BY <2>3 DEF r
<1>5. CASE ~(h0.wake <= t)
  <2>1. t < h0.wake
    BY <1>3, <1>5
  <2>2. r = [h0 EXCEPT !.mode = "dormant", !.until = h0.wake]
    <3>1. CASE h0.mode = "dormant"
      <4>1. r = [h0 EXCEPT !.until = h0.wake]
        BY <1>2, <1>5, <3>1
      <4>2. [h0 EXCEPT !.until = h0.wake] = [h0 EXCEPT !.mode = "dormant", !.until = h0.wake]
        BY <3>1, <1>1 DEF HRec
      <4> QED
        BY <4>1, <4>2
    <3>2. CASE h0.mode # "dormant"
      BY <3>2, <2>1, <1>2, <1>5 DEF H!GoDormant
    <3> QED
      BY <3>1, <3>2
  <2> HIDE DEF r
  <2>3. /\ StateOK(r, t) /\ r.mode = "dormant" /\ r.until = h0.wake /\ r.on = h0.on /\ r.start = h0.start
        /\ r.used = h0.used /\ r.end = h0.end /\ r.wake = h0.wake /\ r.start # H!Never
    <3>1. "dormant" \in {"live", "lowbandwidth", "dormant"} /\ h0.wake \in Int
      BY <2>2, <1>1, <1>3
    <3>2. Changed(r, h0, "dormant", h0.wake, t)
      BY <3>1, <2>2, <1>1, <1>3, ModeChanges
    <3> QED
      BY <3>2 DEF Changed
  <2>4. ElapsedTo(r, s, t)
    BY <2>3, <1>1, <2>1 DEF ElapsedTo, Renewed
  <2> QED
    BY <2>4 DEF r
<1> QED
  BY <1>4, <1>5

\* What consider_hibernation leaves.
Considered(r, s, t) ==
  /\ StateOK(r, t) /\ r.on = s.on
  /\ r.start = H!Never <=> s.start = H!Never
  /\ s.start = H!Never => r.used = s.used /\ r.mode = IF s.mode = "exiting" THEN "exiting" ELSE "live"
  /\ s.start # H!Never => Renewed(r, s, t)
  /\ r.mode \in {"live", "lowbandwidth", "dormant", "exiting"}
  /\ r.on /\ r.mode # "exiting" =>
             /\ r.used >= Hard => r.mode = "dormant"
             /\ t < r.wake => r.mode \in {"dormant", "lowbandwidth"}
             /\ r.mode = "dormant" => r.used >= Hard \/ t < r.wake
  /\ r.mode = "lowbandwidth" => r.on /\ t < r.end
  /\ r.mode = "dormant" => t < r.end \/ r.until <= t

LEMMA ConsiderIs ==
  ASSUME NEW t \in Nat, NEW e \in Nat, NEW s, StateOK(s, t), draw \in Nat
  PROVE  Considered(H!Consider(s, t, e), s, t)
<1>0. s \in HRec /\ s.mode \in Modes /\ s.on \in BOOLEAN
        /\ s.until \in Int /\ s.end \in Int /\ s.wake \in Int /\ s.used \in Nat
  BY HRecFields DEF StateOK
\* A program that is shutting down is asked nothing.
<1>3. CASE s.mode = "exiting"
  <2>1. H!Consider(s, t, e) = s
    BY <1>3 DEF H!Consider
  <2>2. Considered(s, s, t)
    BY <1>3, <1>0 DEF Considered, Renewed
  <2> QED
    BY <2>1, <2>2
<1>1. CASE s.start = H!Never /\ s.mode # "exiting"
  <2>1. s.mode \in {"initial", "live"} /\ s.used = 0 /\ s.wake = 0
    BY <1>1 DEF StateOK
  <2>2. H!Sleeping(s, t, e) = s
    BY <2>1 DEF H!Sleeping
  <2>3. ~H!SoftReached(s)
    BY <2>1, <1>0, SoftFirst
  <2> DEFINE r == [s EXCEPT !.mode = "live"]
  <2>4. H!Awake(s, t) = r
    BY <2>1, <2>3 DEF H!Awake
  <2>5. r \in HRec /\ r.mode = "live" /\ r.start = H!Never /\ r.used = 0 /\ r.wake = 0 /\ r.on = s.on
    BY <1>0, <1>1, <2>1 DEF HRec, Modes
  <2> HIDE DEF r
  <2>6. H!Low(r, t, e) = r
    BY <2>5 DEF H!Low
  <2>7. H!Consider(s, t, e) = r
    BY <2>1, <2>2, <2>4, <2>6 DEF H!Consider
  <2>8. StateOK(r, t)
    BY <2>5 DEF StateOK
  <2>9. Considered(r, s, t)
    BY <2>5, <2>8, <1>1, QuotaConstants DEF Considered, r
  <2> QED
    BY <2>7, <2>9
<1>2. CASE s.start # H!Never /\ s.mode # "exiting"
  <2>1. StartsAt(s.start, t) /\ s.end = s.start + Length /\ H!WithWakeup(s) = s /\ s.wake < s.end
    BY <1>2, WakeInside DEF StateOK
  \* It sleeps on.
  <2>2. CASE s.mode = "dormant" /\ s.until > t /\ s.on
    <3>1. H!Consider(s, t, e) = s
      BY <2>2 DEF H!Consider
    <3>2. s.until = s.wake \/ (s.until = s.end /\ s.used >= Hard)
      BY <2>2, <1>0 DEF StateOK
    <3>3. Considered(s, s, t)
      BY <3>2, <2>2, <2>1, <1>0, <1>2 DEF Considered, Renewed
    <3> QED
      BY <3>1, <3>3
  <2>3. CASE ~(s.mode = "dormant" /\ s.until > t /\ s.on)
    <3> DEFINE a == H!Sleeping(s, t, e)
               b == H!Awake(a, t)
               r == H!Low(b, t, e)
    <3>1. H!Consider(s, t, e) = r
      BY <2>3, <1>2 DEF H!Consider
    <3>2. /\ StateOK(a, t) /\ a.start # H!Never /\ a.on = s.on /\ Renewed(a, s, t) /\ a.mode # "exiting"
          /\ a.mode = "dormant" => a.until = a.wake /\ t < a.wake /\ t < a.end
      <4>1. CASE s.mode = "dormant"
        <5>1. a = H!Elapsed(s, t, e)
          BY <4>1, <2>3 DEF H!Sleeping
        <5>2. ElapsedTo(a, s, t)
          BY <5>1, <1>2, ElapsedIs
        <5> QED
          BY <5>2 DEF ElapsedTo
      <4>2. CASE s.mode # "dormant"
        <5>1. a = s
          BY <4>2 DEF H!Sleeping
        <5> QED
          BY <5>1, <4>2, <1>2 DEF Renewed
      <4> QED
        BY <4>1, <4>2
    <3> HIDE DEF a
    <3>3. /\ a \in HRec /\ StartsAt(a.start, t) /\ a.end = a.start + Length /\ H!WithWakeup(a) = a
          /\ a.wake < a.end
      BY <3>2, WakeInside DEF StateOK
    <3>4. /\ a.mode \in {"initial", "live", "lowbandwidth", "dormant"} /\ a.on \in BOOLEAN
          /\ a.until \in Int /\ a.end \in Int /\ a.wake \in Int /\ a.used \in Nat
      BY <3>2, <3>3, HRecFields DEF Modes
    <3>5. /\ StateOK(b, t) /\ b.start # H!Never /\ b.on = s.on /\ Renewed(b, s, t)
          /\ b.mode = "dormant" => b.until = b.wake /\ t < b.wake /\ t < b.end
          /\ b.mode = "live" /\ b.on => b.used < Hard /\ b.wake <= t
          /\ b.mode \in {"live", "lowbandwidth", "dormant"}
      <4>1. CASE a.mode \notin {"live", "initial"}
        <5>1. b = a
          BY <4>1 DEF H!Awake
        <5> QED
          BY <5>1, <4>1, <3>2, <3>4
      <4>2. CASE a.mode \in {"live", "initial"} /\ H!SoftReached(a)
        <5>1. b = [a EXCEPT !.mode = "lowbandwidth", !.until = a.end]
          BY <4>2 DEF H!Awake, H!Begin
        <5> HIDE DEF b
        <5>2. /\ StateOK(b, t) /\ b.mode = "lowbandwidth" /\ b.until = a.end /\ b.on = a.on /\ b.start = a.start
              /\ b.used = a.used /\ b.end = a.end /\ b.wake = a.wake /\ b.start # H!Never
          <6>1. "lowbandwidth" \in {"live", "lowbandwidth", "dormant"} /\ a.end \in Int
            BY <5>1, <3>3, <3>4
          <6>2. Changed(b, a, "lowbandwidth", a.end, t)
            BY <6>1, <5>1, <3>3, <3>4, ModeChanges
          <6> QED
            BY <6>2 DEF Changed
        <5> QED
          BY <5>2, <3>2 DEF Renewed
      <4>3. CASE a.mode \in {"live", "initial"} /\ ~H!SoftReached(a) /\ a.on /\ t < a.wake
        <5>1. b = H!GoDormant(a, t)
          BY <4>3 DEF H!Awake
        <5>2. a.mode # "dormant"
          BY <4>3
        <5> HIDE DEF b
        <5>3. /\ StateOK(b, t) /\ b.mode = "dormant" /\ b.on = a.on /\ b.start = a.start /\ b.used = a.used
              /\ b.end = a.end /\ b.wake = a.wake
              /\ b.until = IF t < a.wake THEN a.wake ELSE a.end
          BY <5>1, <5>2, <4>3, <3>2, GoDormantIs
        <5>4. t < b.wake /\ b.until = b.wake /\ t < b.end
          BY <5>3, <4>3, <3>3, <3>4
        <5>5. Renewed(b, s, t)
          BY <5>3, <3>2 DEF Renewed
        <5> QED
          BY <5>3, <5>4, <5>5, <3>2
      <4>4. CASE a.mode \in {"live", "initial"} /\ ~H!SoftReached(a) /\ ~(a.on /\ t < a.wake)
        <5>1. b = [a EXCEPT !.mode = "live"]
          BY <4>4 DEF H!Awake
        <5>2. b = [a EXCEPT !.mode = "live", !.until = a.until]
          BY <5>1, <3>3 DEF HRec
        <5> HIDE DEF b
        <5>3. /\ StateOK(b, t) /\ b.mode = "live" /\ b.until = a.until /\ b.on = a.on /\ b.start = a.start
              /\ b.used = a.used /\ b.end = a.end /\ b.wake = a.wake /\ b.start # H!Never
          <6>1. "live" \in {"live", "lowbandwidth", "dormant"} /\ a.until \in Int
            BY <5>2, <3>3, <3>4
          <6>2. Changed(b, a, "live", a.until, t)
            BY <6>1, <5>2, <3>3, <3>4, ModeChanges
          <6> QED
            BY <6>2 DEF Changed
        <5>4. a.on => a.used < Hard
          <6>1. ~H!HardReached(a)
            BY <4>4, <3>3, SoftFirst
          <6> QED
            BY <6>1, <3>4, QuotaConstants DEF H!HardReached
        <5> QED
          BY <5>3, <5>4, <4>4, <3>2, <3>4 DEF Renewed
      <4> QED
        BY <4>1, <4>2, <4>3, <4>4
    <3> HIDE DEF b
    <3>6. /\ b \in HRec /\ StartsAt(b.start, t) /\ b.end = b.start + Length /\ H!WithWakeup(b) = b
          /\ b.wake < b.end /\ (b.mode = "lowbandwidth" => b.until = b.end)
      BY <3>5, WakeInside DEF StateOK
    <3>7. /\ b.on \in BOOLEAN /\ b.until \in Int /\ b.end \in Int /\ b.wake \in Int /\ b.used \in Nat
      BY <3>6, HRecFields
    <3>8. CASE b.mode # "lowbandwidth"
      <4>1. r = b
        BY <3>8 DEF H!Low
      <4>2. Considered(b, s, t)
        BY <3>8, <3>5, <3>7, <1>2, QuotaConstants DEF Considered
      <4> QED
        BY <4>1, <4>2, <3>1
    <3>9. CASE b.mode = "lowbandwidth" /\ b.on /\ H!HardReached(b)
      <4>1. r = H!GoDormant(b, t)
        BY <3>9 DEF H!Low
      <4>2. b.used >= Hard /\ b.mode # "dormant"
        BY <3>9 DEF H!HardReached
      <4> HIDE DEF r
      <4>3. /\ StateOK(r, t) /\ r.mode = "dormant" /\ r.on = b.on /\ r.start = b.start /\ r.used = b.used
            /\ r.end = b.end /\ r.wake = b.wake
            /\ r.until = IF t < b.wake THEN b.wake ELSE b.end
        BY <4>1, <4>2, <3>5, GoDormantIs
      <4>4. Considered(r, s, t)
        BY <4>2, <4>3, <3>5, <3>6, <3>7, <1>2 DEF Considered, Renewed
      <4> QED
        BY <4>4, <3>1 DEF r
    <3>10. CASE b.mode = "lowbandwidth" /\ b.on /\ ~H!HardReached(b) /\ b.until > t
      <4>1. r = b
        BY <3>10, <3>7 DEF H!Low
      <4>2. b.used < Hard
        BY <3>10, <3>7, QuotaConstants DEF H!HardReached
      <4>4. b.mode = "lowbandwidth" /\ b.on /\ t < b.end /\ ~(b.used >= Hard)
        BY <4>2, <3>10, <3>6, <3>7, QuotaConstants
      <4>3. Considered(b, s, t)
        BY <4>4, <3>5, <3>6, <3>7, <1>2, QuotaConstants DEF Considered
      <4> QED
        BY <4>1, <4>3, <3>1
    <3>11. CASE b.mode = "lowbandwidth" /\ (~b.on \/ (~H!HardReached(b) /\ ~(b.until > t)))
      <4>1. r = H!Elapsed(b, t, e)
        BY <3>11, <3>7 DEF H!Low
      <4>2. ElapsedTo(r, b, t)
        BY <4>1, <3>5, ElapsedIs
      <4> HIDE DEF r
      <4>3. r.on /\ r.used >= Hard => FALSE
        <5>1. r.on = b.on /\ (r.used = b.used \/ r.used = 0)
          BY <4>2 DEF ElapsedTo, Renewed
        <5>2. b.on => b.used < Hard
          BY <3>11, <3>7, QuotaConstants DEF H!HardReached
        <5> QED
          BY <5>1, <5>2, <3>7, QuotaConstants
      <4>4. Renewed(r, s, t)
        BY <4>2, <3>5 DEF ElapsedTo, Renewed
      <4>5. r.wake \in Int
        BY <4>2, HRecFields DEF ElapsedTo, StateOK
      <4>6. Considered(r, s, t)
        BY <4>2, <4>3, <4>4, <4>5, <3>5, <1>2 DEF Considered, ElapsedTo
      <4> QED
        BY <4>6, <3>1 DEF r
    <3>12. \/ b.mode # "lowbandwidth"
           \/ b.mode = "lowbandwidth" /\ b.on /\ H!HardReached(b)
           \/ b.mode = "lowbandwidth" /\ b.on /\ ~H!HardReached(b) /\ b.until > t
           \/ b.mode = "lowbandwidth" /\ (~b.on \/ (~H!HardReached(b) /\ ~(b.until > t)))
      BY <3>7 DEF H!HardReached
    <3> HIDE DEF r
    <3> QED
      BY <3>8, <3>9, <3>10, <3>11, <3>12
  <2> QED
    BY <2>2, <2>3
<1> QED
  BY <1>1, <1>2, <1>3

\* What options_act leaves.
Acted(r, s, t, file) ==
  /\ StateOK(r, t) /\ r.on = s.on
  /\ s.on => r.start = H!PeriodStart(t)
  /\ s.start = H!Never /\ s.on => r.used = IF file.start = H!PeriodStart(t) THEN file.used ELSE 0
  /\ s.start = H!Never /\ ~s.on => r.start = H!Never
  /\ s.start # H!Never => r.start # H!Never /\ Renewed(r, s, t)
  /\ s.start # H!Never /\ s.on /\ r.mode \notin {"dormant", "exiting"} => r.used < Hard

LEMMA ActIs ==
  ASSUME now \in Nat, NEW e \in Nat, NEW s, StateOK(s, now), NEW file, FileOK(file, now), draw \in Nat
  PROVE  Acted(H!Act(s, e, file), s, now, file)
<1> DEFINE c == H!Consider(s, now, e)
           r == H!Configure(c, now, e, file)
<1>1. Considered(c, s, now)
  BY ConsiderIs
<1>2. StateOK(c, now) /\ c \in HRec /\ (c.start # H!Never => StartsAt(c.start, now)) /\ c.on = s.on /\ c.used \in Nat
  BY <1>1, HRecFields DEF Considered, StateOK
<1>6. c.on /\ c.mode \notin {"dormant", "exiting"} => c.used < Hard
  BY <1>1, <1>2, QuotaConstants DEF Considered
<1> HIDE DEF c
<1>3. CASE ~s.on
  <2>1. H!Act(s, e, file) = c
    BY <1>3 DEF H!Act, c
  <2> QED
    BY <1>1, <1>2, <1>3, <2>1 DEF Acted, Considered
<1>4. CASE s.on
  <2>1. H!Act(s, e, file) = r
    BY <1>4 DEF H!Act, c
  <2>2. Configured(r, c, now, file)
    BY <1>2, ConfigureIs
  <2> HIDE DEF r
  <2>3. StartsAt(H!PeriodStart(now), now) /\ H!PeriodStart(now) \in Nat
    BY StartsRight, PeriodFacts
  <2>4. CASE s.start = H!Never
    <3>1. c.mode \in {"live", "exiting"} /\ c.start = H!Never /\ c.used = 0
      BY <1>1, <2>4, <1>2 DEF Considered, StateOK
    <3>2. r.mode \in {"live", "exiting"} /\ r.used = IF file.start = H!PeriodStart(now) THEN file.used ELSE 0
      BY <3>1, <2>2 DEF Configured
    <3>3. StateOK(r, now)
      BY <2>2, <2>3, <3>2 DEF Configured, StateOK, H!Never
    <3> QED
      BY <2>1, <2>2, <3>2, <3>3, <1>2, <2>4, <1>4 DEF Acted, Configured
  <2>5. CASE s.start # H!Never
    <3>1. c.start # H!Never /\ Renewed(c, s, now) /\ c.end = c.start + Length /\ H!WithWakeup(c) = c
      BY <1>1, <1>2, <2>5 DEF Considered, StateOK
    <3>2. CASE c.start = H!PeriodStart(now)
      <4>1. r = c
        BY <3>1, <3>2, <2>2 DEF Configured
      <4> QED
        BY <4>1, <2>1, <1>2, <1>4, <1>6, <3>1, <3>2, <2>5 DEF Acted
    <3>3. CASE c.start # H!PeriodStart(now)
      <4>1. now >= c.end
        <5>1. now >= c.start + Length
          BY <3>3, <1>2, <3>1, PeriodsApart
        <5> QED
          BY <5>1, <3>1
      <4>2. r.used = 0 /\ r.start = H!PeriodStart(now)
        BY <2>2, <3>1, <3>3 DEF Configured
      <4>3. now >= s.end
        BY <3>1, <3>3, <4>1 DEF Renewed
      <4>4. c.mode # "lowbandwidth" /\ (c.mode = "dormant" => c.until <= now)
        <5>1. c.end \in Int
          BY <1>2, HRecFields
        <5> QED
          BY <1>1, <4>1, <5>1 DEF Considered
      <4>5. StateOK(r, now)
        BY <2>2, <2>3, <4>2, <4>4 DEF Configured, StateOK, H!Never
      <4>6. r.used < Hard
        BY <4>2, QuotaConstants
      <4> QED
        BY <2>1, <2>2, <4>2, <4>3, <4>5, <4>6, <1>2, <2>5, <1>4, <2>3 DEF Acted, Configured, Renewed, H!Never
    <3> QED
      BY <3>2, <3>3
  <2> QED
    BY <2>4, <2>5
<1>5. s.on \in BOOLEAN
  BY HRecFields DEF StateOK
<1> QED
  BY <1>3, <1>4, <1>5

\* What a record tells of an interval, and what is recorded.
LEMMA RecordIs ==
  ASSUME NEW t \in Nat, NEW s, StateOK(s, t)
  PROVE  FileOK(H!Record(s), t) /\ H!Record(s).start = s.start /\ H!Record(s).used = s.used
<1>1. s \in HRec
  BY DEF StateOK
<1>2. H!Record(s) \in FileRec /\ H!Record(s).start = s.start /\ H!Record(s).used = s.used
  BY <1>1 DEF H!Record, FileRec, HRec
<1> QED
  BY <1>2 DEF FileOK, StateOK

LEMMA FileLater ==
  ASSUME NEW t \in Nat, NEW u \in Nat, t <= u, NEW d, FileOK(d, t)
  PROVE  FileOK(d, u)
BY StartsRight DEF FileOK

LEMMA IntervalIs ==
  ASSUME now \in Nat, NEW d, FileOK(d, now)
  PROVE  H!OfInterval(d) \in Nat /\ H!OfInterval(d) = IF d.start = H!PeriodStart(now) THEN d.used ELSE 0
BY DEF H!OfInterval, FileOK, FileRec

LEMMA KnownIs ==
  ASSUME now \in Nat, FileOK(state, now), NEW s, StateOK(s, now)
  PROVE  /\ H!OfInterval(H!Known(s)) \in Nat
         /\ s.start = H!Never => H!OfInterval(H!Known(s)) = H!OfInterval(state)
         /\ s.start # H!Never => H!OfInterval(H!Known(s)) = IF s.start = H!PeriodStart(now) THEN s.used ELSE 0
<1>1. H!Record(state).start = state.start /\ H!Record(state).used = state.used
  BY DEF H!Record
<1>2. H!Record(s).start = s.start /\ H!Record(s).used = s.used
  BY DEF H!Record
<1>3. s.used \in Nat /\ state.used \in Nat
  BY HRecFields DEF StateOK, FileOK, FileRec
<1> QED
  BY <1>1, <1>2, <1>3 DEF H!Known, H!OfInterval

\* The state with another switch or other bytes used.
Altered(r, s, b, n, u) ==
  /\ StateOK(r, u) /\ r.on = b /\ r.used = n /\ r.start = s.start /\ r.end = s.end
  /\ r.wake = s.wake /\ r.mode = s.mode

LEMMA StateAltered ==
  ASSUME NEW t \in Nat, NEW u \in Nat, t <= u, NEW s, StateOK(s, t), NEW b \in BOOLEAN, NEW n \in Nat, n >= s.used,
         s.start = H!Never => n = s.used, NEW r, r = [s EXCEPT !.on = b, !.used = n]
  PROVE  Altered(r, s, b, n, u)
<1>1. s \in HRec /\ s.used \in Nat /\ s.until \in Int /\ s.start \in Int
  BY HRecFields DEF StateOK
<1>2. r \in HRec /\ r.on = b /\ r.used = n /\ r.start = s.start /\ r.end = s.end
      /\ r.wake = s.wake /\ r.mode = s.mode /\ r.until = s.until /\ r.expected = s.expected
  BY <1>1 DEF HRec
<1>3. s.start # H!Never => H!WithWakeup(r) = r
  <2> SUFFICES ASSUME s.start # H!Never PROVE H!WithWakeup(r) = r
    OBVIOUS
  <2>1. H!WithWakeup(s) = s
    BY DEF StateOK
  <2> DEFINE k == IF s.expected = 0 THEN 0 ELSE (s.end - s.start) - Hard \div s.expected
             w == s.start + IF k <= 0 THEN 0 ELSE draw % k
  <2>2. [s EXCEPT !.wake = w] = s
    BY <2>1 DEF H!WithWakeup
  <2>3. [s EXCEPT !.wake = w].wake = w
    BY <1>1 DEF HRec
  <2>4. w = s.wake
    BY <2>2, <2>3
  <2>5. H!WithWakeup(r) = [r EXCEPT !.wake = w]
    BY <1>2 DEF H!WithWakeup
  <2> HIDE DEF w
  <2>6. [r EXCEPT !.wake = w] = r
    BY <1>2, <2>4 DEF HRec
  <2> QED
    BY <2>5, <2>6
<1>4. s.start # H!Never => StartsAt(s.start, u)
  BY <1>1 DEF StateOK, StartsAt
<1>5. StateOK(r, u)
  <2>1. s.start = H!Never => r.mode \in {"initial", "live", "exiting"} /\ r.used = 0 /\ r.wake = 0
    BY <1>2 DEF StateOK
  <2>2. s.start # H!Never => r.end = r.start + Length
    BY <1>2 DEF StateOK
  <2>3. r.mode = "dormant" => r.until <= u \/ r.until = r.wake \/ (r.until = r.end /\ r.used >= Hard)
    BY <1>1, <1>2, QuotaConstants DEF StateOK
  <2>4. r.mode = "lowbandwidth" => r.until = r.end
    BY <1>2 DEF StateOK
  <2> QED
    BY <1>2, <1>3, <1>4, <2>1, <2>2, <2>3, <2>4 DEF StateOK
<1> QED
  BY <1>2, <1>5 DEF Altered

\* What is known of the interval, where the period is renewed.
LEMMA KnownKept ==
  ASSUME NEW t \in Nat, NEW s, StateOK(s, t), s.start # H!Never, NEW r, Renewed(r, s, t)
  PROVE  (IF r.start = H!PeriodStart(t) THEN r.used ELSE 0)
           = (IF s.start = H!PeriodStart(t) THEN s.used ELSE 0)
<1>1. CASE r.start = s.start /\ r.used = s.used
  BY <1>1
<1>2. CASE r.start = H!PeriodStart(t) /\ t >= s.end /\ r.used = 0
  <2>1. t < H!PeriodStart(t) + Length /\ H!PeriodStart(t) \in Nat /\ Length \in Nat \ {0}
    BY PeriodFacts, QuotaConstants
  <2>2. s.start # H!PeriodStart(t)
    BY <2>1, <1>2 DEF StateOK
  <2> QED
    BY <2>2, <1>2
<1> QED
  BY <1>1, <1>2 DEF Renewed

LEMMA OffOK ==
  ASSUME NEW t \in Nat, NEW b \in BOOLEAN
  PROVE  StateOK(H!Off(b), t) /\ H!Off(b).on = b /\ H!Off(b).start = H!Never /\ H!Off(b).used = 0 /\ H!Off(b).mode = "initial"
  BY DEF StateOK, H!Off, H!Never, HRec, Modes

LEMMA InitQuotaInv == H!Init => QuotaInv
<1> SUFFICES ASSUME H!Init PROVE QuotaInv
  OBVIOUS
<1>1. now \in Nat /\ draw \in Nat /\ Length \in Nat \ {0}
  BY QuotaConstants DEF H!Init
<1>2. StateOK(h, now) /\ h.on = TRUE /\ h = H!Off(h.on) /\ h.start = H!Never
  BY <1>1, OffOK DEF H!Init
<1>3. FileOK(state, now) /\ FileOK(disk, now)
  BY <1>1, NothingOK DEF H!Init
<1>4. /\ up = FALSE /\ settled = FALSE /\ fresh = FALSE /\ state = H!Nothing
      /\ total = 0 /\ lost = 0 /\ exempt = 0 /\ events = 0
  BY DEF H!Init
<1>5. Remembered = 0
  BY PeriodFacts, <1>1 DEF H!Init, Remembered, H!OfInterval, H!Nothing, H!Never
<1>6. H!QuotaKept
  BY <1>4, QuotaConstants DEF H!QuotaKept
<1>7. QuotaTypes
  BY <1>1, <1>2, <1>3, <1>4 DEF QuotaTypes
<1>8. Recorded
  BY <1>2, <1>4 DEF Recorded
<1>9. Counted
  BY <1>4, <1>5, <1>6 DEF Counted
<1>10. Settled
  BY <1>4 DEF Settled
<1> QED
  BY <1>7, <1>8, <1>9, <1>10 DEF QuotaInv

\* The state after options_act, from s with the interval of h.
LEMMA ActSteps ==
  ASSUME QuotaInv, NEW e \in Nat, NEW s, StateOK(s, now), s.start = h.start, s.used = h.used,
         up \/ h.start = H!Never, NEW file, FileOK(file, now),
         h' = H!Act(s, e, file), up' = TRUE, settled' = FALSE, fresh' = (h.start = H!Never),
         FileOK(state', now), h.start = H!Never => state' = file /\ file = IF up THEN state ELSE disk,
         UNCHANGED <<now, disk, draw, total, lost, exempt>>, events' \in Nat
  PROVE  QuotaInv'
<1>1. /\ now \in Nat /\ draw \in Nat /\ total \in Nat /\ lost \in Nat /\ exempt \in Nat
      /\ FileOK(disk, now) /\ FileOK(state, now) /\ StateOK(h, now) /\ H!QuotaKept /\ total <= Remembered + lost
  BY DEF QuotaInv, QuotaTypes, Counted
<1>2. Acted(h', s, now, file)
  BY <1>1, ActIs
<1>3. StateOK(h', now) /\ h'.on = s.on
  BY <1>2 DEF Acted
<1>4. StateOK(h, now)' /\ FileOK(state, now)' /\ FileOK(disk, now)'
  BY <1>1, <1>3 DEF StateOK, H!WithWakeup
<1>5. now' \in Nat /\ H!PeriodStart(now)' = H!PeriodStart(now) /\ H!PeriodStart(now) # H!Never
  BY <1>1, PeriodFacts DEF H!PeriodStart, H!Never
<1>6. QuotaTypes'
  BY <1>1, <1>4 DEF QuotaTypes
<1>7. Recorded'
  BY <1>2, <1>5 DEF Recorded, Acted
<1>8. Remembered' = Remembered
  <2>1. Remembered' = H!OfInterval(H!Known(h))'
    BY DEF Remembered
  <2>2. \A d : H!OfInterval(d)' = IF d'.start = H!PeriodStart(now) THEN d'.used ELSE 0
    BY <1>5 DEF H!OfInterval
  <2>3. /\ h'.start = H!Never => Remembered' = IF state'.start = H!PeriodStart(now) THEN state'.used ELSE 0
        /\ h'.start # H!Never => Remembered' = IF h'.start = H!PeriodStart(now) THEN h'.used ELSE 0
    BY <1>5, <2>1 DEF H!OfInterval, H!Known, H!Record
  <2>4. CASE s.start # H!Never
    <3>1. Renewed(h', s, now) /\ h'.start # H!Never /\ up
      BY <1>2, <2>4 DEF Acted
    <3>2. (IF h'.start = H!PeriodStart(now) THEN h'.used ELSE 0)
           = (IF s.start = H!PeriodStart(now) THEN s.used ELSE 0)
      BY <3>1, <2>4, <1>1, KnownKept
    <3>3. Remembered = IF h.start = H!PeriodStart(now) THEN h.used ELSE 0
      BY <3>1, <2>4, <1>1, KnownIs DEF Remembered
    <3> QED
      BY <3>1, <3>2, <3>3, <2>3
  <2>5. CASE s.start = H!Never
    <3>1. Remembered = H!OfInterval(file)
      BY <2>5, <1>1, KnownIs DEF Remembered
    <3>2. Remembered = IF file.start = H!PeriodStart(now) THEN file.used ELSE 0
      BY <3>1 DEF H!OfInterval
    <3>3. CASE s.on
      BY <1>2, <1>5, <2>3, <2>5, <3>2, <3>3 DEF Acted
    <3>4. CASE ~s.on
      BY <1>2, <2>3, <2>5, <3>2, <3>4 DEF Acted
    <3> QED
      BY <3>3, <3>4
  <2> QED
    BY <2>4, <2>5
<1>9. Counted'
  <2>1. H!QuotaKept'
    BY <1>1 DEF H!QuotaKept
  <2>2. total' <= Remembered' + lost'
    BY <1>1, <1>8
  <2>3. h'.on /\ ~fresh' /\ h'.mode \notin {"dormant", "exiting"} => h'.used < Hard
    BY <1>2 DEF Acted
  <2> QED
    BY <2>1, <2>2, <2>3 DEF Counted
<1>10. Settled'
  BY DEF Settled
<1> QED
  BY <1>6, <1>7, <1>9, <1>10 DEF QuotaInv

LEMMA StartsUp == ASSUME QuotaInv, NEW e \in Nat, H!StartUp(e) PROVE QuotaInv'
<1>1. ~up /\ h = H!Off(h.on) /\ h.on \in BOOLEAN /\ StateOK(h, now) /\ FileOK(disk, now) /\ events \in Nat
  BY HRecFields DEF QuotaInv, QuotaTypes, Recorded, H!StartUp, StateOK
<1>2. h.start = H!Never
  BY <1>1 DEF H!Off
<1> QED
  BY <1>1, <1>2, ActSteps DEF H!StartUp

LEMMA SetsAccountingMax == ASSUME QuotaInv, NEW e \in Nat, H!SetAccountingMax(e) PROVE QuotaInv'
<1> DEFINE s == H!Switched(h)
           c == H!Consider(s, now, e)
<1>1. /\ h \in HRec /\ h.used \in Nat /\ h.on \in BOOLEAN /\ StateOK(h, now) /\ now \in Nat /\ events \in Nat
      /\ FileOK(state, now) /\ draw \in Nat
  BY HRecFields DEF QuotaInv, QuotaTypes, StateOK
<1>2. /\ up /\ up' = TRUE /\ settled' = FALSE /\ fresh' = (h.start = H!Never) /\ h' = H!Act(s, e, state)
      /\ state' = H!Noted(h, c) /\ events' \in Nat /\ UNCHANGED <<now, disk, draw, total, lost, exempt>>
  BY <1>1 DEF H!SetAccountingMax
<1>3. StateOK(s, now) /\ s.used = h.used /\ s.start = h.start /\ s.mode = h.mode
  <2> DEFINE b == ~h.on
  <2>1. s = [h EXCEPT !.on = b, !.used = h.used]
    BY <1>1 DEF HRec, H!Switched
  <2>2. b \in BOOLEAN /\ h.used >= h.used /\ now <= now
    BY <1>1
  <2> HIDE DEF s, b
  <2>3. Altered(s, h, b, h.used, now)
    BY <1>1, <2>1, <2>2, StateAltered
  <2> QED
    BY <2>3 DEF Altered
<1> HIDE DEF s
<1>4. Considered(c, s, now)
  BY <1>1, <1>3, ConsiderIs
<1> HIDE DEF c
<1>5. FileOK(state', now)
  <2>1. FileOK(H!Record(c), now)
    BY <1>1, <1>4, RecordIs DEF Considered
  <2> QED
    BY <1>1, <1>2, <2>1 DEF H!Noted
<1>6. h.start = H!Never => state' = state
  BY <1>2, <1>3, <1>4 DEF H!Noted, Considered
<1> QED
  BY <1>1, <1>2, <1>3, <1>5, <1>6, ActSteps

LEMMA PeriodsLater ==
  ASSUME NEW s \in Nat, NEW t \in Nat, s <= t
  PROVE  H!PeriodStart(s) <= H!PeriodStart(t) /\ H!PeriodStart(s) \in Nat /\ H!PeriodStart(t) \in Nat
<1>1. StartsAt(H!PeriodStart(s), t)
  BY StartsRight
<1> QED
  BY <1>1, StartsRight, PeriodFacts

\* The program ends, with n bytes that have not been counted in the interval.
LEMMA EndOfRun ==
  ASSUME QuotaInv, NEW s, StateOK(s, now), NEW n \in Nat, NEW image, FileOK(image, now),
         NEW t \in Nat, now <= t, H!Ends(s, n, image, t), events' \in Nat,
         total + n <= H!OfInterval(H!Known(s)) + lost
  PROVE  QuotaInv'
<1> DEFINE k == H!OfInterval(H!Known(s))
           p == H!OfInterval(image)
           f == H!Forgotten(s, image)
<1>1. /\ now \in Nat /\ draw \in Nat /\ total \in Nat /\ lost \in Nat /\ exempt \in Nat
      /\ FileOK(state, now) /\ H!QuotaKept
  BY DEF QuotaInv, QuotaTypes, Counted
<1>2. /\ up' = FALSE /\ now' = t /\ h' = H!Off(s.on) /\ state' = H!Nothing /\ settled' = FALSE /\ fresh' = FALSE
      /\ disk' = image /\ draw' = draw
  BY DEF H!Ends
<1>3. s.on \in BOOLEAN
  BY HRecFields DEF StateOK
<1>4. k \in Nat /\ p \in Nat /\ f \in Nat /\ k <= p + f
  <2>1. k \in Nat /\ p \in Nat
    BY <1>1, KnownIs, IntervalIs
  <2>2. f = H!Most(0, k - p)
    BY DEF H!Forgotten
  <2> HIDE DEF k, p, f
  <2> QED
    BY <2>1, <2>2 DEF H!Most
<1>5. StateOK(h, now)' /\ h' = H!Off(h'.on)
  <2>1. StateOK(h', t) /\ h'.on = s.on
    BY <1>2, <1>3, OffOK
  <2> QED
    BY <2>1, <1>2 DEF StateOK, H!WithWakeup
<1>6. FileOK(disk, now)' /\ FileOK(state, now)'
  BY <1>1, <1>2, FileLater, NothingOK
<1>7. H!PeriodStart(now)' = H!PeriodStart(t)
  BY <1>2 DEF H!PeriodStart
<1>8. Remembered' = IF image.start = H!PeriodStart(t) THEN image.used ELSE 0
  BY <1>2, <1>7 DEF Remembered, H!OfInterval
<1>9. image.used \in Nat
  BY DEF FileOK, FileRec
<1>10. total' \in Nat /\ lost' \in Nat /\ exempt' \in Nat /\ total' <= Remembered' + lost' /\ H!QuotaKept'
  <2>1. CASE H!PeriodStart(t) # H!PeriodStart(now)
    <3>1. total' = 0 /\ lost' = 0 /\ exempt' = 0
      BY <2>1 DEF H!Ends
    <3> QED
      BY <3>1, <1>8, <1>9, QuotaConstants DEF H!QuotaKept
  <2>2. CASE H!PeriodStart(t) = H!PeriodStart(now)
    <3>1. total' = total + n /\ lost' = lost + f /\ exempt' = exempt + n
      BY <2>2 DEF H!Ends
    <3>2. Remembered' = p
      BY <1>8, <2>2 DEF H!OfInterval
    <3>3. total + n <= k + lost
      OBVIOUS
    <3> HIDE DEF k, p, f
    <3>4. total' <= Remembered' + lost'
      BY <3>1, <3>2, <3>3, <1>1, <1>4
    <3>5. H!QuotaKept'
      BY <3>1, <1>1, <1>4, QuotaConstants DEF H!QuotaKept
    <3> QED
      BY <3>1, <3>4, <3>5, <1>1, <1>4
  <2> QED
    BY <2>1, <2>2
<1>11. QuotaTypes'
  BY <1>1, <1>2, <1>5, <1>6, <1>10 DEF QuotaTypes
<1>12. Recorded' /\ Counted' /\ Settled'
  BY <1>2, <1>5, <1>10 DEF Recorded, Counted, Settled
<1> QED
  BY <1>11, <1>12 DEF QuotaInv

\* The state with the bytes of a second.
CarriedTo(s, n, t) ==
  /\ StateOK(s, t) /\ s.on = h.on /\ s.start = h.start /\ s.end = h.end /\ s.mode = h.mode
  /\ s.used = IF h.on THEN h.used + n ELSE h.used
LEMMA CarriedIs ==
  ASSUME StateOK(h, now), h.start = H!Never => ~h.on, NEW n \in Nat, now \in Nat, NEW t \in Nat, now <= t
  PROVE  CarriedTo(H!Carried(n), n, t)
<1> DEFINE b == h.on
           m == IF h.on THEN h.used + n ELSE h.used
           s == H!Carried(n)
<1>1. h \in HRec /\ h.on \in BOOLEAN /\ h.used \in Nat
  BY HRecFields DEF StateOK
<1>2. b \in BOOLEAN /\ m \in Nat /\ m >= h.used /\ (h.start = H!Never => m = h.used)
  BY <1>1
<1>3. s = [h EXCEPT !.on = b, !.used = m]
  BY <1>1 DEF HRec, H!Carried
<1> HIDE DEF b, m, s
<1>4. Altered(s, h, b, m, t)
  BY <1>1, <1>2, <1>3, StateAltered
<1> QED
  BY <1>4 DEF Altered, CarriedTo, b, m, s

LEMMA Crashes == ASSUME QuotaInv, NEW t \in Nat, now <= t, H!Crash(t) PROVE QuotaInv'
<1>1. /\ StateOK(h, now) /\ FileOK(disk, now) /\ events \in Nat /\ total \in Nat /\ up
      /\ total <= Remembered + lost /\ H!Ends(h, 0, disk, t) /\ events' = events + 1
  BY DEF QuotaInv, QuotaTypes, Counted, H!Crash, H!Ends
<1>2. total + 0 <= H!OfInterval(H!Known(h)) + lost
  BY <1>1 DEF Remembered
<1> QED
  BY <1>1, <1>2, EndOfRun

LEMMA StateClean ==
  ASSUME now \in Nat, FileOK(state, now), NEW s, StateOK(s, now)
  PROVE  FileOK(H!Cleanly(s), now)
BY RecordIs DEF H!Cleanly

LEMMA Stops ==
  ASSUME QuotaInv, NEW t \in Nat, now <= t, NEW s \in {h, H!Switched(h)}, H!Stop(s, t)
  PROVE  QuotaInv'
<1>1. /\ StateOK(h, now) /\ FileOK(state, now) /\ now \in Nat /\ events \in Nat /\ total \in Nat /\ up
      /\ total <= Remembered + lost /\ H!Ends(s, 0, H!Cleanly(s), t) /\ events' = events
  BY DEF QuotaInv, QuotaTypes, Counted, H!Stop, H!Ends
<1>2. StateOK(s, now) /\ s.start = h.start /\ s.used = h.used
  <2>1. CASE s = h
    BY <2>1, <1>1
  <2>2. CASE s = H!Switched(h)
    <3> DEFINE b == ~h.on
    <3>1. h \in HRec /\ h.used \in Nat
      BY <1>1, HRecFields DEF StateOK
    <3>2. s = [h EXCEPT !.on = b, !.used = h.used]
      BY <2>2, <3>1 DEF HRec, H!Switched
    <3>3. b \in BOOLEAN /\ h.used >= h.used /\ now <= now
      BY <1>1, <3>1
    <3> HIDE DEF b
    <3>4. Altered(s, h, b, h.used, now)
      BY <1>1, <3>1, <3>2, <3>3, StateAltered
    <3> QED
      BY <3>4 DEF Altered
  <2> QED
    BY <2>1, <2>2
<1>3. H!OfInterval(H!Known(s)) = H!OfInterval(H!Known(h))
  BY <1>1, <1>2, KnownIs
<1>4. total + 0 <= H!OfInterval(H!Known(s)) + lost
  BY <1>1, <1>3 DEF Remembered
<1>5. FileOK(H!Cleanly(s), now)
  BY <1>1, <1>2, StateClean
<1> QED
  BY <1>1, <1>2, <1>4, <1>5, EndOfRun

LEMMA LastSeconds ==
  ASSUME QuotaInv, NEW n \in 0 .. PerSecond, NEW t \in Nat, H!LastSecond(n, t)
  PROVE  QuotaInv'
<1> DEFINE s == H!Carried(n)
           k == IF h.on THEN n ELSE 0
<1>1. /\ StateOK(h, now) /\ FileOK(state, now) /\ now \in Nat /\ total \in Nat /\ lost \in Nat /\ up
      /\ total <= Remembered + lost /\ H!Ends(s, k, H!Cleanly(s), t) /\ events' \in Nat
      /\ (h.start = H!Never => ~h.on) /\ (h.on => h.start = H!PeriodStart(now)) /\ now <= t
  BY DEF QuotaInv, QuotaTypes, Recorded, Counted, H!LastSecond, H!Ends
<1>2. n \in Nat /\ h.on \in BOOLEAN /\ h.used \in Nat
  BY <1>1, QuotaConstants, HRecFields DEF StateOK
<1>3. CarriedTo(s, n, now)
  BY <1>1, <1>2, CarriedIs
<1> HIDE DEF s
<1>4. StateOK(s, now) /\ s.start = h.start /\ s.used = (IF h.on THEN h.used + n ELSE h.used)
  BY <1>3 DEF CarriedTo
<1>5. k \in Nat
  BY <1>2
<1>6. total + k <= H!OfInterval(H!Known(s)) + lost
  <2> DEFINE a == H!OfInterval(H!Known(h))
             b == H!OfInterval(H!Known(s))
  <2>1. total <= a + lost
    BY <1>1 DEF Remembered
  <2>2. CASE h.on
    <3>1. h.start = H!PeriodStart(now) /\ h.start # H!Never
      BY <1>1, <2>2
    <3>2. a = h.used /\ b = h.used + n
      BY <3>1, <2>2, <1>1, <1>4, KnownIs
    <3> HIDE DEF a, b
    <3>3. total + n <= b + lost
      BY <2>1, <3>2, <1>1, <1>2
    <3> QED
      BY <3>3, <2>2 DEF b
  <2>3. CASE ~h.on
    <3>1. a = b
      BY <2>3, <1>1, <1>4, KnownIs
    <3> HIDE DEF a, b
    <3>2. total + 0 <= b + lost
      BY <2>1, <3>1, <1>1
    <3> QED
      BY <3>2, <2>3 DEF b
  <2> QED
    BY <2>2, <2>3
<1>7. FileOK(H!Cleanly(s), now)
  BY <1>1, <1>4, StateClean
<1> HIDE DEF k
<1> QED
  BY <1>1, <1>4, <1>5, <1>6, <1>7, EndOfRun

LEMMA Interrupts == ASSUME QuotaInv, H!Interrupt PROVE QuotaInv'
<1> DEFINE a == H!OfInterval(H!Known(h))
           p == H!OfInterval(H!Record(h))
           f == H!Forgotten(h, H!Record(h))
           u == now + ShutdownWait
<1>1. /\ StateOK(h, now) /\ h \in HRec /\ FileOK(state, now) /\ FileOK(disk, now) /\ now \in Nat /\ total \in Nat
      /\ lost \in Nat /\ exempt \in Nat /\ total <= Remembered + lost /\ H!QuotaKept
      /\ (h.start = H!Never => ~h.on) /\ (h.on => h.start = H!PeriodStart(now)) /\ up /\ h.mode = "live"
  BY DEF QuotaInv, QuotaTypes, Recorded, Counted, H!Interrupt, StateOK
<1>2. /\ h' = H!Begin(h, "exiting", now) /\ state' = H!Record(h) /\ lost' = lost + f
      /\ UNCHANGED <<now, up, disk, draw, settled, fresh, total, exempt, events>>
  BY DEF H!Interrupt
<1>3. FileOK(H!Record(h), now) /\ H!Record(h).start = h.start /\ H!Record(h).used = h.used
  BY <1>1, RecordIs
<1>4. a \in Nat /\ p \in Nat /\ f \in Nat /\ a <= p + f
  <2>1. a \in Nat /\ p \in Nat
    BY <1>1, <1>3, KnownIs, IntervalIs
  <2>2. f = H!Most(0, a - p)
    BY DEF H!Forgotten
  <2> HIDE DEF a, p, f
  <2> QED
    BY <2>1, <2>2 DEF H!Most
<1>5. /\ h' \in HRec /\ h'.mode = "exiting" /\ h'.on = h.on /\ h'.start = h.start /\ h'.used = h.used
      /\ h'.end = h.end /\ h'.wake = h.wake /\ h'.expected = h.expected
      /\ h'.until = h.until
  <2>1. u \in Int
    BY <1>1, QuotaConstants
  <2>2. h' = [h EXCEPT !.mode = "exiting", !.stop = u]
    BY <1>2 DEF H!Begin
  <2> HIDE DEF u
  <2> QED
    BY <2>1, <2>2, <1>1 DEF HRec, Modes
<1>6. StateOK(h', now)
  <2>1. h.start # H!Never => H!WithWakeup(h') = h'
    <3> SUFFICES ASSUME h.start # H!Never PROVE H!WithWakeup(h') = h'
      OBVIOUS
    <3>1. H!WithWakeup(h) = h
      BY <1>1 DEF StateOK
    <3> DEFINE k == IF h.expected = 0 THEN 0 ELSE (h.end - h.start) - Hard \div h.expected
               w == h.start + IF k <= 0 THEN 0 ELSE draw % k
    <3>2. [h EXCEPT !.wake = w] = h
      BY <3>1 DEF H!WithWakeup
    <3>3. [h EXCEPT !.wake = w].wake = w
      BY <1>1 DEF HRec
    <3>4. w = h.wake
      BY <3>2, <3>3
    <3>5. H!WithWakeup(h') = [h' EXCEPT !.wake = w]
      BY <1>5 DEF H!WithWakeup
    <3> HIDE DEF w
    <3>6. [h' EXCEPT !.wake = w] = h'
      BY <1>5, <3>4 DEF HRec
    <3> QED
      BY <3>5, <3>6
  <2> QED
    BY <1>1, <1>5, <2>1 DEF StateOK
<1>7. StateOK(h, now)' /\ FileOK(state, now)' /\ FileOK(disk, now)'
  BY <1>1, <1>2, <1>3, <1>6 DEF StateOK, H!WithWakeup
<1>8. Remembered' = p
  BY <1>1, <1>2, <1>5 DEF Remembered, H!OfInterval, H!Known, H!Record, H!PeriodStart
<1>9. QuotaTypes'
  <2>1. lost' \in Nat
    <3> HIDE DEF f
    <3> QED
      BY <1>1, <1>2, <1>4
  <2> QED
    BY <2>1, <1>2, <1>7 DEF QuotaInv, QuotaTypes
<1>10. Recorded'
  <2>1. H!PeriodStart(now)' = H!PeriodStart(now)
    BY <1>2 DEF H!PeriodStart
  <2> QED
    BY <2>1, <1>1, <1>2, <1>5 DEF Recorded
<1>11. Counted'
  <2>1. total <= a + lost
    BY <1>1 DEF Remembered
  <2> HIDE DEF a, p, f
  <2>2. total' <= Remembered' + lost'
    BY <2>1, <1>1, <1>2, <1>4, <1>8
  <2>3. H!QuotaKept'
    BY <1>1, <1>2, <1>4, QuotaConstants DEF H!QuotaKept
  <2> QED
    BY <2>2, <2>3, <1>5 DEF Counted
<1>12. Settled'
  BY <1>2, <1>5 DEF Settled, QuotaInv
<1> QED
  BY <1>9, <1>10, <1>11, <1>12 DEF QuotaInv

\* What a second makes of the state: s is h with the second's bytes.
Kept(r, c, s, t) ==
  /\ StateOK(r, t) /\ r.on = s.on /\ (r.start = H!Never <=> s.start = H!Never)
  /\ s.start = H!Never => c.mode \in {"live", s.mode} /\ r = c /\ r.used = s.used
  /\ s.start # H!Never => Renewed(r, s, t) /\ Renewed(r, c, t)
  /\ s.on => r.start = H!PeriodStart(t)
  /\ r.on /\ r.used >= Hard => r.mode \in {"dormant", "exiting"}
  /\ r.on /\ r.start = c.start =>
       /\ r.mode # "exiting" =>
            /\ t < r.wake => r.mode \in {"dormant", "lowbandwidth"}
            /\ r.mode = "dormant" => r.used >= Hard \/ t < r.wake
       /\ t < r.end

LEMMA KeepsInterval ==
  ASSUME NEW t \in Nat, NEW e \in Nat, NEW s, StateOK(s, t), s.on => s.start # H!Never, draw \in Nat,
         NEW c, c = H!Consider(s, t, e), NEW r, r = IF s.on THEN H!Housekeeping(c, t, e) ELSE c
  PROVE  Considered(c, s, t) /\ Kept(r, c, s, t)
<1>1. Considered(c, s, t)
  BY ConsiderIs
<1>2. StateOK(c, t) /\ c.on = s.on /\ c.on \in BOOLEAN /\ c.used \in Nat /\ c.end \in Int /\ c.wake \in Int
  BY <1>1, HRecFields DEF Considered, StateOK
<1>3. CASE ~s.on
  <2>1. r = c
    BY <1>3
  <2>2. s.start = H!Never => c.mode \in {"live", s.mode} /\ c.used = s.used
    BY <1>1 DEF Considered
  <2>3. Renewed(c, c, t)
    BY DEF Renewed
  <2> QED
    BY <1>1, <1>2, <1>3, <2>1, <2>2, <2>3 DEF Kept, Considered
<1>4. CASE s.on
  <2>1. s.start # H!Never /\ c.start # H!Never /\ r = H!Housekeeping(c, t, e) /\ c.on /\ Renewed(c, s, t)
    BY <1>1, <1>4, <1>2 DEF Considered
  <2>2. /\ r \in HRec /\ r.mode = c.mode /\ r.on = c.on /\ r.until = c.until
        /\ StartsAt(r.start, t) /\ r.start \in Nat /\ r.start # H!Never
        /\ r.end = r.start + Length /\ H!WithWakeup(r) = r /\ t < r.end
        /\ t < c.end => r = c
        /\ t >= c.end => r.start = H!PeriodStart(t) /\ r.used = 0
        /\ Renewed(r, c, t)
    <3>1. Housekept(r, c, t)
      BY <2>1, <1>2, HousekeepingIs
    <3> QED
      BY <3>1 DEF Housekept
  <2>3. c.end = c.start + Length /\ StartsAt(c.start, t) /\ c.start \in Nat /\ Length \in Nat \ {0} /\ Hard \in Nat \ {0}
    BY <2>1, <1>2, QuotaConstants DEF StateOK, StartsAt
  <2>4. CASE t < c.end
    <3>1. r = c
      BY <2>2, <2>4
    <3>2. c.start = H!PeriodStart(t)
      BY <2>3, <2>4, PeriodsApart
    <3> QED
      <4>1. Renewed(c, c, t)
        BY DEF Renewed
      <4> QED
        BY <4>1, <3>1, <3>2, <1>1, <1>2, <2>1, <2>4, <1>4 DEF Kept, Considered
  <2>5. CASE t >= c.end
    <3>1. r.start = H!PeriodStart(t) /\ r.used = 0 /\ H!PeriodStart(t) \in Nat /\ t < H!PeriodStart(t) + Length
      BY <2>2, <2>5, PeriodFacts
    <3>2. c.start # H!PeriodStart(t)
      BY <2>3, <2>5, <3>1
    <3>3. t >= s.end
      BY <2>1, <3>2, <2>5 DEF Renewed
    <3>4. r.mode # "lowbandwidth" /\ (r.mode = "dormant" => r.until <= t)
      BY <1>1, <2>2, <2>5, <1>2 DEF Considered
    <3>5. StateOK(r, t)
      BY <2>2, <3>4 DEF StateOK
    <3>6. Renewed(r, s, t)
      BY <3>1, <3>3 DEF Renewed
    <3>7. r.start # c.start /\ ~(r.used >= Hard)
      BY <3>1, <3>2, <2>3
    <3>8. r.on = s.on /\ r.start # H!Never /\ s.start # H!Never
      BY <2>1, <2>2, <1>2
    <3>9. Kept(r, c, s, t)
      BY <2>2, <3>1, <3>5, <3>6, <3>7, <3>8 DEF Kept
    <3> QED
      BY <3>9, <1>1
  <2> QED
    BY <2>4, <2>5, <1>2, <2>3
<1> QED
  BY <1>1, <1>3, <1>4

LEMMA SecondPasses ==
  ASSUME QuotaInv, NEW n \in 0 .. PerSecond, NEW e \in Nat, NEW note \in BOOLEAN, NEW save \in BOOLEAN,
         H!Second(n, e, note, save)
  PROVE  QuotaInv'
<1> DEFINE t == now + 1
           s == H!Carried(n)
           c == H!Consider(s, t, e)
           r == IF h.on THEN H!Housekeeping(c, t, e) ELSE c
           recorded == IF h.on /\ (note \/ r.end <= t) THEN H!Record(r) ELSE H!Noted(h, c)
           same == H!PeriodStart(t) = H!PeriodStart(now)
           k == IF h.on THEN n ELSE 0
           free == fresh \/ h.mode \in {"exiting", "dormant"}
<1>1. /\ now \in Nat /\ draw \in Nat /\ events \in Nat /\ total \in Nat /\ lost \in Nat /\ exempt \in Nat
      /\ FileOK(state, now) /\ FileOK(disk, now) /\ StateOK(h, now) /\ up /\ fresh \in BOOLEAN
      /\ total <= Remembered + lost /\ H!QuotaKept /\ (h.start = H!Never => ~h.on)
      /\ (h.on => h.start = H!PeriodStart(now))
      /\ (h.on /\ ~free => h.used < Hard)
  BY DEF QuotaInv, QuotaTypes, Recorded, Counted, H!Second
<1>2. /\ up' = up /\ events' = events /\ now' = t /\ h' = r /\ state' = recorded /\ draw' = draw
      /\ disk' = (IF save THEN recorded ELSE disk) /\ settled' = (r.start = c.start) /\ fresh' = FALSE
      /\ total' = (IF same THEN total + k ELSE 0)
      /\ lost' = (IF same THEN lost ELSE 0)
      /\ exempt' = (IF ~same THEN 0 ELSE IF free THEN exempt + k ELSE exempt)
  BY DEF H!Second
<1>3. h \in HRec /\ h.on \in BOOLEAN /\ h.used \in Nat /\ h.start \in Int /\ n \in Nat /\ t \in Nat /\ now <= t
      /\ PerSecond \in Nat /\ Hard \in Nat \ {0} /\ Length \in Nat \ {0} /\ k \in Nat /\ n <= PerSecond /\ k <= PerSecond
  BY <1>1, HRecFields, QuotaConstants DEF StateOK
<1>4. /\ StateOK(s, t) /\ s.on = h.on /\ s.start = h.start /\ s.end = h.end /\ s.mode = h.mode
      /\ s.used = (IF h.on THEN h.used + n ELSE h.used)
  <2>1. CarriedTo(s, n, t)
    BY <1>1, <1>3, CarriedIs
  <2> QED
    BY <2>1 DEF CarriedTo
<1> HIDE DEF s
<1>5. Considered(c, s, t) /\ Kept(r, c, s, t)
  <2>1. r = IF s.on THEN H!Housekeeping(c, t, e) ELSE c
    BY <1>4
  <2>2. s.on => s.start # H!Never
    BY <1>1, <1>4
  <2> HIDE DEF r
  <2> QED
    BY <1>1, <1>3, <1>4, <2>1, <2>2, KeepsInterval
<1> HIDE DEF c, r
<1>6. StateOK(c, t) /\ StateOK(r, t) /\ r.on = h.on /\ c.on = h.on
  BY <1>4, <1>5 DEF Considered, Kept
<1>7. r \in HRec /\ r.start \in Int /\ r.used \in Nat
  BY <1>6, HRecFields DEF StateOK
<1>8. H!PeriodStart(now) \in Nat /\ H!PeriodStart(t) \in Nat /\ H!PeriodStart(now)' = H!PeriodStart(t)
      /\ H!Never = -1
  BY <1>1, <1>2, <1>3, PeriodFacts DEF H!PeriodStart, H!Never
<1>9. h.start # H!Never => Renewed(r, s, t) /\ r.start # H!Never
  BY <1>4, <1>5 DEF Kept
<1>10. h.start = H!Never => r.start = H!Never /\ ~h.on /\ recorded = state
  BY <1>1, <1>4, <1>5 DEF Kept, H!Noted
<1>11. FileOK(state, t) /\ FileOK(disk, t)
  BY <1>1, <1>3, FileLater
<1>12. FileOK(recorded, t)
  <2>1. FileOK(H!Record(r), t) /\ FileOK(H!Record(c), t)
    BY <1>3, <1>6, RecordIs
  <2> QED
    BY <1>11, <2>1 DEF H!Noted
<1> HIDE DEF recorded
<1>13. FileOK(state, now)' /\ FileOK(disk, now)'
  <2>1. state' = recorded /\ disk' \in {recorded, disk}
    BY <1>2
  <2> QED
    BY <1>2, <1>11, <1>12, <2>1
<1>14. Recorded'
  <2>1. h'.start = H!Never => ~h'.on
    BY <1>9, <1>10, <1>2, <1>6
  <2>2. h'.on => h'.start = H!PeriodStart(now)'
    BY <1>2, <1>4, <1>5, <1>6, <1>8 DEF Kept
  <2> QED
    BY <1>1, <1>2, <2>1, <2>2 DEF Recorded
<1>15. QuotaTypes'
  <2>1. StateOK(h, now)'
    BY <1>2, <1>6 DEF StateOK, H!WithWakeup
  <2>2. now' \in Nat /\ up' \in BOOLEAN /\ draw' \in Nat /\ events' \in Nat /\ fresh' \in BOOLEAN
    BY <1>1, <1>2, <1>3 DEF QuotaInv, QuotaTypes
  <2>3. total' \in Nat /\ lost' \in Nat /\ exempt' \in Nat
    BY <1>1, <1>2, <1>3
  <2> QED
    BY <1>13, <2>1, <2>2, <2>3 DEF QuotaTypes
<1>16. Settled'
  <2>1. r.on /\ r.start = c.start =>
          /\ r.mode # "exiting" =>
             /\ r.used >= Hard => r.mode = "dormant"
             /\ t < r.wake => r.mode \in {"dormant", "lowbandwidth"}
             /\ r.mode = "dormant" => r.used >= Hard \/ t < r.wake
          /\ t < r.end
    BY <1>5 DEF Kept
  <2> QED
    BY <2>1, <1>2 DEF Settled
<1>17. H!QuotaKept' /\ total' <= Remembered' + lost'
  <2> DEFINE p == Remembered'
             q == Remembered
  <2>1. /\ h.start = H!Never => p = IF state.start = H!PeriodStart(t) THEN state.used ELSE 0
        /\ h.start # H!Never => p = IF r.start = H!PeriodStart(t) THEN r.used ELSE 0
    BY <1>1, <1>2, <1>8, <1>9, <1>10 DEF Remembered, H!OfInterval, H!Known, H!Record
  <2>2. p \in Nat
    BY <1>7, <2>1, <1>11 DEF FileOK, FileRec
  <2>3. total <= q + lost
    BY <1>1
  <2>4. CASE ~same
    <3>1. total' = 0 /\ lost' = 0 /\ exempt' = 0
      BY <1>2, <2>4
    <3> HIDE DEF p
    <3>2. total' <= p + lost'
      BY <3>1, <2>2
    <3>3. H!QuotaKept'
      BY <3>1, <1>3 DEF H!QuotaKept
    <3> QED
      BY <3>2, <3>3 DEF p
  <2>5. CASE same
    <3>1. total' = total + k /\ lost' = lost /\ exempt' = (IF free THEN exempt + k ELSE exempt)
      BY <1>2, <2>5
    <3>2. q \in Nat /\ p = q + k /\ (h.on => q = h.used)
      <4>0. q \in Nat /\ (h.start = H!Never => q = H!OfInterval(state))
              /\ (h.start # H!Never => q = IF h.start = H!PeriodStart(now) THEN h.used ELSE 0)
        BY <1>1, KnownIs DEF Remembered
      <4>1. CASE h.start = H!Never
        <5>1. q = IF state.start = H!PeriodStart(now) THEN state.used ELSE 0
          BY <4>0, <4>1 DEF H!OfInterval
        <5>2. k = 0 /\ ~h.on
          BY <4>1, <1>10
        <5>3. p = q
          BY <5>1, <4>1, <2>1, <2>5
        <5> HIDE DEF p, q, k
        <5> QED
          BY <5>2, <5>3, <4>0
      <4>2. CASE h.start # H!Never
        <5>1. q = IF h.start = H!PeriodStart(now) THEN h.used ELSE 0
          BY <4>0, <4>2
        <5>2. Renewed(r, s, t) /\ s.start # H!Never
          BY <1>4, <1>9, <4>2
        <5>3. (IF r.start = H!PeriodStart(t) THEN r.used ELSE 0) = (IF s.start = H!PeriodStart(t) THEN s.used ELSE 0)
          BY <5>2, <1>3, <1>4, KnownKept
        <5>4. p = IF s.start = H!PeriodStart(t) THEN s.used ELSE 0
          BY <5>3, <2>1, <4>2
        <5> HIDE DEF p, q
        <5>5. CASE h.on
          BY <5>1, <5>4, <5>5, <1>1, <1>3, <1>4, <2>5
        <5>6. CASE ~h.on
          BY <5>1, <5>4, <5>6, <1>3, <1>4, <2>5
        <5> QED
          BY <5>5, <5>6
      <4> QED
        BY <4>1, <4>2
    <3>3. total' <= p + lost'
      <4> HIDE DEF p, q, k
      <4> QED
        BY <3>1, <3>2, <2>2, <2>3, <1>1, <1>3
    <3>4. H!QuotaKept'
      <4>1. total <= Hard - 1 + PerSecond + lost + exempt
        BY <1>1 DEF H!QuotaKept
      <4>2. total' <= Hard - 1 + PerSecond + lost + exempt'
        <5>1. CASE free
          <6>1. exempt' = exempt + k
            BY <3>1, <5>1
          <6> HIDE DEF p, q, k
          <6> QED
            BY <4>1, <6>1, <3>1, <1>1, <1>3
        <5>2. CASE ~h.on
          <6>1. k = 0
            BY <5>2
          <6> HIDE DEF p, q, k, free
          <6> QED
            BY <4>1, <6>1, <3>1, <1>1, <1>3
        <5>3. CASE h.on /\ ~free
          <6>1. h.used < Hard /\ q = h.used
            BY <5>3, <1>1, <3>2
          <6>2. exempt' = exempt
            BY <3>1, <5>3
          <6> HIDE DEF p, q, k, free
          <6> QED
            BY <6>1, <6>2, <2>3, <3>1, <1>1, <1>3
        <5> QED
          BY <5>1, <5>2, <5>3
      <4> QED
        BY <4>2, <3>1 DEF H!QuotaKept
    <3> QED
      BY <3>3, <3>4 DEF p
  <2> QED
    BY <2>4, <2>5
<1>18. Counted'
  <2>1. r.on /\ r.used >= Hard => r.mode \in {"dormant", "exiting"}
    BY <1>5 DEF Kept
  <2>2. r.on /\ r.mode \notin {"dormant", "exiting"} => r.used < Hard
    BY <2>1, <1>3, <1>7
  <2> QED
    BY <2>2, <1>2, <1>17 DEF Counted
<1> QED
  BY <1>14, <1>15, <1>16, <1>18 DEF QuotaInv

-----------------------------------------------------------------------------
(* The calendar. *)

\* The days of a calendar follow each other, and the months one after another.
\* Hibernation has the sums of Functions under names of its own.
LEMMA SameSums == \A M, T : H!SumFunctionOnSet(M, T) = SumFunctionOnSet(M, T)
BY DEF H!SumFunctionOnSet, H!FoldFunctionOnSet, H!MapThenFoldSet, SumFunctionOnSet, FoldFunctionOnSet, MapThenFoldSet

LEMMA DaysFollow ==
  ASSUME NEW mon \in 1 .. Len(Months)
  PROVE  /\ \A day \in Int : H!DayOf(mon + 1, day) = H!DayOf(mon, day) + Months[mon] /\ H!DayOf(mon, day) \in Int
         /\ \A day, d \in Int : H!DayOf(mon, d) - H!DayOf(mon, day) = d - day
<1> DEFINE D == DOMAIN Months
<1>1. D = 1 .. Len(Months) /\ Len(Months) \in Nat /\ Months \in [D -> Nat]
  BY QuotaData, LenProperties
<1>2. IsFiniteSet(D)
  <2>1. 1 \in Int /\ Len(Months) \in Int
    BY <1>1
  <2>2. IsFiniteSet(1 .. Len(Months))
    BY <2>1, FS_Interval
  <2> QED
    BY <1>1, <2>2
<1> HIDE DEF D
<1>0. PICK g : Sums(g, D, Months)
  BY <1>1, <1>2, SumOfSet
<1>3. /\ g \in [SUBSET D -> Nat] /\ g[{}] = 0
      /\ \A T \in SUBSET D : \A y \in T : g[T] = Months[y] + g[T \ {y}]
      /\ \A T \in SUBSET D : SumFunctionOnSet(Months, T) = g[T]
  BY <1>0 DEF Sums
<1>4. mon \in Nat /\ mon \in D /\ (mon + 1) - 1 = mon
  BY <1>1
<1>5. 1 .. mon \in SUBSET D /\ 1 .. mon - 1 \in SUBSET D /\ mon \in 1 .. mon /\ (1 .. mon) \ {mon} = 1 .. mon - 1
  BY <1>1, <1>4
<1>6. g[1 .. mon] = Months[mon] + g[1 .. mon - 1] /\ g[1 .. mon - 1] \in Nat /\ Months[mon] \in Nat
  <2>1. g[1 .. mon] = Months[mon] + g[(1 .. mon) \ {mon}]
    BY <1>3, <1>5
  <2> QED
    BY <2>1, <1>1, <1>3, <1>4, <1>5
<1>7. \A day : H!DayOf(mon, day) = day + g[1 .. mon - 1]
  BY <1>3, <1>5, SameSums DEF H!DayOf
<1>8. \A day : H!DayOf(mon + 1, day) = day + g[1 .. mon]
  BY <1>3, <1>4, <1>5, SameSums DEF H!DayOf
<1> DEFINE p == g[1 .. mon - 1]
           q == g[1 .. mon]
<1>9. p \in Nat /\ q = Months[mon] + p /\ Months[mon] \in Nat
      /\ \A day \in Int : H!DayOf(mon, day) = day + p /\ H!DayOf(mon + 1, day) = day + q
  BY <1>6, <1>7, <1>8
<1> HIDE DEF p, q
<1>10. ASSUME NEW a \in Int PROVE H!DayOf(mon, a) \in Int /\ H!DayOf(mon + 1, a) = H!DayOf(mon, a) + Months[mon]
  <2>1. H!DayOf(mon, a) = a + p /\ H!DayOf(mon + 1, a) = a + q
    BY <1>9
  <2> DEFINE k == Months[mon]
  <2>3. p \in Nat /\ q = k + p /\ k \in Nat
    BY <1>9
  <2>2. a + q = (a + p) + k /\ a + p \in Int
    <3> HIDE DEF k
    <3> QED
      BY <2>3
  <2> QED
    BY <2>1, <2>2
<1>11. \A day, d \in Int : H!DayOf(mon, d) - H!DayOf(mon, day) = d - day
  BY <1>9
<1> QED
  BY <1>10, <1>11

LEMMA PeriodsContainTimes == H!PeriodsContain
<1> SUFFICES ASSUME NEW unit \in {"month", "week", "day"}, NEW day \in 1 .. 3, NEW min \in 0 .. 1, NEW m \in 0 .. 1,
                    NEW mon \in 2 .. Len(Months) - 1, NEW d \in 1 .. Months[mon]
             PROVE  LET start == [day |-> day, min |-> min]
                        t == [mon |-> mon, day |-> d, min |-> m]
                        at == [day |-> H!DayOf(mon, d), min |-> m]
                    IN  /\ H!Earlier(at, H!Edge(unit, start, t, TRUE))
                        /\ H!Earlier(at, H!Edge(unit, start, t, FALSE)) <=> unit = "month" /\ d = day /\ m < min
  BY DEF H!PeriodsContain
<1> DEFINE start == [day |-> day, min |-> min]
           t == [mon |-> mon, day |-> d, min |-> m]
           at == [day |-> H!DayOf(mon, d), min |-> m]
           today == H!DayOf(mon, d)
<1>1. /\ Len(Months) \in Nat /\ mon \in 1 .. Len(Months) /\ mon - 1 \in 1 .. Len(Months) /\ mon \in Nat
      /\ Months[mon] \in Nat /\ Months[mon - 1] \in Nat /\ Months[mon] >= 3 /\ Months[mon - 1] >= 3
      /\ (mon - 1) + 1 = mon
  <2>1. Len(Months) \in Nat /\ DOMAIN Months = 1 .. Len(Months)
    BY QuotaData, LenProperties
  <2>2. mon \in 1 .. Len(Months) /\ mon - 1 \in 1 .. Len(Months) /\ mon \in Nat /\ (mon - 1) + 1 = mon
    BY <2>1
  <2>3. \A i \in 1 .. Len(Months) : Months[i] \in Nat /\ Months[i] >= 3
    BY <2>1, QuotaData, ElementOfSeq
  <2> QED
    BY <2>1, <2>2, <2>3
<1>2. d \in Int /\ day \in Int /\ d >= 1 /\ d <= Months[mon] /\ day >= 1 /\ day <= 3 /\ m \in Int /\ min \in Int
  BY <1>1
<1>3. /\ H!DayOf(mon, d) \in Int /\ H!DayOf(mon, day) \in Int /\ H!DayOf(mon, d) - H!DayOf(mon, day) = d - day
      /\ H!DayOf(mon + 1, day) = H!DayOf(mon, day) + Months[mon]
  BY <1>1, <1>2, DaysFollow
<1>4. H!DayOf(mon, day) = H!DayOf(mon - 1, day) + Months[mon - 1] /\ H!DayOf(mon - 1, day) \in Int
  BY <1>1, <1>2, DaysFollow
<1> HIDE DEF today
<1>8. \A a, b : H!Earlier([day |-> a, min |-> m], [day |-> b, min |-> min]) <=> a < b \/ (a = b /\ m < min)
  BY DEF H!Earlier
<1>10. ASSUME NEW a \in Int, NEW b \in Int,
              H!Edge(unit, start, t, TRUE) = [day |-> a, min |-> min],
              H!Edge(unit, start, t, FALSE) = [day |-> b, min |-> min],
              H!DayOf(mon, d) < a \/ (H!DayOf(mon, d) = a /\ m < min),
              H!DayOf(mon, d) < b \/ (H!DayOf(mon, d) = b /\ m < min) <=> unit = "month" /\ d = day /\ m < min
       PROVE  /\ H!Earlier(at, H!Edge(unit, start, t, TRUE))
              /\ H!Earlier(at, H!Edge(unit, start, t, FALSE)) <=> unit = "month" /\ d = day /\ m < min
  BY <1>8, <1>10
<1> DEFINE x == H!DayOf(mon, d)
           y == H!DayOf(mon, day)
           z == H!DayOf(mon - 1, day)
           w == H!DayOf(mon + 1, day)
           k == Months[mon]
           k0 == Months[mon - 1]
<1>11. x \in Int /\ y \in Int /\ z \in Int /\ w \in Int /\ k \in Int /\ k0 \in Int
  <2>1. y \in Int /\ k \in Int /\ w = y + k
    BY <1>1, <1>3
  <2>2. w \in Int
    <3> HIDE DEF y, k, w
    <3> QED
      BY <2>1
  <2> QED
    BY <2>1, <2>2, <1>1, <1>3, <1>4
<1>12. x - y = d - day /\ w = y + k /\ y = z + k0 /\ d <= k /\ k0 >= 3
  BY <1>1, <1>2, <1>3, <1>4
<1>13. d \in Int /\ day \in Int /\ d >= 1 /\ day >= 1 /\ day <= 3
  BY <1>2
<1>5. CASE unit = "month"
  <2>1. CASE d < day
    <3>1. mon - 1 + 1 = mon /\ mon - 1 + 0 = mon - 1
      BY <1>1
    <3>2. H!Edge(unit, start, t, TRUE) = [day |-> y, min |-> min] /\ H!Edge(unit, start, t, FALSE) = [day |-> z, min |-> min]
      BY <3>1, <2>1, <1>5 DEF H!Edge
    <3> HIDE DEF x, y, z, w, k, k0, at, start, t
    <3>3. x < y /\ ~(x < z) /\ ~(d = day) /\ x # z
      BY <2>1, <1>11, <1>12, <1>13
    <3> QED
      BY <3>2, <3>3, <1>10, <1>11 DEF x, at, start, t
  <2>2. CASE ~(d < day)
    <3>1. mon - 0 + 1 = mon + 1 /\ mon - 0 + 0 = mon
      BY <1>1
    <3>2. H!Edge(unit, start, t, TRUE) = [day |-> w, min |-> min] /\ H!Edge(unit, start, t, FALSE) = [day |-> y, min |-> min]
      BY <3>1, <2>2, <1>5 DEF H!Edge
    <3> HIDE DEF x, y, z, w, k, k0, at, start, t
    <3>3. x < w /\ ~(x < y) /\ (x = y <=> d = day)
      BY <2>2, <1>11, <1>12, <1>13
    <3> QED
      BY <3>2, <3>3, <1>5, <1>10, <1>11 DEF x, at, start, t
  <2> QED
    BY <2>1, <2>2
<1>6. CASE unit = "week"
  <2> DEFINE r == x % 7
             q == day % 7
             delta == (7 + r - q) % 7
             back == IF delta = 0 /\ m < min THEN 7 ELSE delta
             a == x - back + 7
             b == x - back + 0
  <2>1. H!Edge(unit, start, t, TRUE) = [day |-> a, min |-> min] /\ H!Edge(unit, start, t, FALSE) = [day |-> b, min |-> min]
    BY <1>6 DEF H!Edge
  <2>2. r \in Int /\ q \in Int
    BY <1>2, <1>11
  <2> HIDE DEF r, q
  <2>3. delta \in 0 .. 6
    BY <2>2
  <2> HIDE DEF x, y, z, w, k, k0, at, start, t, delta
  <2>4. a \in Int /\ b \in Int /\ (x < a \/ (x = a /\ m < min)) /\ ~(x < b) /\ ~(x = b /\ m < min)
    BY <2>3, <1>2, <1>11
  <2> HIDE DEF a, b
  <2> QED
    BY <2>1, <2>4, <1>6, <1>10 DEF x, at, start, t
<1>7. CASE unit = "day"
  <2> DEFINE back == IF m < min THEN 1 ELSE 0
             a == x - back + 1
             b == x - back + 0
  <2>1. H!Edge(unit, start, t, TRUE) = [day |-> a, min |-> min] /\ H!Edge(unit, start, t, FALSE) = [day |-> b, min |-> min]
    BY <1>7 DEF H!Edge
  <2> HIDE DEF x, y, z, w, k, k0, at, start, t
  <2>4. a \in Int /\ b \in Int /\ (x < a \/ (x = a /\ m < min)) /\ ~(x < b) /\ ~(x = b /\ m < min)
    BY <1>2, <1>11
  <2> HIDE DEF a, b
  <2> QED
    BY <2>1, <2>4, <1>7, <1>10 DEF x, at, start, t
<1> QED
  BY <1>5, <1>6, <1>7
-----------------------------------------------------------------------------
(* What every step keeps. *)

LEMMA StepQuotaInv == QuotaInv /\ [H!Next]_(H!vars) => QuotaInv'
<1> SUFFICES ASSUME QuotaInv, [H!Next]_(H!vars) PROVE QuotaInv'
  OBVIOUS
<1>1. CASE H!Next
  <2>1. \A e \in Expectations : e \in Nat
    BY QuotaData
  <2>2. \A t \in now .. H!Least(MaxNow, now + Length) : t \in Nat /\ now <= t
    BY DEF QuotaInv, QuotaTypes
  <2>3. CASE \E e \in Expectations : \/ H!StartUp(e) \/ H!SetAccountingMax(e)
          \/ \E n \in 0 .. PerSecond, note, save \in BOOLEAN : H!Second(n, e, note, save)
    BY <2>1, <2>3, StartsUp, SetsAccountingMax, SecondPasses
  <2>4. CASE \E t \in now .. H!Least(MaxNow, now + Length) :
          \/ H!Crash(t) \/ H!Stop(h, t) \/ H!Stop(H!Switched(h), t)
          \/ \E n \in 0 .. PerSecond : H!LastSecond(n, t)
    BY <2>2, <2>4, Crashes, Stops, LastSeconds
  <2>5. CASE H!Interrupt
    BY <2>5, Interrupts
  <2> QED
    BY <2>3, <2>4, <2>5, <1>1 DEF H!Next
<1>2. CASE UNCHANGED H!vars
  <2>1. StateOK(h, now)' = StateOK(h, now) /\ H!PeriodStart(now)' = H!PeriodStart(now)
    BY <1>2 DEF H!vars, StateOK, H!WithWakeup, H!PeriodStart
  <2>2. QuotaTypes'
    BY <2>1, <1>2 DEF H!vars, QuotaInv, QuotaTypes
  <2>3. Recorded'
    BY <2>1, <1>2 DEF H!vars, QuotaInv, Recorded
  <2>4. Counted'
    BY <2>1, <1>2 DEF H!vars, QuotaInv, Counted, Remembered, H!OfInterval, H!Known, H!Record, H!QuotaKept
  <2>5. Settled'
    BY <1>2 DEF H!vars, QuotaInv, Settled
  <2> QED
    BY <2>2, <2>3, <2>4, <2>5 DEF QuotaInv
<1> QED
  BY <1>1, <1>2

\* Whatever crashes make it forget and however it is interrupted, a relay
\* carries no more than its quota, a second, and what no limit applies to; and
\* it sleeps and wakes when it should.
THEOREM AlwaysHibernatesRight == SideSpec => []HibernatesRight
<1>1. QuotaInv => HibernatesRight
  <2> SUFFICES ASSUME QuotaInv PROVE H!QuotaKept /\ H!SleepsRight
    BY DEF HibernatesRight, H!HibernatesRight
  <2>1. H!QuotaKept
    BY DEF QuotaInv, Counted
  <2>2. H!SleepsRight
    BY PeriodsContainTimes DEF QuotaInv, Settled, H!SleepsRight
  <2> QED
    BY <2>1, <2>2
<1>2. SideInit => QuotaInv
  BY InitQuotaInv DEF SideInit
<1>3. QuotaInv /\ [Window \/ Buffers \/ Socks \/ Events \/ Seconds]_<<side, vars, piped, socks, io, quota>> => QuotaInv'
  <2>1. [Window \/ Buffers \/ Socks \/ Events \/ Seconds]_<<side, vars, piped, socks, io, quota>> => [H!Next]_(H!vars)
    BY DEF Window, Buffers, Socks, Events, Seconds, quota, H!vars
  <2> QED
    BY <2>1, StepQuotaInv
<1> QED
  BY <1>1, <1>2, <1>3, PTL DEF SideSpec
=============================================================================
