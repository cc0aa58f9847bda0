------------------------- MODULE OrHandshake_proofs -------------------------
(***************************************************************************)
(* For any identity keys: whatever cells come in whatever order, no        *)
(* handler of the handshake meets a state it asserts not to be in, an open *)
(* connection is with who proved to be there, and two open ends of this    *)
(* code agree on the version, on who they are and on the circIDs.          *)
(***************************************************************************)
EXTENDS OrHandshake, SequenceTheorems, TLAPS

-----------------------------------------------------------------------------
(* Types. *)

Cmds == {"versions", "certs", "auth_challenge", "authenticate", "netinfo", "vpadding", "circuit"}
CellRecs == [cmd : Cmds, versions : SUBSET (1 .. 3), key : Keys \cup {0, Bad}, over : Seq(Seq(Cmds))]
Signed(c) == c.cmd \in {"certs", "authenticate"}
Cells == {c \in CellRecs : Signed(c) => c.key # 0}
States == {"tls", "client_reneg", "server_reneg", "v2", "v3", "open", "closed"}
KeysOrNone == Keys \cup {0}
Handshakes ==
  [on : BOOLEAN, receivedVersions : BOOLEAN, sentVersions : BOOLEAN, certs : KeysOrNone,
   challenged : BOOLEAN, authenticated : BOOLEAN, logsSent : BOOLEAN, logsReceived : BOOLEAN,
   sent : Seq(Cmds), received : Seq(Cmds)]
ConnRecs ==
  [end : Ends, me : Keys, public : BOOLEAN, refused : BOOLEAN, st : States, proto : 0 .. 3,
   id : KeysOrNone, half : {"none", "neither", "lower", "higher"}, proved : KeysOrNone,
   hs : Handshakes, out : Seq(Cells), ok : BOOLEAN]

-----------------------------------------------------------------------------
(* One end, whoever is at the other. *)

EndOK(d) ==
  /\ d.ok
  /\ d.hs.on <=> d.st \in {"v2", "v3"}
  /\ d.st = "client_reneg" => Started(d)
  /\ d.st = "server_reneg" => ~Started(d)
  /\ d.st \in {"tls", "client_reneg", "server_reneg"} => d.proto = 0
  /\ d.st = "v2" =>
       /\ d.hs.sentVersions /\ d.proto = (IF d.hs.receivedVersions THEN 2 ELSE 0)
       /\ d.id = d.proved /\ (Started(d) => d.id # 0)
  /\ d.st = "v3" =>
       /\ d.proto = (IF d.hs.receivedVersions THEN 3 ELSE 0)
       /\ d.hs.sentVersions <=> Started(d) \/ d.hs.receivedVersions
       /\ d.hs.authenticated => d.id = d.proved /\ d.id # 0
  /\ d.st = "open" => d.id = d.proved /\ (Started(d) => d.id # 0)

\* The key that an end shows: none if it is a client, or a bridge.
Shown(d) == IF Started(d) /\ ~d.public THEN 0 ELSE d.me

\* The cells of an end that shows key x, and what it is taken for.
CellsOf(x) == {c \in Cells : Signed(c) => c.key = x}
HalfFor(me, x) == IF x = 0 THEN "neither" ELSE IF me < x THEN "lower" ELSE "higher"
Knows(d) == d.st \in {"v2", "open"} \/ (d.st = "v3" /\ d.hs.authenticated)
TakesFor(d, x) ==
  /\ Knows(d) => d.id = x /\ d.half = HalfFor(d.me, x)
  /\ d.st = "v3" /\ d.hs.certs # 0 => d.hs.certs = x

-----------------------------------------------------------------------------
(* Two ends that run this code. *)

\* The kind of the handshake tells the state.
KindOK(d) ==
  /\ d.st = "client_reneg" => tls = 2
  /\ d.st = "server_reneg" => tls \in {2, 3}
  /\ d.st = "v2" => tls = 2
  /\ d.st = "v3" => tls = 3
  /\ d.st = "open" => d.proto = tls

\* No NETINFO without an AUTHENTICATE before it.
Ordered(q) ==
  \A j \in 1 .. Len(q) : q[j].cmd = "netinfo" => \E i \in 1 .. Len(q) : i < j /\ q[i].cmd = "authenticate"
Unproved(d) == d.st \in {"tls", "server_reneg"} \/ (d.st = "v3" /\ ~d.hs.authenticated)

Pair ==
  /\ \A e \in Ends :
       /\ KindOK(conn[e])
       /\ TakesFor(conn[e], Shown(conn[Other(e)]))
       /\ wire[e] \in Seq(CellsOf(Shown(conn[Other(e)])))
  /\ conn[R].st = "tls" => conn[I].st \in {"tls", "closed"}
  /\ tls = 2 /\ conn[R].st \in {"tls", "server_reneg"} =>
       wire[R] = <<>> /\ conn[I].st \in {"tls", "client_reneg", "closed"}
  /\ tls = 3 /\ conn[I].public /\ Unproved(conn[R]) => Ordered(wire[R])

IInv ==
  /\ tls \in 1 .. 3 /\ strange \in {{}, {I}, {R}}
  /\ conn \in [Ends -> ConnRecs] /\ wire \in [Ends -> Seq(Cells)]
  /\ \A e \in Ends : /\ conn[e].end = e /\ conn[e].out = <<>> /\ EndOK(conn[e])
                     /\ Other(e) \in strange => wire[e] = <<>>
  /\ conn[I].me # conn[R].me
  /\ sound
  /\ strange = {} => Pair
-----------------------------------------------------------------------------
(* What the operators that send and note leave as it was. *)

SameHs(h, g) ==
  /\ h \in Handshakes /\ h.on = g.on /\ h.receivedVersions = g.receivedVersions
  /\ h.sentVersions = g.sentVersions /\ h.certs = g.certs /\ h.authenticated = g.authenticated
SameEnd(u, d) ==
  u.end = d.end /\ u.me = d.me /\ u.public = d.public /\ u.refused = d.refused
Like(u, d) ==
  /\ u \in ConnRecs /\ SameEnd(u, d) /\ SameHs(u.hs, d.hs)
  /\ u.st = d.st /\ u.proto = d.proto /\ u.id = d.id /\ u.half = d.half /\ u.proved = d.proved
  /\ u.ok = d.ok

LEMMA HandshakeParts ==
  ASSUME NEW d \in ConnRecs
  PROVE  /\ d.hs \in Handshakes /\ d.out \in Seq(Cells) /\ d.me \in Keys /\ d.me # 0
         /\ d.hs.sent \in Seq(Cmds) /\ d.hs.received \in Seq(Cmds)
BY HandshakeAssumption DEF ConnRecs, Handshakes

LEMMA NoHandshakeType == NoHandshake \in Handshakes /\ NewHandshake \in Handshakes
<1>1. <<>> \in Seq(Cmds)
  BY EmptySeq
<1> QED
  BY <1>1 DEF NoHandshake, NewHandshake, Handshakes, KeysOrNone

LEMMA PutFields ==
  ASSUME NEW d \in ConnRecs, NEW c \in Cells
  PROVE  Like(Put(d, c), d) /\ Put(d, c).out = Append(d.out, c)
<1>. DEFINE g == d.st = "v3" /\ d.hs.logsSent /\ Logged(d)
            q == IF g THEN Append(d.hs.sent, c.cmd) ELSE d.hs.sent
            h == [d.hs EXCEPT !.sent = q]
            o == Append(d.out, c)
            u == [d EXCEPT !.out = o, !.hs = h]
<1>1. Put(d, c) = u
  BY DEF Put
<1>2. c.cmd \in Cmds
  BY DEF Cells, CellRecs
<1>3. q \in Seq(Cmds) /\ o \in Seq(Cells)
  BY <1>2, HandshakeParts
<1>. HIDE DEF g, q, o
<1>4. SameHs(h, d.hs)
  BY <1>3, HandshakeParts DEF SameHs, Handshakes
<1>. HIDE DEF h
<1>5. Like(u, d) /\ u.out = o
  BY <1>3, <1>4 DEF Like, SameEnd, SameHs, ConnRecs
<1> QED
  BY <1>1, <1>5 DEF o

LEMMA RecordedFields ==
  ASSUME NEW d \in ConnRecs, NEW c \in Cells
  PROVE  Like(Recorded(d, c), d) /\ Recorded(d, c).out = d.out
<1>. DEFINE q == Append(d.hs.received, c.cmd)
            h == [d.hs EXCEPT !.received = q]
            u == [d EXCEPT !.hs = h]
<1>1. Recorded(d, c) \in {d, u}
  BY DEF Recorded
<1>2. q \in Seq(Cmds)
  <2>1. c.cmd \in Cmds
    BY DEF Cells, CellRecs
  <2> QED
    BY <2>1, HandshakeParts
<1>. HIDE DEF q
<1>3. SameHs(h, d.hs) /\ SameHs(d.hs, d.hs)
  BY <1>2, HandshakeParts DEF SameHs, Handshakes
<1>. HIDE DEF h
<1>4. Like(u, d) /\ u.out = d.out
  BY <1>3 DEF Like, SameEnd, SameHs, ConnRecs
<1>5. Like(d, d)
  BY <1>3 DEF Like, SameEnd
<1> QED
  BY <1>1, <1>4, <1>5

\* A closed end, which needs no handshake state.
Ended(u, d) ==
  /\ u \in ConnRecs /\ SameEnd(u, d) /\ u.st = "closed" /\ u.hs = NoHandshake
  /\ u.ok = d.ok /\ u.out = d.out
LEMMA ClosedFields ==
  ASSUME NEW d \in ConnRecs
  PROVE  Ended(Closed(d), d)
<1>1. 0 \in KeysOrNone /\ 0 \in 0 .. 3
  BY DEF KeysOrNone
<1> QED
  BY <1>1, NoHandshakeType DEF Closed, Ended, SameEnd, ConnRecs, States

LEMMA SetHalfFields ==
  ASSUME NEW d \in ConnRecs, NEW key \in KeysOrNone
  PROVE  /\ SetHalf(d, key) \in ConnRecs /\ SameEnd(SetHalf(d, key), d)
         /\ SetHalf(d, key) = [d EXCEPT !.half = HalfFor(d.me, key)]
         /\ SetHalf(d, key).half = HalfFor(d.me, key)
         /\ SetHalf(d, key).hs = d.hs /\ SetHalf(d, key).out = d.out /\ SetHalf(d, key).ok = d.ok
         /\ SetHalf(d, key).st = d.st /\ SetHalf(d, key).proto = d.proto
         /\ SetHalf(d, key).id = d.id /\ SetHalf(d, key).proved = d.proved
<1>. DEFINE h == HalfFor(d.me, key)
            u == [d EXCEPT !.half = h]
<1>1. SetHalf(d, key) = u
  BY DEF SetHalf, HalfFor
<1>2. h \in {"none", "neither", "lower", "higher"}
  BY DEF HalfFor
<1>. HIDE DEF h
<1>3. /\ u \in ConnRecs /\ SameEnd(u, d) /\ u.half = h
      /\ u.hs = d.hs /\ u.out = d.out /\ u.ok = d.ok /\ u.st = d.st /\ u.proto = d.proto
      /\ u.id = d.id /\ u.proved = d.proved
  BY <1>2 DEF ConnRecs, SameEnd
<1> QED
  BY <1>1, <1>3 DEF h

\* The cells that are sent.
LEMMA CellTypes ==
  ASSUME NEW x
  PROVE  /\ \A vs \in SUBSET (1 .. 3) : Versions(vs) \in CellsOf(x) /\ Versions(vs).cmd = "versions"
         /\ \A cmd \in Cmds \ {"certs", "authenticate"} : Cell(cmd) \in CellsOf(x) /\ Cell(cmd).cmd = cmd
         /\ \A k \in Keys \cup {Bad} : Certs(k) \in CellsOf(k) /\ Certs(k).cmd = "certs"
         /\ \A k \in Keys \cup {Bad} : \A logs \in Seq(Seq(Cmds)) :
              Authenticate(k, logs) \in CellsOf(k) /\ Authenticate(k, logs).cmd = "authenticate"
         /\ CellsOf(x) \subseteq Cells
<1>1. <<>> \in Seq(Seq(Cmds))
  BY EmptySeq
<1>2. \A cmd \in Cmds : Cell(cmd) \in CellRecs /\ Cell(cmd).cmd = cmd
  BY <1>1 DEF Cell, CellRecs
<1>3. \A cmd \in Cmds \ {"certs", "authenticate"} : Cell(cmd) \in CellsOf(x) /\ Cell(cmd).cmd = cmd
  BY <1>2 DEF CellsOf, Cells, Signed
<1>4. ASSUME NEW vs \in SUBSET (1 .. 3)
      PROVE  Versions(vs) \in CellsOf(x) /\ Versions(vs).cmd = "versions"
  <2>1. Cell("versions") \in CellRecs /\ Cell("versions").cmd = "versions"
    BY <1>2 DEF Cmds
  <2>2. Versions(vs) \in CellRecs /\ Versions(vs).cmd = "versions"
    BY <2>1 DEF Versions, CellRecs
  <2> QED
    BY <2>2 DEF CellsOf, Cells, Signed
<1>5. ASSUME NEW k \in Keys \cup {Bad} PROVE Certs(k) \in CellsOf(k) /\ Certs(k).cmd = "certs"
  <2>1. Cell("certs") \in CellRecs /\ Cell("certs").cmd = "certs"
    BY <1>2 DEF Cmds
  <2>2. Certs(k) \in CellRecs /\ Certs(k).key = k /\ Certs(k).cmd = "certs"
    BY <2>1 DEF Certs, CellRecs
  <2> QED
    BY <2>2, HandshakeAssumption DEF CellsOf, Cells
<1>6. ASSUME NEW k \in Keys \cup {Bad}, NEW logs \in Seq(Seq(Cmds))
      PROVE  Authenticate(k, logs) \in CellsOf(k) /\ Authenticate(k, logs).cmd = "authenticate"
  <2>1. Cell("authenticate") \in CellRecs /\ Cell("authenticate").cmd = "authenticate"
    BY <1>2 DEF Cmds
  <2>2. /\ Authenticate(k, logs) \in CellRecs /\ Authenticate(k, logs).key = k
        /\ Authenticate(k, logs).cmd = "authenticate"
    BY <2>1 DEF Authenticate, CellRecs
  <2> QED
    BY <2>2, HandshakeAssumption DEF CellsOf, Cells
<1> QED
  BY <1>3, <1>4, <1>5, <1>6 DEF CellsOf

\* Nothing changes but what is written.
Wrote(u, d, c) == Like(u, d) /\ u.out = Append(d.out, c)

LEMMA SendNetinfoFields ==
  ASSUME NEW d \in ConnRecs, d.hs.on
  PROVE  Wrote(SendNetinfo(d), d, Cell("netinfo"))
<1>. DEFINE h == [d.hs EXCEPT !.logsSent = FALSE]
            u == [d EXCEPT !.hs = h]
<1>1. SendNetinfo(d) = Put(u, Cell("netinfo"))
  BY DEF SendNetinfo
<1>2. SameHs(h, d.hs)
  BY HandshakeParts DEF SameHs, Handshakes
<1>. HIDE DEF h
<1>3. u \in ConnRecs /\ Like(u, d) /\ u.out = d.out
  BY <1>2 DEF Like, SameEnd, SameHs, ConnRecs
<1>. HIDE DEF u
<1>4. Cell("netinfo") \in Cells
  BY CellTypes DEF Cmds
<1>5. Like(Put(u, Cell("netinfo")), u) /\ Put(u, Cell("netinfo")).out = Append(u.out, Cell("netinfo"))
  BY <1>3, <1>4, PutFields
<1> QED
  BY <1>1, <1>3, <1>5 DEF Wrote, Like, SameEnd, SameHs

\* ... and that a VERSIONS was sent.
WroteVersions(u, d, c) ==
  /\ u \in ConnRecs /\ SameEnd(u, d)
  /\ u.hs \in Handshakes /\ u.hs.on = d.hs.on /\ u.hs.receivedVersions = d.hs.receivedVersions
  /\ u.hs.sentVersions /\ u.hs.certs = d.hs.certs /\ u.hs.authenticated = d.hs.authenticated
  /\ u.st = d.st /\ u.proto = d.proto /\ u.id = d.id /\ u.half = d.half /\ u.proved = d.proved
  /\ u.ok = d.ok /\ u.out = Append(d.out, c)

LEMMA SendVersionsFields ==
  ASSUME NEW d \in ConnRecs, d.hs.on, ~d.hs.sentVersions, NEW v3 \in BOOLEAN
  PROVE  \E vs \in SUBSET (1 .. 3) : WroteVersions(SendVersions(d, v3), d, Versions(vs))
<1>. DEFINE vs == IF v3 THEN {3} ELSE {1, 2}
            c == Versions(vs)
            u == Put(d, c)
            h == [u.hs EXCEPT !.sentVersions = TRUE]
            v == [u EXCEPT !.hs = h]
<1>1. SendVersions(d, v3) = v
  BY DEF SendVersions
<1>2. vs \in SUBSET (1 .. 3)
  OBVIOUS
<1>. HIDE DEF vs
<1>3. c \in Cells
  BY <1>2, CellTypes
<1>. HIDE DEF c
<1>4. Like(u, d) /\ u.out = Append(d.out, c)
  BY <1>3, PutFields
<1>. HIDE DEF u
<1>5. /\ h \in Handshakes /\ h.on = d.hs.on /\ h.receivedVersions = d.hs.receivedVersions
      /\ h.sentVersions /\ h.certs = d.hs.certs /\ h.authenticated = d.hs.authenticated
  BY <1>4 DEF Like, SameHs, Handshakes
<1>. HIDE DEF h
<1>6. WroteVersions(v, d, c)
  BY <1>4, <1>5 DEF WroteVersions, Like, SameEnd, ConnRecs
<1> QED
  BY <1>1, <1>2, <1>6 DEF c

\* The end knows its peer, or has closed; the end is open, or has closed.
Knew(u, d, key) ==
  /\ u \in ConnRecs /\ SameEnd(u, d) /\ u.id = key /\ u.proved = key
  /\ u.hs = d.hs /\ u.out = d.out /\ u.ok = d.ok /\ u.st = d.st
  /\ u.proto = d.proto /\ u.half = d.half

LEMMA LearnedFields ==
  ASSUME NEW d \in ConnRecs, NEW key \in Keys
  PROVE  Ended(Learned(d, key), d) \/ Knew(Learned(d, key), d, key)
<1>. DEFINE u == [d EXCEPT !.id = key, !.proved = key]
<1>1. key \in KeysOrNone
  BY DEF KeysOrNone
<1>2. Knew(u, d, key)
  BY <1>1 DEF ConnRecs, SameEnd, Knew
<1>3. Learned(d, key) = u \/ Learned(d, key) = Closed(d)
  BY DEF Learned
<1>. HIDE DEF u
<1> QED
  BY <1>2, <1>3, ClosedFields

OpenNow(u, d) ==
  /\ u \in ConnRecs /\ SameEnd(u, d) /\ u.id = d.id /\ u.proved = d.proved
  /\ u.hs = NoHandshake /\ u.out = d.out /\ u.ok = d.ok /\ u.st = "open"
  /\ u.proto = d.proto /\ u.half = d.half

LEMMA OpenedFields ==
  ASSUME NEW d \in ConnRecs
  PROVE  Ended(Opened(d), d) \/ OpenNow(Opened(d), d)
<1>. DEFINE u == [d EXCEPT !.st = "open", !.hs = NoHandshake]
<1>1. OpenNow(u, d)
  BY NoHandshakeType DEF ConnRecs, SameEnd, States, OpenNow
<1>2. Opened(d) = u \/ Opened(d) = Closed(d)
  BY DEF Opened
<1>. HIDE DEF u
<1> QED
  BY <1>1, <1>2, ClosedFields

\* The state is v2 or v3 and there is a new handshake state.
Begun(u, d, st) ==
  /\ u \in ConnRecs /\ SameEnd(u, d) /\ u.st = st /\ u.hs = NewHandshake
  /\ u.proto = d.proto /\ u.id = d.id /\ u.half = d.half /\ u.proved = d.proved
  /\ u.ok = d.ok /\ u.out = d.out

LEMMA WithHandshakeFields ==
  ASSUME NEW d \in ConnRecs, ~d.hs.on, NEW st \in States
  PROVE  Begun(WithHandshake([d EXCEPT !.st = st]), d, st)
<1>. DEFINE u == [d EXCEPT !.st = st]
<1>1. WithHandshake(u) = [u EXCEPT !.hs = NewHandshake]
  BY DEF WithHandshake, ConnRecs
<1> QED
  BY <1>1, NoHandshakeType DEF Begun, SameEnd, ConnRecs

-----------------------------------------------------------------------------
(* What a handler does to an end. *)

\* d is what was, u what it became; x is the key that the other end shows.
Before(d) == d \in ConnRecs /\ EndOK(d) /\ d.out = <<>>
Fine(u, d) ==
  /\ u \in ConnRecs /\ SameEnd(u, d) /\ EndOK(u)
  /\ u.out \in Seq(CellsOf(Shown(d)))
  /\ Started(d) /\ d.public /\ d.st # "v2" => Ordered(u.out)
  /\ u.st = "tls" => d.st = "tls"
Paired(u, d, x) == KindOK(u) /\ TakesFor(u, x) /\ (Unproved(u) => Unproved(d))

LEMMA OrderedEmpty == Ordered(<<>>)
BY DEF Ordered

LEMMA OrderedAppend ==
  ASSUME NEW q \in Seq(Cells), Ordered(q), NEW c \in Cells, c.cmd # "netinfo"
  PROVE  Ordered(Append(q, c))
BY DEF Ordered

LEMMA OrderedConcat ==
  ASSUME NEW q \in Seq(Cells), Ordered(q), NEW r \in Seq(Cells), Ordered(r)
  PROVE  Ordered(q \o r)
<1>. DEFINE s == q \o r
<1>. SUFFICES ASSUME NEW j \in 1 .. Len(s), s[j].cmd = "netinfo"
              PROVE  \E i \in 1 .. Len(s) : i < j /\ s[i].cmd = "authenticate"
  BY DEF Ordered
<1>1. /\ Len(s) = Len(q) + Len(r)
      /\ \A k \in 1 .. Len(s) : s[k] = IF k <= Len(q) THEN q[k] ELSE r[k - Len(q)]
  BY ConcatProperties
<1>2. Len(q) \in Nat /\ Len(r) \in Nat
  OBVIOUS
<1>. HIDE DEF s
<1>3. CASE j <= Len(q)
  <2>1. j \in 1 .. Len(q) /\ q[j].cmd = "netinfo"
    BY <1>1, <1>2, <1>3
  <2>2. PICK i \in 1 .. Len(q) : i < j /\ q[i].cmd = "authenticate"
    BY <2>1 DEF Ordered
  <2>3. i \in 1 .. Len(s) /\ s[i] = q[i]
    BY <1>1, <1>2
  <2> QED
    BY <2>2, <2>3
<1>4. CASE j > Len(q)
  <2>1. j - Len(q) \in 1 .. Len(r) /\ r[j - Len(q)].cmd = "netinfo"
    BY <1>1, <1>2, <1>4
  <2>2. PICK i \in 1 .. Len(r) : i < j - Len(q) /\ r[i].cmd = "authenticate"
    BY <2>1 DEF Ordered
  <2>3. i + Len(q) \in 1 .. Len(s) /\ i + Len(q) > Len(q) /\ i + Len(q) - Len(q) = i
    BY <1>1, <1>2
  <2>4. s[i + Len(q)] = r[i]
    BY <1>1, <1>2, <2>3
  <2>5. i + Len(q) < j
    BY <1>2, <2>2
  <2> QED
    BY <2>2, <2>3, <2>4, <2>5
<1> QED
  BY <1>2, <1>3, <1>4

LEMMA OrderedTail ==
  ASSUME NEW q \in Seq(Cells), Ordered(q), q # <<>>, Head(q).cmd # "authenticate"
  PROVE  Ordered(Tail(q))
<1>. DEFINE s == Tail(q)
<1>. SUFFICES ASSUME NEW j \in 1 .. Len(s), s[j].cmd = "netinfo"
              PROVE  \E i \in 1 .. Len(s) : i < j /\ s[i].cmd = "authenticate"
  BY DEF Ordered
<1>1. Len(s) = Len(q) - 1 /\ (\A k \in 1 .. Len(s) : s[k] = q[k + 1]) /\ Head(q) = q[1]
  BY HeadTailProperties
<1>2. Len(q) \in Nat
  OBVIOUS
<1>. HIDE DEF s
<1>3. j + 1 \in 1 .. Len(q) /\ q[j + 1].cmd = "netinfo"
  BY <1>1, <1>2
<1>4. PICK i \in 1 .. Len(q) : i < j + 1 /\ q[i].cmd = "authenticate"
  BY <1>3 DEF Ordered
<1>5. i # 1
  BY <1>1, <1>4
<1>6. i - 1 \in 1 .. Len(s) /\ i - 1 < j /\ (i - 1) + 1 = i
  BY <1>1, <1>2, <1>4, <1>5
<1> QED
  BY <1>1, <1>4, <1>6

LEMMA OrderedHead ==
  ASSUME NEW q \in Seq(Cells), Ordered(q), q # <<>>
  PROVE  Head(q).cmd # "netinfo"
<1>1. Len(q) \in Nat /\ 1 \in 1 .. Len(q) /\ Head(q) = q[1]
  OBVIOUS
<1> QED
  BY <1>1 DEF Ordered

LEMMA OrderedPair ==
  ASSUME NEW a \in Cells, NEW c \in Cells, a.cmd = "authenticate"
  PROVE  Ordered(Append(Append(<<>>, a), c))
<1>. DEFINE s == Append(Append(<<>>, a), c)
<1>1. Len(s) = 2 /\ s[1] = a /\ s[2] = c
  OBVIOUS
<1>. HIDE DEF s
<1> QED
  BY <1>1 DEF Ordered, s

LEMMA EndedFine ==
  ASSUME NEW d, Before(d), NEW u, Ended(u, d), NEW x
  PROVE  Fine(u, d) /\ Paired(u, d, x)
<1>1. u.out = <<>> /\ u.out \in Seq(CellsOf(Shown(d))) /\ Ordered(u.out)
  BY EmptySeq, OrderedEmpty DEF Ended, Before
<1>2. ~u.hs.on /\ u.ok
  BY DEF Ended, Before, EndOK, NoHandshake
<1> QED
  BY <1>1, <1>2 DEF Ended, Fine, Paired, EndOK, KindOK, TakesFor, Knows, Unproved

\* What an end is, apart from what it wrote.
LEMMA LikeFine ==
  ASSUME NEW d, Before(d), NEW u, Like(u, d), NEW x,
         u.out \in Seq(CellsOf(Shown(d))),
         Started(d) /\ d.public /\ d.st # "v2" => Ordered(u.out)
  PROVE  Fine(u, d) /\ (KindOK(d) /\ TakesFor(d, x) => Paired(u, d, x))
<1>1. EndOK(u)
  BY DEF Before, EndOK, Like, SameHs, SameEnd, Started
<1>2. Fine(u, d)
  BY <1>1 DEF Fine, Like
<1>3. KindOK(d) => KindOK(u)
  BY DEF KindOK, Like
<1>4. TakesFor(d, x) => TakesFor(u, x)
  BY DEF TakesFor, Knows, Like, SameHs, SameEnd
<1>5. Unproved(u) => Unproved(d)
  BY DEF Unproved, Like, SameHs
<1> QED
  BY <1>2, <1>3, <1>4, <1>5 DEF Paired

LEMMA SameFine ==
  ASSUME NEW d, Before(d), NEW x
  PROVE  Like(d, d) /\ Fine(d, d) /\ (KindOK(d) /\ TakesFor(d, x) => Paired(d, d, x))
<1>1. Like(d, d)
  BY HandshakeParts DEF Before, Like, SameEnd, SameHs
<1>2. d.out = <<>> /\ d.out \in Seq(CellsOf(Shown(d))) /\ Ordered(d.out)
  BY EmptySeq, OrderedEmpty DEF Before
<1> QED
  BY <1>1, <1>2, LikeFine

\* An end after TLS showed it the other's key, if it did not close.
Held(u, d, k) ==
  /\ u \in ConnRecs /\ SameEnd(u, d) /\ k \in KeysOrNone /\ (Started(d) => k # 0)
  /\ u.id = k /\ u.proved = k /\ u.half = HalfFor(d.me, k)
  /\ u.st = d.st /\ u.proto = d.proto /\ u.hs = d.hs /\ u.out = d.out /\ u.ok = d.ok
NoBad(key) == IF key = Bad THEN 0 ELSE key

LEMMA CheckedFields ==
  ASSUME NEW d \in ConnRecs, NEW key \in Keys \cup {0, Bad}
  PROVE  Ended(Checked(d, key), d) \/ Held(Checked(d, key), d, NoBad(key))
<1>1. NoBad(key) \in KeysOrNone /\ (key \notin {0, Bad} => key \in Keys /\ key # 0 /\ NoBad(key) = key)
  BY HandshakeAssumption DEF NoBad, KeysOrNone
<1>2. CASE ~Started(d)
  <2>. DEFINE k == NoBad(key)
              v == SetHalf(d, k)
              u == [v EXCEPT !.id = k, !.proved = k]
  <2>1. Checked(d, key) = u
    BY <1>2 DEF Checked, NoBad
  <2>2. k \in KeysOrNone
    BY <1>1
  <2>. HIDE DEF k
  <2>3. /\ v \in ConnRecs /\ SameEnd(v, d) /\ v.half = HalfFor(d.me, k)
        /\ v.st = d.st /\ v.proto = d.proto /\ v.hs = d.hs /\ v.out = d.out /\ v.ok = d.ok
    BY <2>2, SetHalfFields
  <2>. HIDE DEF v
  <2>4. Held(u, d, k)
    BY <1>2, <2>2, <2>3 DEF Held, SameEnd, ConnRecs
  <2> QED
    BY <2>1, <2>4 DEF k
<1>3. CASE Started(d) /\ key \in {0, Bad}
  BY <1>3, ClosedFields DEF Checked
<1>4. CASE Started(d) /\ key \notin {0, Bad}
  <2>. DEFINE v == SetHalf(d, key)
              u == Learned(v, key)
  <2>1. Checked(d, key) = u
    BY <1>4 DEF Checked
  <2>2. key \in Keys /\ key # 0 /\ key \in KeysOrNone
    BY <1>1, <1>4 DEF KeysOrNone
  <2>3. /\ v \in ConnRecs /\ SameEnd(v, d) /\ v.half = HalfFor(d.me, key)
        /\ v.st = d.st /\ v.proto = d.proto /\ v.hs = d.hs /\ v.out = d.out /\ v.ok = d.ok
    BY <2>2, SetHalfFields
  <2>. HIDE DEF v
  <2>4. Ended(u, v) \/ Knew(u, v, key)
    BY <2>2, <2>3, LearnedFields
  <2>. HIDE DEF u
  <2>5. Ended(u, v) => Ended(u, d)
    BY <2>3 DEF Ended, SameEnd
  <2>6. Knew(u, v, key) => Held(u, d, key)
    BY <1>4, <2>2, <2>3 DEF Knew, Held, SameEnd
  <2>7. NoBad(key) = key
    BY <1>1, <1>4
  <2> QED
    BY <2>1, <2>4, <2>5, <2>6, <2>7
<1> QED
  BY <1>2, <1>3, <1>4

\* The new handshake state and its VERSIONS.
Greeted(u, d, st) ==
  /\ u \in ConnRecs /\ SameEnd(u, d) /\ u.st = st /\ u.proto = d.proto
  /\ u.id = d.id /\ u.half = d.half /\ u.proved = d.proved /\ u.ok = d.ok
  /\ u.hs.on /\ ~u.hs.receivedVersions /\ u.hs.sentVersions /\ ~u.hs.authenticated /\ u.hs.certs = 0
  /\ \E vs \in SUBSET (1 .. 3) : u.out = Append(d.out, Versions(vs))

LEMMA GreetedFields ==
  ASSUME NEW d \in ConnRecs, ~d.hs.on, NEW st \in States, NEW v3 \in BOOLEAN
  PROVE  Greeted(SendVersions(WithHandshake([d EXCEPT !.st = st]), v3), d, st)
<1>. DEFINE b == WithHandshake([d EXCEPT !.st = st])
            u == SendVersions(b, v3)
<1>1. Begun(b, d, st)
  BY WithHandshakeFields
<1>. HIDE DEF b
<1>2. /\ b \in ConnRecs /\ b.hs.on /\ ~b.hs.sentVersions /\ ~b.hs.receivedVersions
      /\ ~b.hs.authenticated /\ b.hs.certs = 0
  BY <1>1 DEF Begun, NewHandshake, NoHandshake
<1>3. PICK vs \in SUBSET (1 .. 3) : WroteVersions(u, b, Versions(vs))
  BY <1>2, SendVersionsFields
<1>. HIDE DEF u
<1>4. Greeted(u, d, st)
  BY <1>1, <1>2, <1>3 DEF Begun, WroteVersions, Greeted, SameEnd
<1> QED
  BY <1>4 DEF u, b

\* One cell that is neither a NETINFO nor signed by someone else.
LEMMA WroteOne ==
  ASSUME NEW x, NEW c \in CellsOf(x)
  PROVE  /\ Append(<<>>, c) \in Seq(CellsOf(x))
         /\ c.cmd # "netinfo" => Ordered(Append(<<>>, c))
<1>1. c \in Cells /\ <<>> \in Seq(Cells) /\ <<>> \in Seq(CellsOf(x))
  BY EmptySeq DEF CellsOf
<1>2. Append(<<>>, c) \in Seq(CellsOf(x))
  BY <1>1
<1>3. c.cmd # "netinfo" => Ordered(Append(<<>>, c))
  BY <1>1, OrderedEmpty, OrderedAppend
<1> QED
  BY <1>2, <1>3

LEMMA FinishFine ==
  ASSUME NEW d, Before(d), d.st \in {"tls", "client_reneg", "server_reneg"},
         NEW key \in Keys \cup {0, Bad}, NEW x
  PROVE  /\ Fine(FinishHandshake(d, key), d) /\ ~Unproved(FinishHandshake(d, key))
         /\ tls \in {1, 2} /\ key = x /\ x # Bad => Paired(FinishHandshake(d, key), d, x)
<1>. DEFINE u == Checked(d, key)
            r == FinishHandshake(d, key)
<1>1. d \in ConnRecs /\ ~d.hs.on /\ d.proto = 0 /\ d.ok /\ d.out = <<>>
  BY DEF Before, EndOK
<1>2. Ended(u, d) \/ Held(u, d, NoBad(key))
  BY <1>1, CheckedFields
<1>3. CASE u.st = "closed"
  <2>1. r = u
    BY <1>3 DEF FinishHandshake
  <2>2. Ended(u, d)
    BY <1>2, <1>3 DEF Held
  <2>3. ~Unproved(r)
    BY <1>3, <2>1 DEF Unproved
  <2> QED
    BY <2>1, <2>2, <2>3, EndedFine
<1>4. CASE u.st # "closed"
  <2>1. Held(u, d, NoBad(key)) /\ (key = x /\ x # Bad => NoBad(key) = x)
    BY <1>2, <1>4 DEF Ended, NoBad
  <2>2. CASE tls = 1
    <3>. DEFINE v == [u EXCEPT !.proto = 1]
    <3>1. r = Opened(v)
      BY <1>4, <2>2 DEF FinishHandshake
    <3>. HIDE DEF u
    <3>2. /\ v \in ConnRecs /\ SameEnd(v, d) /\ v.proto = 1 /\ v.st = d.st /\ v.hs = d.hs
          /\ v.out = d.out /\ v.ok = d.ok /\ v.id = u.id /\ v.proved = u.proved /\ v.half = u.half
      BY <2>1 DEF Held, ConnRecs, SameEnd
    <3>. HIDE DEF v
    <3>3. Ended(r, v) \/ OpenNow(r, v)
      BY <3>1, <3>2, OpenedFields
    <3>. HIDE DEF r
    <3>4. CASE Ended(r, v)
      <4>1. Ended(r, d)
        BY <3>2, <3>4 DEF Ended, SameEnd
      <4>2. ~Unproved(r)
        BY <4>1 DEF Ended, Unproved
      <4> QED
        BY <4>1, <4>2, EndedFine DEF r
    <3>5. CASE OpenNow(r, v)
      <4>1. r.out = <<>> /\ r.out \in Seq(CellsOf(Shown(d))) /\ Ordered(r.out)
        BY <1>1, <3>2, <3>5, EmptySeq, OrderedEmpty DEF OpenNow
      <4>2. EndOK(r)
        BY <1>1, <2>1, <3>2, <3>5 DEF EndOK, OpenNow, Held, SameEnd, Started, NoHandshake
      <4>3. Fine(r, d)
        BY <4>1, <4>2, <3>2, <3>5 DEF Fine, OpenNow, SameEnd
      <4>4. KindOK(r) /\ ~Unproved(r)
        BY <2>2, <3>2, <3>5 DEF KindOK, OpenNow, Unproved
      <4>5. key = x /\ x # Bad => TakesFor(r, x)
        BY <2>1, <3>2, <3>5 DEF TakesFor, OpenNow, Held, SameEnd, Knows
      <4> QED
        BY <4>3, <4>4, <4>5 DEF Paired, r
    <3> QED
      BY <3>3, <3>4, <3>5
  <2>3. CASE tls # 1
    <3>1. r = SendVersions(WithHandshake([u EXCEPT !.st = "v2"]), FALSE)
      BY <1>4, <2>3 DEF FinishHandshake
    <3>. HIDE DEF u
    <3>2. u \in ConnRecs /\ ~u.hs.on /\ u.out = <<>> /\ u.ok /\ u.proto = 0
      BY <1>1, <2>1 DEF Held
    <3>3. Greeted(r, u, "v2")
      BY <3>1, <3>2, GreetedFields DEF States
    <3>. HIDE DEF r
    <3>4. PICK vs \in SUBSET (1 .. 3) : r.out = Append(<<>>, Versions(vs))
      BY <3>2, <3>3 DEF Greeted
    <3>5. r.out \in Seq(CellsOf(Shown(d))) /\ Ordered(r.out)
      <4>1. Versions(vs) \in CellsOf(Shown(d)) /\ Versions(vs).cmd = "versions"
        BY CellTypes
      <4> QED
        BY <3>4, <4>1, WroteOne
    <3>6. EndOK(r)
      BY <2>1, <3>2, <3>3 DEF EndOK, Greeted, Held, SameEnd, Started
    <3>7. Fine(r, d)
      BY <2>1, <3>3, <3>5, <3>6 DEF Fine, Greeted, SameEnd, Held
    <3>8. ~Unproved(r) /\ (tls \in {1, 2} => KindOK(r))
      BY <2>3, <3>3 DEF KindOK, Greeted, Unproved
    <3>9. key = x /\ x # Bad => TakesFor(r, x)
      BY <2>1, <3>3 DEF TakesFor, Greeted, Held, SameEnd, Knows
    <3> QED
      BY <3>7, <3>8, <3>9 DEF Paired, r
  <2> QED
    BY <2>2, <2>3
<1> QED
  BY <1>3, <1>4

LEMMA TlsDoneFine ==
  ASSUME NEW d, Before(d), d.st = "tls", tls \in 1 .. 3,
         NEW key \in Keys \cup {0, Bad}, NEW x
  PROVE  /\ Fine(TlsDone(d, key), d)
         /\ key = x /\ x # Bad => Paired(TlsDone(d, key), d, x)
         /\ tls = 2 => /\ TlsDone(d, key).out = <<>>
                       /\ TlsDone(d, key).st = IF Started(d) THEN "client_reneg" ELSE "server_reneg"
<1>. DEFINE r == TlsDone(d, key)
<1>1. d \in ConnRecs /\ ~d.hs.on /\ d.proto = 0 /\ d.ok /\ d.out = <<>> /\ d.hs \in Handshakes
  BY HandshakeParts DEF Before, EndOK
<1>2. CASE tls = 1
  <2>1. r = FinishHandshake(d, key)
    BY <1>2 DEF TlsDone
  <2>. HIDE DEF r
  <2> QED
    BY <1>2, <2>1, FinishFine DEF r
<1>3. ASSUME NEW st \in {"client_reneg", "server_reneg"}, r = [d EXCEPT !.st = st],
             st = "client_reneg" => tls = 2, st = "server_reneg" => tls \in {2, 3},
             Started(d) <=> st = "client_reneg"
      PROVE  Fine(r, d) /\ Paired(r, d, x) /\ r.out = <<>> /\ r.st = st
  <2>. HIDE DEF r
  <2>1. /\ r \in ConnRecs /\ SameEnd(r, d) /\ r.st = st /\ r.hs = d.hs /\ r.proto = 0
        /\ r.ok /\ r.out = <<>>
    BY <1>1, <1>3 DEF ConnRecs, States, SameEnd
  <2>2. r.out \in Seq(CellsOf(Shown(d))) /\ Ordered(r.out)
    BY <2>1, EmptySeq, OrderedEmpty
  <2>3. EndOK(r)
    BY <1>1, <1>3, <2>1 DEF EndOK, Started, SameEnd
  <2>4. Paired(r, d, x)
    BY <1>3, <2>1 DEF Paired, KindOK, TakesFor, Knows, Unproved
  <2> QED
    BY <2>1, <2>2, <2>3, <2>4 DEF Fine
<1>4. CASE tls > 1 /\ ~Started(d)
  <2>1. r = [d EXCEPT !.st = "server_reneg"]
    BY <1>4 DEF TlsDone
  <2> QED
    BY <1>3, <1>4, <2>1
<1>5. CASE tls = 2 /\ Started(d)
  <2>1. r = [d EXCEPT !.st = "client_reneg"]
    BY <1>5 DEF TlsDone
  <2> QED
    BY <1>3, <1>5, <2>1
<1>6. CASE tls = 3 /\ Started(d)
  <2>1. r = SendVersions(WithHandshake([d EXCEPT !.st = "v3"]), TRUE)
    BY <1>6 DEF TlsDone, LaunchV3
  <2>2. Greeted(r, d, "v3")
    BY <1>1, <2>1, GreetedFields DEF States
  <2>. HIDE DEF r
  <2>3. PICK vs \in SUBSET (1 .. 3) : r.out = Append(<<>>, Versions(vs))
    BY <1>1, <2>2 DEF Greeted
  <2>4. r.out \in Seq(CellsOf(Shown(d))) /\ Ordered(r.out)
    <3>1. Versions(vs) \in CellsOf(Shown(d)) /\ Versions(vs).cmd = "versions"
      BY CellTypes
    <3> QED
      BY <2>3, <3>1, WroteOne
  <2>5. EndOK(r)
    BY <1>1, <1>6, <2>2 DEF EndOK, Greeted, SameEnd, Started
  <2>6. Fine(r, d)
    BY <2>2, <2>4, <2>5 DEF Fine, Greeted
  <2>7. Paired(r, d, x)
    BY <1>6, <2>2 DEF Paired, KindOK, TakesFor, Knows, Unproved, Greeted
  <2> QED
    BY <1>6, <2>6, <2>7 DEF r
<1> QED
  BY <1>2, <1>4, <1>5, <1>6

-----------------------------------------------------------------------------
(* Cells. *)

\* What is known of the cell c that comes from an end that shows key x.
Expected(d, c, x) ==
  /\ KindOK(d) /\ TakesFor(d, x) /\ c \in CellsOf(x)
  /\ d.st = "server_reneg" => tls = 3
  /\ ~Started(d) /\ d.st = "v3" /\ ~d.hs.authenticated /\ c.cmd = "netinfo" => x = 0
\* The end is none the worse for cell c.
Serves(u, d, c, x) ==
  /\ Fine(u, d)
  /\ Expected(d, c, x) =>
       Paired(u, d, x) /\ (Unproved(u) /\ ~Started(d) => c.cmd # "authenticate")

LEMMA EndedServes ==
  ASSUME NEW d, Before(d), NEW u, Ended(u, d), NEW c, NEW x
  PROVE  Serves(u, d, c, x)
BY EndedFine DEF Serves, Ended, Unproved

LEMMA SameServes ==
  ASSUME NEW d, Before(d), NEW c, NEW x, c.cmd # "authenticate" \/ ~Unproved(d)
  PROVE  Serves(d, d, c, x)
BY SameFine DEF Serves, Expected

\* Open: nothing changes but the state.
LEMMA OpenedServes ==
  ASSUME NEW d, Before(d), d.st \in {"v2", "v3"}, d.hs.receivedVersions,
         d.st = "v3" => d.hs.authenticated, NEW c, NEW x
  PROVE  Serves(Opened(d), d, c, x)
<1>. DEFINE r == Opened(d)
<1>1. Ended(r, d) \/ OpenNow(r, d)
  BY OpenedFields DEF Before
<1>. HIDE DEF r
<1>2. CASE Ended(r, d)
  BY <1>2, EndedServes DEF r
<1>3. CASE OpenNow(r, d)
  <2>1. r.out = <<>> /\ r.out \in Seq(CellsOf(Shown(d))) /\ Ordered(r.out)
    BY <1>3, EmptySeq, OrderedEmpty DEF OpenNow, Before
  <2>2. EndOK(r)
    BY <1>3 DEF OpenNow, Before, EndOK, SameEnd, Started, NoHandshake
  <2>3. Fine(r, d)
    BY <1>3, <2>1, <2>2 DEF Fine, OpenNow
  <2>4. Expected(d, c, x) => KindOK(r) /\ TakesFor(r, x) /\ ~Unproved(r)
    BY <1>3 DEF Expected, KindOK, TakesFor, Knows, Unproved, OpenNow, SameEnd, Before, EndOK
  <2> QED
    BY <2>3, <2>4 DEF Serves, Paired, r
<1> QED
  BY <1>1, <1>2, <1>3

LEMMA NetinfoServes ==
  ASSUME NEW d, Before(d), NEW c, c.cmd = "netinfo", NEW x
  PROVE  Serves(NetinfoCell(d), d, c, x)
<1>. DEFINE r == NetinfoCell(d)
<1>1. CASE d.proto < 2 \/ ~d.st \in {"v2", "v3"}
  BY <1>1, SameServes DEF NetinfoCell
<1>2. CASE d.proto >= 2 /\ d.st \in {"v2", "v3"}
  <2>1. d \in ConnRecs /\ d.proto \in 0 .. 3
    BY DEF Before, ConnRecs
  <2>2. d.hs.receivedVersions /\ ~(d.st = "v3" /\ d.proto < 3) /\ ~(d.proto < 2)
    BY <1>2, <2>1 DEF Before, EndOK
  <2>3. CASE d.st = "v3" /\ ~d.hs.authenticated /\ Started(d)
    <3>1. r = Closed(d)
      BY <1>2, <2>2, <2>3 DEF NetinfoCell
    <3> QED
      BY <2>1, <3>1, ClosedFields, EndedServes
  <2>4. CASE d.st = "v3" /\ ~d.hs.authenticated /\ ~Started(d)
    <3>. DEFINE v == SetHalf(d, 0)
                u == [v EXCEPT !.id = 0, !.proved = 0]
    <3>1. r = Opened(u)
      BY <1>2, <2>2, <2>4 DEF NetinfoCell
    <3>2. 0 \in KeysOrNone
      BY DEF KeysOrNone
    <3>3. /\ v \in ConnRecs /\ SameEnd(v, d) /\ v.half = HalfFor(d.me, 0)
          /\ v.st = d.st /\ v.proto = d.proto /\ v.hs = d.hs /\ v.out = d.out /\ v.ok = d.ok
      BY <2>1, <3>2, SetHalfFields
    <3>. HIDE DEF v
    <3>4. /\ u \in ConnRecs /\ SameEnd(u, d) /\ u.half = HalfFor(d.me, 0) /\ u.id = 0 /\ u.proved = 0
          /\ u.st = d.st /\ u.proto = d.proto /\ u.hs = d.hs /\ u.out = d.out /\ u.ok = d.ok
      BY <3>2, <3>3 DEF ConnRecs, SameEnd
    <3>. HIDE DEF u, r
    <3>5. Ended(r, u) \/ OpenNow(r, u)
      BY <3>1, <3>4, OpenedFields
    <3>6. CASE Ended(r, u)
      <4>1. Ended(r, d)
        BY <3>4, <3>6 DEF Ended, SameEnd
      <4> QED
        BY <4>1, EndedServes DEF r
    <3>7. CASE OpenNow(r, u)
      <4>1. r.out = <<>> /\ r.out \in Seq(CellsOf(Shown(d))) /\ Ordered(r.out)
        BY <3>4, <3>7, EmptySeq, OrderedEmpty DEF OpenNow, Before
      <4>2. EndOK(r)
        BY <2>4, <3>4, <3>7 DEF OpenNow, Before, EndOK, SameEnd, Started, NoHandshake
      <4>3. Fine(r, d)
        BY <3>4, <3>7, <4>1, <4>2 DEF Fine, OpenNow, SameEnd
      <4>4. Expected(d, c, x) => x = 0
        BY <2>4 DEF Expected
      <4>5. Expected(d, c, x) => KindOK(r)
        BY <2>2, <2>4, <3>4, <3>7 DEF Expected, KindOK, OpenNow, Before, EndOK
      <4>6. x = 0 => TakesFor(r, x)
        BY <3>4, <3>7 DEF TakesFor, Knows, OpenNow, SameEnd
      <4>7. ~Unproved(r)
        BY <3>7 DEF Unproved, OpenNow
      <4> QED
        BY <4>3, <4>4, <4>5, <4>6, <4>7 DEF Serves, Paired, r
    <3> QED
      BY <3>5, <3>6, <3>7
  <2>5. CASE d.st = "v3" => d.hs.authenticated
    <3>1. r = Opened(d)
      BY <1>2, <2>2, <2>5 DEF NetinfoCell
    <3> QED
      BY <1>2, <2>2, <2>5, <3>1, OpenedServes
  <2> QED
    BY <2>3, <2>4, <2>5
<1> QED
  <2>1. d.proto \in 0 .. 3
    BY DEF Before, ConnRecs
  <2> QED
    BY <1>1, <1>2, <2>1

\* The version is known.
Heard(u, d, v) ==
  /\ u \in ConnRecs /\ SameEnd(u, d) /\ u.proto = v /\ u.hs.receivedVersions
  /\ u.st = d.st /\ u.id = d.id /\ u.half = d.half /\ u.proved = d.proved
  /\ u.ok = d.ok /\ u.out = d.out
  /\ u.hs.on = d.hs.on /\ u.hs.sentVersions = d.hs.sentVersions /\ u.hs.certs = d.hs.certs
  /\ u.hs.authenticated = d.hs.authenticated

LEMMA HeardFields ==
  ASSUME NEW d \in ConnRecs, NEW v \in 0 .. 3
  PROVE  Heard([d EXCEPT !.proto = v, !.hs.receivedVersions = TRUE], d, v)
<1>. DEFINE h == [d.hs EXCEPT !.receivedVersions = TRUE]
            u == [d EXCEPT !.proto = v, !.hs = h]
<1>1. [d EXCEPT !.proto = v, !.hs.receivedVersions = TRUE] = u
  BY DEF ConnRecs
<1>2. /\ h \in Handshakes /\ h.receivedVersions /\ h.on = d.hs.on
      /\ h.sentVersions = d.hs.sentVersions /\ h.certs = d.hs.certs
      /\ h.authenticated = d.hs.authenticated
  BY HandshakeParts DEF Handshakes
<1>. HIDE DEF h
<1>3. Heard(u, d, v)
  BY <1>2 DEF Heard, SameEnd, ConnRecs
<1> QED
  BY <1>1, <1>3

\* What is written and the sent VERSIONS aside, the end is as it was.
Answered(u, d) ==
  /\ u \in ConnRecs /\ SameEnd(u, d) /\ u.proto = d.proto
  /\ u.st = d.st /\ u.id = d.id /\ u.half = d.half /\ u.proved = d.proved
  /\ u.ok = d.ok /\ u.out \in Seq(CellsOf(Shown(d))) /\ (Started(d) => Ordered(u.out))
  /\ u.hs.on = d.hs.on /\ u.hs.receivedVersions = d.hs.receivedVersions /\ u.hs.certs = d.hs.certs
  /\ u.hs.authenticated = d.hs.authenticated
  /\ u.hs.sentVersions <=> ~Started(d) \/ d.hs.sentVersions

LEMMA AnsweredPut ==
  ASSUME NEW d, NEW u, Answered(u, d), NEW c \in CellsOf(Shown(d)), NEW v, Wrote(v, u, c),
         Started(d) => c.cmd # "netinfo"
  PROVE  Answered(v, d)
<1>1. c \in Cells /\ u.out \in Seq(Cells)
  BY DEF CellsOf, Answered, ConnRecs
<1>2. Append(u.out, c) \in Seq(CellsOf(Shown(d)))
  BY DEF Answered
<1>3. Started(d) => Ordered(Append(u.out, c))
  BY <1>1, OrderedAppend DEF Answered
<1> QED
  BY <1>2, <1>3 DEF Answered, Wrote, Like, SameHs, SameEnd

LEMMA AnswerFields ==
  ASSUME NEW d \in ConnRecs, d.hs.on, Started(d) \/ ~d.hs.sentVersions, d.out = <<>>
  PROVE  Answered(AnswerVersions(d), d)
<1>. DEFINE u == IF Started(d) THEN d ELSE SendVersions(d, TRUE)
            v == IF ~Started(d) \/ d.public THEN Put(u, Certs(d.me)) ELSE u
            w == IF ~Started(d) /\ d.public THEN Put(v, Cell("auth_challenge")) ELSE v
            r == IF Started(d) THEN w ELSE SendNetinfo(w)
            x == Shown(d)
<1>1. AnswerVersions(d) = r
  BY DEF AnswerVersions
<1>2. d.me \in Keys /\ d.hs \in Handshakes
  BY HandshakeParts
<1>3. /\ Certs(d.me) \in CellsOf(d.me) /\ Certs(d.me).cmd = "certs"
      /\ Cell("auth_challenge") \in CellsOf(x) /\ Cell("auth_challenge").cmd = "auth_challenge"
      /\ Cell("netinfo") \in CellsOf(x)
      /\ \A vs \in SUBSET (1 .. 3) : Versions(vs) \in CellsOf(x)
  BY <1>2, CellTypes DEF Cmds
<1>4. Answered(u, d) /\ u.hs.on
  <2>1. CASE Started(d)
    <3>1. d.out \in Seq(CellsOf(x)) /\ Ordered(d.out)
      BY EmptySeq, OrderedEmpty
    <3> QED
      BY <2>1, <3>1 DEF Answered, SameEnd
  <2>2. CASE ~Started(d)
    <3>1. PICK vs \in SUBSET (1 .. 3) : WroteVersions(SendVersions(d, TRUE), d, Versions(vs))
      BY <2>2, SendVersionsFields
    <3>2. Append(<<>>, Versions(vs)) \in Seq(CellsOf(x))
      BY <1>3, WroteOne
    <3> QED
      BY <2>2, <3>1, <3>2 DEF Answered, WroteVersions, SameEnd
  <2> QED
    BY <2>1, <2>2
<1>. HIDE DEF u
<1>5. Answered(v, d) /\ v.hs.on
  <2>1. CASE ~Started(d) \/ d.public
    <3>1. d.me = x
      BY <2>1 DEF Shown
    <3>2. u \in ConnRecs /\ Certs(d.me) \in Cells
      BY <1>3, <1>4, <3>1 DEF Answered, CellsOf
    <3>3. Wrote(v, u, Certs(d.me))
      BY <2>1, <3>2, PutFields DEF Wrote
    <3> QED
      BY <1>3, <1>4, <3>1, <3>3, AnsweredPut DEF Wrote, Like, SameHs
  <2> QED
    BY <1>4, <2>1
<1>. HIDE DEF v
<1>6. Answered(w, d) /\ w.hs.on
  <2>1. CASE ~Started(d) /\ d.public
    <3>2. v \in ConnRecs /\ Cell("auth_challenge") \in Cells
      BY <1>3, <1>5 DEF Answered, CellsOf
    <3>3. Wrote(w, v, Cell("auth_challenge"))
      BY <2>1, <3>2, PutFields DEF Wrote
    <3> QED
      BY <1>3, <1>5, <3>3, AnsweredPut DEF Wrote, Like, SameHs
  <2> QED
    BY <1>5, <2>1
<1>. HIDE DEF w
<1>7. Answered(r, d)
  <2>1. CASE ~Started(d)
    <3>1. Wrote(r, w, Cell("netinfo"))
      BY <1>6, <2>1, SendNetinfoFields DEF Answered
    <3> QED
      BY <1>3, <1>6, <2>1, <3>1, AnsweredPut
  <2> QED
    BY <1>6, <2>1
<1> QED
  BY <1>1, <1>7

LEMMA VersionsServes ==
  ASSUME NEW d, Before(d), NEW c, c.cmd = "versions", NEW x
  PROVE  Serves(VersionsCell(d, c), d, c, x)
<1>. DEFINE r == VersionsCell(d, c)
            vn == Highest(c.versions)
            u == [d EXCEPT !.proto = vn, !.hs.receivedVersions = TRUE]
<1>. SUFFICES ASSUME d.proto = 0, ~d.hs.receivedVersions, d.st \in {"v2", "v3"}
              PROVE  Serves(r, d, c, x)
  BY SameServes DEF VersionsCell
<1>1. d \in ConnRecs /\ d.hs.on /\ d.ok /\ d.out = <<>>
  BY DEF Before, EndOK
<1>2. r = Negotiated(d, c)
  BY DEF VersionsCell
<1>3. CASE d.st = "v3" /\ vn = 3
  <2>1. r = AnswerVersions(u)
    BY <1>2, <1>3 DEF Negotiated
  <2>2. Heard(u, d, 3)
    <3>1. u = [d EXCEPT !.proto = 3, !.hs.receivedVersions = TRUE] /\ 3 \in 0 .. 3
      BY <1>3
    <3>. HIDE DEF u
    <3> QED
      BY <1>1, <3>1, HeardFields
  <2>. HIDE DEF vn, u, r
  <2>3. d.hs.sentVersions <=> Started(d)
    BY <1>3 DEF Before, EndOK
  <2>4. Answered(r, u)
    BY <1>1, <2>1, <2>2, <2>3, AnswerFields DEF Heard, Started, SameEnd
  <2>5. EndOK(r)
    BY <1>3, <2>2, <2>3, <2>4 DEF EndOK, Before, Answered, Heard, SameEnd, Started
  <2>6. Fine(r, d)
    BY <2>2, <2>4, <2>5 DEF Fine, Answered, Heard, SameEnd, Started, Shown
  <2>7. Expected(d, c, x) => KindOK(r) /\ TakesFor(r, x) /\ (Unproved(r) => Unproved(d))
    BY <1>3, <2>2, <2>4 DEF Expected, KindOK, TakesFor, Knows, Unproved, Answered, Heard, SameEnd
  <2> QED
    BY <2>6, <2>7 DEF Serves, Paired, r
<1>4. CASE d.st = "v2" /\ vn = 2
  <2>1. r = SendNetinfo(u)
    BY <1>2, <1>4 DEF Negotiated
  <2>2. Heard(u, d, 2)
    <3>1. u = [d EXCEPT !.proto = 2, !.hs.receivedVersions = TRUE] /\ 2 \in 0 .. 3
      BY <1>4
    <3>. HIDE DEF u
    <3> QED
      BY <1>1, <3>1, HeardFields
  <2>. HIDE DEF vn, u, r
  <2>3. Wrote(r, u, Cell("netinfo"))
    BY <1>1, <2>1, <2>2, SendNetinfoFields DEF Heard
  <2>4. r.out \in Seq(CellsOf(Shown(d)))
    <3>1. Cell("netinfo") \in CellsOf(Shown(d))
      BY CellTypes DEF Cmds
    <3> QED
      BY <1>1, <2>2, <2>3, <3>1, WroteOne DEF Wrote, Heard
  <2>5. EndOK(r)
    BY <1>4, <2>2, <2>3 DEF EndOK, Before, Wrote, Like, SameHs, Heard, SameEnd, Started
  <2>6. Fine(r, d)
    BY <1>4, <2>2, <2>3, <2>4, <2>5 DEF Fine, Wrote, Like, Heard, SameEnd
  <2>7. Expected(d, c, x) => KindOK(r) /\ TakesFor(r, x) /\ ~Unproved(r)
    BY <1>4, <2>2, <2>3
    DEF Expected, KindOK, TakesFor, Knows, Unproved, Wrote, Like, SameHs, Heard, SameEnd
  <2> QED
    BY <2>6, <2>7 DEF Serves, Paired, r
<1>5. CASE ~(d.st = "v3" /\ vn = 3) /\ ~(d.st = "v2" /\ vn = 2)
  <2>1. r = Closed(d)
    BY <1>2, <1>5 DEF Negotiated
  <2> QED
    BY <1>1, <2>1, ClosedFields, EndedServes
<1> QED
  BY <1>3, <1>4, <1>5

LEMMA CertsServes ==
  ASSUME NEW d, Before(d), NEW c \in Cells, c.cmd = "certs", NEW x
  PROVE  Serves(CertsCell(d, c), d, c, x)
<1>. DEFINE r == CertsCell(d, c)
            refuse == d.st # "v3" \/ d.proto < 3 \/ d.hs.certs # 0 \/ d.hs.authenticated \/ c.key = Bad
<1>1. d \in ConnRecs /\ d.ok /\ d.out = <<>> /\ d.hs \in Handshakes
  BY HandshakeParts DEF Before, EndOK
<1>2. c.key # 0 /\ (c.key # Bad => c.key \in Keys /\ c.key \in KeysOrNone)
  BY DEF Cells, CellRecs, Signed, KeysOrNone
<1>3. CASE refuse
  <2>1. r = Closed(d)
    BY <1>3 DEF CertsCell
  <2> QED
    BY <1>1, <2>1, ClosedFields, EndedServes
<1>4. CASE ~refuse /\ ~Started(d)
  <2>. DEFINE h == [d.hs EXCEPT !.certs = c.key]
  <2>1. r = [d EXCEPT !.hs = h]
    BY <1>1, <1>4 DEF CertsCell, ConnRecs
  <2>2. /\ h \in Handshakes /\ h.on = d.hs.on /\ h.receivedVersions = d.hs.receivedVersions
        /\ h.sentVersions = d.hs.sentVersions /\ h.certs = c.key /\ ~h.authenticated
    BY <1>1, <1>2, <1>4 DEF Handshakes
  <2>. HIDE DEF h, r
  <2>3. /\ r \in ConnRecs /\ SameEnd(r, d) /\ r.hs = h /\ r.st = "v3" /\ r.proto = d.proto
        /\ r.id = d.id /\ r.half = d.half /\ r.proved = d.proved /\ r.out = <<>> /\ r.ok
    BY <1>1, <1>4, <2>1, <2>2 DEF ConnRecs, SameEnd
  <2>4. r.out \in Seq(CellsOf(Shown(d))) /\ Ordered(r.out)
    BY <2>3, EmptySeq, OrderedEmpty
  <2>5. EndOK(r)
    BY <1>4, <2>2, <2>3 DEF EndOK, Before, SameEnd, Started
  <2>6. Fine(r, d)
    BY <2>3, <2>4, <2>5 DEF Fine
  <2>7. Expected(d, c, x) => KindOK(r) /\ TakesFor(r, x) /\ Unproved(d)
    BY <1>4, <2>2, <2>3 DEF Expected, KindOK, TakesFor, Knows, Unproved, CellsOf, Signed
  <2> QED
    BY <2>6, <2>7 DEF Serves, Paired, r
<1>5. CASE ~refuse /\ Started(d)
  <2>. DEFINE h == [d.hs EXCEPT !.authenticated = TRUE]
              a == [d EXCEPT !.hs = h]
              b == SetHalf(a, c.key)
              u == Learned(b, c.key)
              g == [u.hs EXCEPT !.certs = c.key]
              v == [u EXCEPT !.hs = g]
  <2>1. /\ [d EXCEPT !.hs.authenticated = TRUE] = a
        /\ [u EXCEPT !.hs.certs = c.key] = v
    BY DEF ConnRecs
  <2>2. r = IF u.st = "closed" THEN u ELSE IF d.public THEN v ELSE SendNetinfo(v)
    BY <1>5, <2>1 DEF CertsCell
  <2>3. /\ h \in Handshakes /\ h.on = d.hs.on /\ h.receivedVersions = d.hs.receivedVersions
        /\ h.sentVersions = d.hs.sentVersions /\ h.certs = d.hs.certs /\ h.authenticated
    BY <1>1 DEF Handshakes
  <2>. HIDE DEF h
  <2>4. /\ a \in ConnRecs /\ SameEnd(a, d) /\ a.hs = h /\ a.st = "v3" /\ a.proto = d.proto
        /\ a.out = <<>> /\ a.ok
    BY <1>1, <1>5, <2>3 DEF ConnRecs, SameEnd
  <2>. HIDE DEF a
  <2>5. /\ b \in ConnRecs /\ SameEnd(b, d) /\ b.hs = h /\ b.st = "v3" /\ b.proto = d.proto
        /\ b.out = <<>> /\ b.ok /\ b.half = HalfFor(d.me, c.key)
    BY <1>2, <1>5, <2>4, SetHalfFields DEF SameEnd
  <2>. HIDE DEF b
  <2>6. Ended(u, b) \/ Knew(u, b, c.key)
    BY <1>2, <1>5, <2>5, LearnedFields
  <2>. HIDE DEF u, r
  <2>7. CASE Ended(u, b)
    <3>1. Ended(r, d)
      BY <1>1, <2>2, <2>5, <2>7 DEF Ended, SameEnd
    <3> QED
      BY <3>1, EndedServes DEF r
  <2>8. CASE Knew(u, b, c.key)
    <3>1. /\ g \in Handshakes /\ g.on = d.hs.on /\ g.receivedVersions = d.hs.receivedVersions
          /\ g.sentVersions = d.hs.sentVersions /\ g.certs = c.key /\ g.authenticated
      BY <1>2, <1>5, <2>3, <2>5, <2>8 DEF Knew, Handshakes
    <3>. HIDE DEF g
    <3>2. /\ v \in ConnRecs /\ SameEnd(v, d) /\ v.hs = g /\ v.st = "v3" /\ v.proto = d.proto
          /\ v.out = <<>> /\ v.ok /\ v.half = HalfFor(d.me, c.key) /\ v.id = c.key /\ v.proved = c.key
      BY <2>5, <2>8, <3>1 DEF ConnRecs, SameEnd, Knew
    <3>. HIDE DEF v
    <3>3. v.hs.on
      BY <1>5, <3>1, <3>2 DEF Before, EndOK
    <3>4. Like(v, v)
      BY <3>1, <3>2 DEF Like, SameEnd, SameHs
    <3>5. Cell("netinfo") \in CellsOf(Shown(d))
      BY CellTypes DEF Cmds
    <3>6. /\ Like(r, v) /\ r.out \in Seq(CellsOf(Shown(d)))
          /\ d.public => r.out = <<>>
      <4>1. CASE d.public
        BY <2>2, <2>5, <2>8, <3>2, <3>4, <4>1, EmptySeq DEF Knew
      <4>2. CASE ~d.public
        <5>1. Wrote(r, v, Cell("netinfo"))
          BY <2>2, <2>5, <2>8, <3>2, <3>3, <4>2, SendNetinfoFields DEF Knew
        <5> QED
          BY <3>2, <3>5, <4>2, <5>1, WroteOne DEF Wrote
      <4> QED
        BY <4>1, <4>2
    <3>7. EndOK(r)
      BY <1>2, <1>5, <3>1, <3>2, <3>6 DEF EndOK, Before, Like, SameHs, SameEnd, Started
    <3>8. Fine(r, d)
      BY <3>2, <3>6, <3>7, OrderedEmpty DEF Fine, Like, SameEnd
    <3>9. Expected(d, c, x) => KindOK(r) /\ TakesFor(r, x)
      BY <1>5, <3>1, <3>2, <3>6
      DEF Expected, KindOK, TakesFor, Knows, CellsOf, Signed, Like, SameHs, SameEnd
    <3>10. ~Unproved(r)
      BY <3>1, <3>2, <3>6 DEF Unproved, Like, SameHs
    <3> QED
      BY <3>8, <3>9, <3>10 DEF Serves, Paired, r
  <2> QED
    BY <2>6, <2>7, <2>8
<1> QED
  BY <1>3, <1>4, <1>5

LEMMA ChallengeServes ==
  ASSUME NEW d, Before(d), NEW c, c.cmd = "auth_challenge", NEW x
  PROVE  Serves(ChallengeCell(d), d, c, x)
<1>. DEFINE r == ChallengeCell(d)
            refuse == d.st # "v3" \/ d.proto < 3 \/ ~Started(d) \/ d.hs.challenged \/ d.hs.certs = 0
            h == [d.hs EXCEPT !.challenged = TRUE]
            u == [d EXCEPT !.hs = h]
            logs == <<d.hs.sent, d.hs.received>>
            a == Authenticate(d.me, logs)
            n == Cell("netinfo")
<1>1. d \in ConnRecs /\ d.ok /\ d.out = <<>> /\ d.hs \in Handshakes /\ d.me \in Keys
  BY HandshakeParts DEF Before, EndOK
<1>2. CASE refuse
  <2>1. r = Closed(d)
    BY <1>2 DEF ChallengeCell
  <2> QED
    BY <1>1, <2>1, ClosedFields, EndedServes
<1>3. CASE ~refuse
  <2>1. r = IF ~d.public THEN u ELSE SendNetinfo(Put(u, a))
    BY <1>1, <1>3 DEF ChallengeCell, ConnRecs
  <2>2. logs \in Seq(Seq(Cmds))
    BY <1>1, HandshakeParts
  <2>. HIDE DEF logs
  <2>3. /\ a \in CellsOf(d.me) /\ a \in Cells /\ a.cmd = "authenticate"
        /\ n \in CellsOf(d.me) /\ n \in Cells
    BY <1>1, <2>2, CellTypes DEF Cmds
  <2>. HIDE DEF a, n
  <2>4. SameHs(h, d.hs)
    BY <1>1 DEF SameHs, Handshakes
  <2>. HIDE DEF h
  <2>5. Like(u, d) /\ u.out = <<>>
    BY <1>1, <2>4 DEF Like, SameEnd, SameHs, ConnRecs
  <2>. HIDE DEF u, r
  <2>6. CASE ~d.public
    <3>1. r = u /\ r.out \in Seq(CellsOf(Shown(d)))
      BY <2>1, <2>5, <2>6, EmptySeq
    <3> QED
      BY <2>5, <2>6, <3>1, LikeFine DEF Serves, Expected, r
  <2>7. CASE d.public
    <3>1. Shown(d) = d.me
      BY <2>7 DEF Shown
    <3>2. Like(Put(u, a), u) /\ Put(u, a).out = Append(<<>>, a) /\ u \in ConnRecs
      BY <2>3, <2>5, PutFields DEF Like
    <3>3. Put(u, a) \in ConnRecs /\ Put(u, a).hs.on
      BY <1>3, <2>5, <3>2 DEF Like, SameHs, Before, EndOK
    <3>4. Wrote(r, Put(u, a), n)
      BY <2>1, <2>7, <3>3, SendNetinfoFields DEF n
    <3>5. r.out = Append(Append(<<>>, a), n)
      BY <3>2, <3>4 DEF Wrote
    <3>6. Like(r, d)
      BY <2>5, <3>2, <3>4 DEF Wrote, Like, SameHs, SameEnd
    <3>7. r.out \in Seq(CellsOf(Shown(d)))
      <4>1. Append(<<>>, a) \in Seq(CellsOf(d.me))
        BY <2>3, WroteOne
      <4> QED
        BY <2>3, <3>1, <3>5, <4>1
    <3>8. Ordered(r.out)
      BY <2>3, <3>5, OrderedPair
    <3> QED
      BY <3>6, <3>7, <3>8, LikeFine DEF Serves, Expected, r
  <2> QED
    BY <2>6, <2>7
<1> QED
  BY <1>2, <1>3

LEMMA AuthenticateServes ==
  ASSUME NEW d, Before(d), NEW c \in Cells, c.cmd = "authenticate", NEW x
  PROVE  Serves(AuthenticateCell(d, c), d, c, x)
<1>. DEFINE r == AuthenticateCell(d, c)
            refuse == \/ d.st # "v3" \/ d.proto < 3 \/ Started(d) \/ d.hs.authenticated \/ d.hs.certs = 0
                      \/ c.key # d.hs.certs \/ c.over # <<d.hs.received, d.hs.sent>>
            b == SetHalf(d, c.key)
            h == [b.hs EXCEPT !.authenticated = TRUE, !.logsReceived = FALSE]
<1>1. d \in ConnRecs /\ d.ok /\ d.out = <<>> /\ d.hs \in Handshakes
  BY HandshakeParts DEF Before, EndOK
<1>2. CASE refuse
  <2>1. r = Closed(d)
    BY <1>2 DEF AuthenticateCell
  <2> QED
    BY <1>1, <2>1, ClosedFields, EndedServes
<1>3. CASE ~refuse
  <2>1. c.key \in KeysOrNone /\ c.key # 0 /\ c.key = d.hs.certs
    BY <1>1, <1>3 DEF Handshakes, KeysOrNone
  <2>2. /\ b \in ConnRecs /\ SameEnd(b, d) /\ b.hs = d.hs /\ b.st = "v3" /\ b.proto = d.proto
        /\ b.out = <<>> /\ b.ok /\ b.half = HalfFor(d.me, c.key)
    BY <1>1, <1>3, <2>1, SetHalfFields
  <2>3. r = [b EXCEPT !.id = c.key, !.proved = c.key, !.hs = h]
    BY <1>3, <2>2 DEF AuthenticateCell, ConnRecs
  <2>. HIDE DEF b
  <2>4. /\ h \in Handshakes /\ h.on = d.hs.on /\ h.receivedVersions = d.hs.receivedVersions
        /\ h.sentVersions = d.hs.sentVersions /\ h.certs = c.key /\ h.authenticated
    BY <1>1, <2>1, <2>2 DEF Handshakes
  <2>. HIDE DEF h, r
  <2>5. /\ r \in ConnRecs /\ SameEnd(r, d) /\ r.hs = h /\ r.st = "v3" /\ r.proto = d.proto
        /\ r.out = <<>> /\ r.ok /\ r.half = HalfFor(d.me, c.key) /\ r.id = c.key /\ r.proved = c.key
    BY <2>1, <2>2, <2>3, <2>4 DEF ConnRecs, SameEnd
  <2>6. r.out \in Seq(CellsOf(Shown(d))) /\ Ordered(r.out)
    BY <2>5, EmptySeq, OrderedEmpty
  <2>7. EndOK(r)
    BY <1>3, <2>1, <2>4, <2>5 DEF EndOK, Before, SameEnd, Started
  <2>8. Fine(r, d)
    BY <2>5, <2>6, <2>7 DEF Fine
  <2>9. Expected(d, c, x) => KindOK(r) /\ TakesFor(r, x)
    BY <1>3, <2>4, <2>5
    DEF Expected, KindOK, TakesFor, Knows, CellsOf, Signed, SameEnd
  <2>10. ~Unproved(r)
    BY <2>4, <2>5 DEF Unproved
  <2> QED
    BY <2>8, <2>9, <2>10 DEF Serves, Paired, r
<1> QED
  BY <1>2, <1>3

\* Noting a cell first changes nothing of this.
LEMMA RecordedServes ==
  ASSUME NEW d, Before(d), NEW c \in Cells, NEW x
  PROVE  /\ Before(Recorded(d, c)) /\ Recorded(d, c).st = d.st
         /\ \A u : Serves(u, Recorded(d, c), c, x) => Serves(u, d, c, x)
<1>. DEFINE e == Recorded(d, c)
<1>1. Like(e, d) /\ e.out = <<>>
  BY RecordedFields DEF Before
<1>. HIDE DEF e
<1>2. Before(e) /\ e.st = d.st
  BY <1>1 DEF Before, EndOK, Like, SameHs, SameEnd, Started
<1>3. ASSUME NEW u, Serves(u, e, c, x) PROVE Serves(u, d, c, x)
  <2>1. Fine(u, d)
    BY <1>1, <1>3 DEF Serves, Fine, Like, SameEnd, Started, Shown
  <2>2. Expected(d, c, x) => Expected(e, c, x)
    BY <1>1 DEF Expected, KindOK, TakesFor, Knows, Like, SameHs, SameEnd, Started
  <2>3. Paired(u, e, x) => Paired(u, d, x)
    BY <1>1 DEF Paired, Unproved, Like, SameHs
  <2>4. Started(e) <=> Started(d)
    BY <1>1 DEF Started, Like, SameEnd
  <2> QED
    BY <1>3, <2>1, <2>2, <2>3, <2>4 DEF Serves
<1> QED
  BY <1>2, <1>3 DEF e

LEMMA FixedServes ==
  ASSUME NEW d, Before(d), NEW c \in Cells, c.cmd \in {"netinfo", "circuit"}, NEW x
  PROVE  Serves(FixedCell(d, c), d, c, x)
<1>1. CASE c.cmd = "netinfo"
  <2>1. FixedCell(d, c) = NetinfoCell(Recorded(d, c))
    BY <1>1 DEF FixedCell
  <2>2. Serves(NetinfoCell(Recorded(d, c)), Recorded(d, c), c, x)
    BY <1>1, RecordedServes, NetinfoServes
  <2> QED
    BY <2>1, <2>2, RecordedServes
<1>2. CASE c.cmd = "circuit" /\ d.st # "open"
  <2>1. FixedCell(d, c) = Closed(d)
    BY <1>2 DEF FixedCell
  <2> QED
    BY <2>1, ClosedFields, EndedServes DEF Before
<1>3. CASE c.cmd = "circuit" /\ d.st = "open"
  BY <1>3, SameServes DEF FixedCell
<1> QED
  BY <1>1, <1>2, <1>3

LEMMA VarServes ==
  ASSUME NEW d, Before(d), NEW c \in Cells,
         c.cmd \in {"versions", "certs", "auth_challenge", "authenticate", "vpadding"}, NEW x
  PROVE  Serves(VarCell(d, c), d, c, x)
<1>1. CASE c.cmd = "versions"
  BY <1>1, VersionsServes DEF VarCell
<1>2. CASE c.cmd = "certs"
  BY <1>2, CertsServes DEF VarCell
<1>3. CASE c.cmd = "auth_challenge"
  BY <1>3, ChallengeServes DEF VarCell
<1>4. CASE c.cmd = "authenticate"
  BY <1>4, AuthenticateServes DEF VarCell
<1>5. CASE c.cmd = "vpadding"
  BY <1>5, SameServes DEF VarCell
<1> QED
  BY <1>1, <1>2, <1>3, <1>4, <1>5

\* A v3 handshake that begins with a cell, at the responder.
LEMMA EnteredServes ==
  ASSUME NEW d, Before(d), d.st = "server_reneg", NEW c \in Cells, c.cmd # "authenticate", NEW x
  PROVE  /\ Before(EnterV3(d, c))
         /\ \A u : Serves(u, EnterV3(d, c), c, x) /\ c.cmd # "netinfo" => Serves(u, d, c, x)
<1>. DEFINE b == WithHandshake([d EXCEPT !.st = "v3"])
            e == EnterV3(d, c)
<1>1. d \in ConnRecs /\ ~d.hs.on /\ d.ok /\ d.out = <<>> /\ d.proto = 0 /\ ~Started(d)
  BY DEF Before, EndOK
<1>2. Begun(b, d, "v3")
  BY <1>1, WithHandshakeFields DEF States
<1>3. e = Recorded(b, c)
  BY DEF EnterV3
<1>. HIDE DEF b, e
<1>4. Like(e, b) /\ e.out = <<>>
  BY <1>1, <1>2, <1>3, RecordedFields DEF Begun
<1>5. /\ e \in ConnRecs /\ SameEnd(e, d) /\ e.st = "v3" /\ e.proto = 0 /\ e.ok /\ e.hs.on
      /\ ~e.hs.receivedVersions /\ ~e.hs.sentVersions /\ ~e.hs.authenticated /\ e.hs.certs = 0
  BY <1>1, <1>2, <1>4 DEF Like, SameHs, SameEnd, Begun, NewHandshake, NoHandshake
<1>6. Before(e)
  BY <1>1, <1>4, <1>5 DEF Before, EndOK, SameEnd, Started
<1>7. ASSUME NEW u, Serves(u, e, c, x), c.cmd # "netinfo" PROVE Serves(u, d, c, x)
  <2>1. Fine(u, d)
    BY <1>1, <1>5, <1>7 DEF Serves, Fine, SameEnd, Started, Shown
  <2>2. Expected(d, c, x) => Expected(e, c, x)
    BY <1>5, <1>7 DEF Expected, KindOK, TakesFor, Knows
  <2>3. Paired(u, e, x) => Paired(u, d, x)
    BY DEF Paired, Unproved
  <2> QED
    BY <1>7, <2>1, <2>2, <2>3 DEF Serves
<1> QED
  BY <1>6, <1>7 DEF e

LEMMA ReceivedServes ==
  ASSUME NEW d, Before(d), Reads(d), NEW c \in Cells, NEW x
  PROVE  Serves(Received(d, c), d, c, x)
<1>. DEFINE r == Received(d, c)
<1>1. CASE c.cmd \in {"netinfo", "circuit"}
  <2>1. r = FixedCell(d, c)
    BY <1>1 DEF Received
  <2> QED
    BY <1>1, <2>1, FixedServes
<1>2. CASE c.cmd \notin {"netinfo", "circuit"}
  <2>1. c.cmd \in {"versions", "certs", "auth_challenge", "authenticate", "vpadding"}
    BY <1>2 DEF Cells, CellRecs, Cmds
  <2>2. ASSUME r = Closed(d) PROVE Serves(r, d, c, x)
    BY <2>2, ClosedFields, EndedServes DEF Before
  <2>3. CASE d.st = "v2"
    <3>1. r = VarCell(d, c) \/ r = Closed(d)
      BY <1>2, <2>3 DEF Received
    <3> QED
      BY <2>1, <2>2, <3>1, VarServes
  <2>4. CASE d.st = "server_reneg" /\ c.cmd \in {"versions", "vpadding"}
    <3>1. r = VarCell(EnterV3(d, c), c)
      BY <1>2, <2>4 DEF Received
    <3>2. Serves(VarCell(EnterV3(d, c), c), EnterV3(d, c), c, x)
      BY <2>1, <2>4, EnteredServes, VarServes
    <3> QED
      BY <2>4, <3>1, <3>2, EnteredServes
  <2>5. CASE d.st = "server_reneg" /\ c.cmd \notin {"versions", "vpadding"}
    <3>1. r = Closed(d)
      BY <1>2, <2>5 DEF Received
    <3> QED
      BY <2>2, <3>1
  <2>6. CASE d.st = "v3"
    <3>1. r = VarCell(Recorded(d, c), c)
      BY <1>2, <2>6 DEF Received
    <3>2. Serves(VarCell(Recorded(d, c), c), Recorded(d, c), c, x)
      BY <2>1, RecordedServes, VarServes
    <3> QED
      BY <3>1, <3>2, RecordedServes
  <2>7. CASE d.st = "open"
    <3>1. r = d \/ r = VarCell(d, c)
      BY <1>2, <2>7 DEF Received
    <3>2. Serves(d, d, c, x)
      BY <2>7, SameServes DEF Unproved
    <3> QED
      BY <2>1, <3>1, <3>2, VarServes
  <2> QED
    BY <2>3, <2>4, <2>5, <2>6, <2>7 DEF Reads
<1> QED
  BY <1>1, <1>2

LEMMA CircuitFine ==
  ASSUME NEW d, Before(d), d.st = "open", NEW x
  PROVE  /\ Fine(Put(d, Cell("circuit")), d)
         /\ KindOK(d) /\ TakesFor(d, x) => Paired(Put(d, Cell("circuit")), d, x)
<1>. DEFINE c == Cell("circuit")
            u == Put(d, c)
<1>1. c \in CellsOf(Shown(d)) /\ c \in Cells /\ c.cmd = "circuit"
  BY CellTypes DEF Cmds
<1>. HIDE DEF c
<1>2. Like(u, d) /\ u.out = Append(<<>>, c)
  BY <1>1, PutFields DEF Before
<1>. HIDE DEF u
<1>3. u.out \in Seq(CellsOf(Shown(d))) /\ Ordered(u.out)
  BY <1>1, <1>2, WroteOne
<1> QED
  BY <1>2, <1>3, LikeFine DEF u, c

-----------------------------------------------------------------------------
(* Steps. *)

Settled(v, d) == v \in ConnRecs /\ SameEnd(v, d) /\ EndOK(v) /\ v.out = <<>>

LEMMA SettledFields ==
  ASSUME NEW d, NEW u, Fine(u, d), NEW x
  PROVE  LET v == [u EXCEPT !.out = <<>>, !.ok = TRUE]
         IN  /\ Settled(v, d) /\ v.st = u.st /\ u.ok /\ (Unproved(v) <=> Unproved(u))
             /\ Paired(u, d, x) => Paired(v, d, x)
<1>. DEFINE v == [u EXCEPT !.out = <<>>, !.ok = TRUE]
<1>1. <<>> \in Seq(Cells)
  BY EmptySeq
<1>2. /\ v \in ConnRecs /\ SameEnd(v, u) /\ v.ok /\ v.out = <<>> /\ v.st = u.st /\ v.proto = u.proto
      /\ v.id = u.id /\ v.half = u.half /\ v.proved = u.proved /\ v.hs = u.hs
  BY <1>1 DEF Fine, ConnRecs, SameEnd
<1>. HIDE DEF v
<1>3. Settled(v, d) /\ u.ok
  BY <1>2 DEF Settled, Fine, EndOK, SameEnd, Started
<1>4. Unproved(v) <=> Unproved(u)
  BY <1>2 DEF Unproved
<1>5. Paired(u, d, x) => Paired(v, d, x)
  BY <1>2, <1>4 DEF Paired, KindOK, TakesFor, Knows, SameEnd
<1> QED
  BY <1>2, <1>3, <1>4, <1>5 DEF v

LEMMA OtherEnd ==
  ASSUME NEW e \in Ends
  PROVE  /\ Other(e) \in Ends /\ Other(e) # e /\ Other(Other(e)) = e /\ Ends = {e, Other(e)}
         /\ e = I \/ Other(e) = I
BY DEF Ends, Other, I, R

\* What the step of one end leaves to be shown of the two.
RestOfPair ==
  /\ conn[R].st = "tls" => conn[I].st \in {"tls", "closed"}
  /\ tls = 2 /\ conn[R].st \in {"tls", "server_reneg"} =>
       wire[R] = <<>> /\ conn[I].st \in {"tls", "client_reneg", "closed"}
  /\ tls = 3 /\ conn[I].public /\ Unproved(conn[R]) => Ordered(wire[R])

LEMMA MovedIInv ==
  ASSUME IInv, NEW e \in Ends, e \notin strange, NEW v, Settled(v, conn[e]),
         conn' = [conn EXCEPT ![e] = v], tls' = tls, strange' = strange, sound',
         wire' \in [Ends -> Seq(Cells)], Other(e) \in strange => wire'[e] = <<>>,
         strange = {} =>
           /\ Paired(v, conn[e], Shown(conn[Other(e)]))
           /\ wire'[e] \in Seq(CellsOf(Shown(conn[Other(e)])))
           /\ wire'[Other(e)] \in Seq(CellsOf(Shown(conn[e])))
           /\ RestOfPair'
  PROVE  IInv'
<1>. DEFINE o == Other(e)
<1>1. o \in Ends /\ o # e /\ Other(o) = e /\ Ends = {e, o}
  BY OtherEnd
<1>. HIDE DEF o
<1>2. conn'[e] = v /\ conn'[o] = conn[o] /\ conn' \in [Ends -> ConnRecs]
  BY <1>1 DEF IInv, Settled
<1>3. /\ v.end = e /\ v.me = conn[e].me /\ v.public = conn[e].public
      /\ Shown(v) = Shown(conn[e])
  BY DEF Settled, SameEnd, IInv, Shown, Started
<1>4. \A f \in Ends : /\ conn'[f].end = f /\ conn'[f].out = <<>> /\ EndOK(conn'[f])
                      /\ Other(f) \in strange' => wire'[f] = <<>>
  <2>1. conn[o].end = o /\ conn[o].out = <<>> /\ EndOK(conn[o])
    BY <1>1 DEF IInv
  <2>2. v.end = e /\ v.out = <<>> /\ EndOK(v)
    BY <1>3 DEF Settled
  <2>3. (Other(e) \in strange' => wire'[e] = <<>>) /\ Other(o) \notin strange'
    BY <1>1
  <2> QED
    BY <1>1, <1>2, <2>1, <2>2, <2>3
<1>5. conn'[I].me # conn'[R].me
  <2>1. conn[I].me # conn[R].me /\ {e, o} = {I, R}
    BY <1>1 DEF IInv, Ends
  <2> QED
    BY <1>1, <1>2, <1>3, <2>1
<1>6. ASSUME strange = {} PROVE Pair'
  <2>1. Pair
    BY <1>6 DEF IInv
  <2>3. \A f \in Ends : KindOK(conn[f])'
    BY <1>1, <1>2, <1>6, <2>1 DEF Pair, Paired, KindOK
  <2>4. TakesFor(conn'[e], Shown(conn'[o])) /\ TakesFor(conn'[o], Shown(conn'[e]))
    BY <1>1, <1>2, <1>3, <1>6, <2>1 DEF Pair, Paired, o
  <2>5. /\ wire'[e] \in Seq(CellsOf(Shown(conn'[o])))
        /\ wire'[o] \in Seq(CellsOf(Shown(conn'[e])))
    BY <1>2, <1>3, <1>6 DEF o
  <2>6. \A f \in Ends : /\ TakesFor(conn'[f], Shown(conn'[Other(f)]))
                        /\ wire'[f] \in Seq(CellsOf(Shown(conn'[Other(f)])))
    BY <1>1, <2>4, <2>5 DEF o
  <2> QED
    BY <1>6, <2>3, <2>6 DEF Pair, RestOfPair
<1> QED
  BY <1>2, <1>4, <1>5, <1>6 DEF IInv

LEMMA BecomesIInv ==
  ASSUME IInv, NEW e \in Ends, e \notin strange, NEW d, Fine(d, conn[e]),
         NEW rest \in Seq(Cells), Becomes(e, d, rest),
         Other(e) \in strange => rest = <<>>,
         strange = {} =>
           /\ Paired(d, conn[e], Shown(conn[Other(e)]))
           /\ rest \in Seq(CellsOf(Shown(conn[Other(e)])))
           /\ RestOfPair'
  PROVE  IInv'
<1>. DEFINE o == Other(e)
            v == [d EXCEPT !.out = <<>>, !.ok = TRUE]
            we == IF d.st = "closed" THEN <<>> ELSE rest
            wo == IF o \in strange \/ conn[o].st = "closed" THEN <<>> ELSE wire[o] \o d.out
<1>1. o \in Ends /\ o # e /\ Other(o) = e /\ Ends = {e, o}
  BY OtherEnd
<1>2. Settled(v, conn[e]) /\ d.ok /\ (strange = {} => Paired(v, conn[e], Shown(conn[o])))
  BY SettledFields
<1>3. /\ conn' = [conn EXCEPT ![e] = v] /\ tls' = tls /\ strange' = strange /\ sound'
      /\ wire' = [wire EXCEPT ![e] = we, ![o] = wo]
  BY <1>1, <1>2 DEF Becomes, IInv
<1>4. d.out \in Seq(CellsOf(Shown(conn[e]))) /\ d.out \in Seq(Cells)
  <2>1. d.out \in Seq(CellsOf(Shown(conn[e]))) /\ d \in ConnRecs
    BY DEF Fine
  <2> QED
    BY <2>1 DEF ConnRecs
<1>5. we \in Seq(Cells) /\ wo \in Seq(Cells)
  BY <1>1, <1>4, EmptySeq DEF IInv
<1>6. strange = {} => /\ we \in Seq(CellsOf(Shown(conn[o])))
                      /\ wo \in Seq(CellsOf(Shown(conn[e])))
  <2>. SUFFICES ASSUME strange = {}
                PROVE  /\ we \in Seq(CellsOf(Shown(conn[o])))
                       /\ wo \in Seq(CellsOf(Shown(conn[e])))
    OBVIOUS
  <2>. DEFINE X == CellsOf(Shown(conn[o]))
              Y == CellsOf(Shown(conn[e]))
  <2>1. wire[o] \in Seq(Y) /\ d.out \in Seq(Y) /\ rest \in Seq(X)
    BY <1>1, <1>4 DEF IInv, Pair
  <2>. HIDE DEF X, Y
  <2>2. wire[o] \o d.out \in Seq(Y) /\ <<>> \in Seq(X) /\ <<>> \in Seq(Y)
    BY <2>1, EmptySeq
  <2> QED
    BY <2>1, <2>2 DEF X, Y
<1>7. Other(e) \in strange => we = <<>>
  OBVIOUS
<1>. HIDE DEF v, we, wo, o
<1>8. wire' \in [Ends -> Seq(Cells)] /\ wire'[e] = we /\ wire'[o] = wo
  BY <1>1, <1>3, <1>5 DEF IInv
<1>9. strange = {} => /\ Paired(v, conn[e], Shown(conn[Other(e)]))
                      /\ wire'[e] \in Seq(CellsOf(Shown(conn[Other(e)])))
                      /\ wire'[Other(e)] \in Seq(CellsOf(Shown(conn[e])))
                      /\ RestOfPair'
  BY <1>2, <1>6, <1>8 DEF o
<1>10. Settled(v, conn[e]) /\ (Other(e) \in strange => wire'[e] = <<>>)
  BY <1>2, <1>7, <1>8
<1> QED
  BY <1>3, <1>8, <1>9, <1>10, MovedIInv

\* What both ends then are, when they run this code.
Stepped(e, d, rest) ==
  /\ conn'[e].st = d.st /\ conn'[e].public = conn[e].public
  /\ (Unproved(conn'[e]) <=> Unproved(d)) /\ conn'[Other(e)] = conn[Other(e)]
  /\ wire'[e] = IF d.st = "closed" THEN <<>> ELSE rest
  /\ wire'[Other(e)] \in {<<>>, wire[Other(e)] \o d.out}
  /\ tls' = tls

LEMMA BecomesEnds ==
  ASSUME IInv, strange = {}, NEW e \in Ends, NEW d, Fine(d, conn[e]), NEW rest, Becomes(e, d, rest)
  PROVE  Stepped(e, d, rest)
<1>. DEFINE v == [d EXCEPT !.out = <<>>, !.ok = TRUE]
<1>1. Settled(v, conn[e]) /\ v.st = d.st /\ (Unproved(v) <=> Unproved(d))
  BY SettledFields
<1>2. Other(e) \in Ends /\ Other(e) # e
  BY OtherEnd
<1>3. conn' = [conn EXCEPT ![e] = v]
  BY DEF Becomes
<1>. HIDE DEF v
<1>4. conn'[e] = v /\ conn'[Other(e)] = conn[Other(e)]
  BY <1>2, <1>3 DEF IInv
<1>5. v.public = conn[e].public
  BY <1>1 DEF Settled, SameEnd
<1>6. tls' = tls /\ wire'[e] = (IF d.st = "closed" THEN <<>> ELSE rest)
      /\ wire'[Other(e)] \in {<<>>, wire[Other(e)] \o d.out}
  BY <1>2 DEF Becomes, IInv
<1> QED
  BY <1>1, <1>4, <1>5, <1>6 DEF Stepped

\* The initiator's step, of which a responder that has not come so far sees nothing.
LEMMA InitiatorRest ==
  ASSUME IInv, strange = {}, NEW d, Fine(d, conn[I]), NEW rest, Becomes(I, d, rest),
         conn[R].st = "tls" => d.st \in {"tls", "closed"},
         tls = 2 /\ conn[R].st \in {"tls", "server_reneg"} =>
           d.out = <<>> /\ d.st \in {"tls", "client_reneg", "closed"}
  PROVE  RestOfPair'
<1>1. I \in Ends /\ R \in Ends /\ Other(I) = R /\ conn[I].end = I
  BY DEF Ends, Other, IInv
<1>2. /\ conn'[I].st = d.st /\ conn'[I].public = conn[I].public /\ conn'[R] = conn[R]
      /\ wire'[R] \in {<<>>, wire[R] \o d.out} /\ tls' = tls
  <2>1. Stepped(I, d, rest)
    BY <1>1, BecomesEnds
  <2> QED
    BY <1>1, <2>1 DEF Stepped
<1>3. Pair /\ wire[R] \in Seq(Cells) /\ d.out \in Seq(Cells)
  BY <1>1 DEF IInv, Fine, ConnRecs
<1>4. ASSUME tls = 2, conn[R].st \in {"tls", "server_reneg"} PROVE wire'[R] = <<>>
  <2>1. wire[R] = <<>> /\ d.out = <<>>
    BY <1>3, <1>4 DEF Pair
  <2>2. wire[R] \o d.out = <<>>
    BY <2>1
  <2> QED
    BY <1>2, <2>2
<1>5. ASSUME tls = 3, conn[I].public, Unproved(conn[R]) PROVE Ordered(wire'[R])
  <2>1. Ordered(wire[R]) /\ conn[I].st # "v2"
    BY <1>1, <1>3, <1>5 DEF Pair, KindOK
  <2>2. Ordered(d.out)
    BY <1>1, <1>5, <2>1 DEF Fine, Started
  <2> QED
    BY <1>2, <1>3, <2>1, <2>2, OrderedEmpty, OrderedConcat
<1> QED
  BY <1>2, <1>4, <1>5 DEF RestOfPair, Unproved

\* The responder's.
LEMMA ResponderRest ==
  ASSUME IInv, strange = {}, NEW d, Fine(d, conn[R]), NEW rest, Becomes(R, d, rest),
         tls = 2 /\ d.st \in {"tls", "server_reneg"} =>
           rest = <<>> /\ conn[I].st \in {"tls", "client_reneg", "closed"},
         tls = 3 /\ conn[I].public /\ Unproved(d) => Ordered(rest)
  PROVE  RestOfPair'
<1>1. I \in Ends /\ R \in Ends /\ Other(R) = I
  BY DEF Ends, Other, I, R
<1>2. /\ conn'[R].st = d.st /\ (Unproved(conn'[R]) <=> Unproved(d)) /\ conn'[I] = conn[I]
      /\ wire'[R] = (IF d.st = "closed" THEN <<>> ELSE rest) /\ tls' = tls
  <2>1. Stepped(R, d, rest)
    BY <1>1, BecomesEnds
  <2> QED
    BY <1>1, <2>1 DEF Stepped
<1>3. d.st = "tls" => conn[I].st \in {"tls", "closed"}
  BY DEF Fine, IInv, Pair
<1> QED
  BY <1>1, <1>2, <1>3, OrderedEmpty DEF RestOfPair, Unproved

LEMMA IInvParts ==
  ASSUME IInv, NEW e \in Ends
  PROVE  /\ Before(conn[e]) /\ wire[e] \in Seq(Cells) /\ tls \in 1 .. 3
         /\ Other(e) \in strange => wire[e] = <<>>
         /\ Started(conn[e]) <=> e = I
         /\ strange = {} =>
              /\ KindOK(conn[e]) /\ TakesFor(conn[e], Shown(conn[Other(e)]))
              /\ wire[e] \in Seq(CellsOf(Shown(conn[Other(e)])))
BY DEF IInv, Before, Pair, Started

LEMMA KeysShown ==
  ASSUME IInv, NEW e \in Ends
  PROVE  /\ \A key \in TlsKeys(e) : key \in Keys \cup {0, Bad}
         /\ strange = {} => /\ TlsKeys(e) = {Shown(conn[Other(e)])}
                            /\ Shown(conn[Other(e)]) # Bad
<1>1. /\ Other(e) \in Ends /\ conn[e] \in ConnRecs /\ conn[Other(e)] \in ConnRecs
      /\ conn[Other(e)].end = Other(e) /\ (e = I \/ (e # I /\ Other(e) = I))
  BY OtherEnd DEF IInv
<1>2. conn[e].me \in Keys /\ conn[Other(e)].me \in Keys
  BY <1>1 DEF ConnRecs
<1>3. e = I => Other(e) # I
  BY OtherEnd
<1> QED
  BY <1>1, <1>2, <1>3, HandshakeAssumption DEF TlsKeys, Shown, Started

LEMMA TlsIInv ==
  ASSUME IInv, NEW e \in Ends, Tls(e)
  PROVE  IInv'
<1>. DEFINE x == Shown(conn[Other(e)])
<1>1. PICK key \in TlsKeys(e) : Becomes(e, TlsDone(conn[e], key), wire[e])
  BY DEF Tls
<1>. DEFINE d == TlsDone(conn[e], key)
<1>2. /\ conn[e].st = "tls" /\ e \notin strange
      /\ e = I /\ strange = {} => conn[R].st # "tls"
  BY DEF Tls, I, R
<1>3. /\ key \in Keys \cup {0, Bad} /\ (strange = {} => key = x /\ x # Bad)
  BY KeysShown
<1>4. /\ Fine(d, conn[e]) /\ (strange = {} => Paired(d, conn[e], x))
      /\ tls = 2 => d.out = <<>> /\ d.st = IF e = I THEN "client_reneg" ELSE "server_reneg"
  BY <1>2, <1>3, IInvParts, TlsDoneFine
<1>. HIDE DEF d, x
<1>5. ASSUME strange = {} PROVE RestOfPair'
  <2>1. Pair
    BY <1>5 DEF IInv
  <2>2. CASE e = I
    <3>1. Fine(d, conn[I]) /\ Becomes(I, d, wire[I])
      BY <1>1, <1>4, <2>2 DEF d
    <3>2. conn[R].st # "tls" /\ (tls = 2 => d.out = <<>> /\ d.st = "client_reneg")
      BY <1>2, <1>4, <1>5, <2>2
    <3> QED
      BY <1>5, <3>1, <3>2, InitiatorRest
  <2>3. CASE e = R
    <3>1. Fine(d, conn[R]) /\ Becomes(R, d, wire[R])
      BY <1>1, <1>4, <2>3 DEF d
    <3>2. tls = 2 => wire[R] = <<>> /\ conn[I].st \in {"tls", "client_reneg", "closed"}
      BY <1>2, <2>1, <2>3 DEF Pair
    <3>3. tls = 3 /\ conn[I].public /\ Unproved(d) => Ordered(wire[R])
      BY <1>2, <2>1, <2>3 DEF Pair, Unproved
    <3> QED
      BY <1>5, <3>1, <3>2, <3>3, ResponderRest
  <2> QED
    BY <2>2, <2>3 DEF Ends
<1>6. /\ wire[e] \in Seq(Cells) /\ (Other(e) \in strange => wire[e] = <<>>)
      /\ strange = {} => wire[e] \in Seq(CellsOf(x))
  BY IInvParts DEF x
<1> QED
  BY <1>1, <1>2, <1>4, <1>5, <1>6, BecomesIInv DEF d, x

LEMMA RenegotiatedIInv ==
  ASSUME IInv, NEW e \in Ends, Renegotiated(e)
  PROVE  IInv'
<1>. DEFINE x == Shown(conn[Other(e)])
<1>1. PICK key \in TlsKeys(e) : Becomes(e, FinishHandshake(conn[e], key), wire[e])
  BY DEF Renegotiated
<1>. DEFINE d == FinishHandshake(conn[e], key)
<1>2. /\ tls = 2 /\ e \notin strange
      /\ conn[e].st = IF e = I THEN "client_reneg" ELSE "server_reneg"
      /\ e = I /\ strange = {} => conn[R].st # "server_reneg"
  BY DEF Renegotiated, I, R
<1>3. /\ key \in Keys \cup {0, Bad} /\ (strange = {} => key = x /\ x # Bad)
  BY KeysShown
<1>4. Fine(d, conn[e]) /\ ~Unproved(d) /\ (strange = {} => Paired(d, conn[e], x))
  BY <1>2, <1>3, IInvParts, FinishFine
<1>. HIDE DEF d, x
<1>5. ASSUME strange = {} PROVE RestOfPair'
  <2>1. Pair
    BY <1>5 DEF IInv
  <2>2. CASE e = I
    <3>1. Fine(d, conn[I]) /\ Becomes(I, d, wire[I])
      BY <1>1, <1>4, <2>2 DEF d
    <3>2. conn[R].st \notin {"tls", "server_reneg"}
      BY <1>2, <1>5, <2>1, <2>2 DEF Pair
    <3> QED
      BY <1>5, <3>1, <3>2, InitiatorRest
  <2>3. CASE e = R
    <3>1. Fine(d, conn[R]) /\ Becomes(R, d, wire[R])
      BY <1>1, <1>4, <2>3 DEF d
    <3>2. d.st \notin {"tls", "server_reneg"}
      BY <1>4 DEF Unproved
    <3> QED
      BY <1>4, <1>5, <3>1, <3>2, ResponderRest
  <2> QED
    BY <2>2, <2>3 DEF Ends
<1>6. /\ wire[e] \in Seq(Cells) /\ (Other(e) \in strange => wire[e] = <<>>)
      /\ strange = {} => wire[e] \in Seq(CellsOf(x))
  BY IInvParts DEF x
<1> QED
  BY <1>1, <1>2, <1>4, <1>5, <1>6, BecomesIInv DEF d, x

LEMMA UseCircuitIInv ==
  ASSUME IInv, NEW e \in Ends, UseCircuit(e)
  PROVE  IInv'
<1>. DEFINE x == Shown(conn[Other(e)])
            d == Put(conn[e], Cell("circuit"))
<1>1. e \notin strange /\ conn[e].st = "open" /\ Becomes(e, d, wire[e])
  BY DEF UseCircuit
<1>2. Fine(d, conn[e]) /\ (strange = {} => Paired(d, conn[e], x))
  BY <1>1, IInvParts, CircuitFine
<1>3. ~Unproved(d) \/ strange # {}
  BY <1>1, <1>2 DEF Paired, Unproved
<1>. HIDE DEF d, x
<1>4. ASSUME strange = {} PROVE RestOfPair'
  <2>1. Pair
    BY <1>4 DEF IInv
  <2>2. CASE e = I
    <3>1. Fine(d, conn[I]) /\ Becomes(I, d, wire[I])
      BY <1>1, <1>2, <2>2
    <3>2. conn[R].st # "tls" /\ (tls = 2 => conn[R].st # "server_reneg")
      BY <1>1, <2>1, <2>2 DEF Pair
    <3> QED
      BY <1>4, <3>1, <3>2, InitiatorRest
  <2>3. CASE e = R
    <3>1. Fine(d, conn[R]) /\ Becomes(R, d, wire[R])
      BY <1>1, <1>2, <2>3
    <3>2. d.st \notin {"tls", "server_reneg"} /\ ~Unproved(d)
      BY <1>3, <1>4 DEF Unproved
    <3> QED
      BY <1>4, <3>1, <3>2, ResponderRest
  <2> QED
    BY <2>2, <2>3 DEF Ends
<1>5. /\ wire[e] \in Seq(Cells) /\ (Other(e) \in strange => wire[e] = <<>>)
      /\ strange = {} => wire[e] \in Seq(CellsOf(x))
  BY IInvParts DEF x
<1> QED
  BY <1>1, <1>2, <1>4, <1>5, BecomesIInv DEF x

LEMMA ReceiveIInv ==
  ASSUME IInv, NEW e \in Ends, Receive(e)
  PROVE  IInv'
<1>. DEFINE x == Shown(conn[Other(e)])
            c == Head(wire[e])
            d == Received(conn[e], c)
            rest == Tail(wire[e])
<1>1. e \notin strange /\ Reads(conn[e]) /\ wire[e] # <<>> /\ Becomes(e, d, rest)
  BY DEF Receive
<1>2. c \in Cells /\ rest \in Seq(Cells) /\ Other(e) \notin strange
  BY <1>1, IInvParts
<1>3. strange = {} => c \in CellsOf(x) /\ rest \in Seq(CellsOf(x))
  <2>. HIDE DEF x
  <2>1. strange = {} => wire[e] \in Seq(CellsOf(x))
    BY IInvParts DEF x
  <2> QED
    BY <1>1, <2>1
<1>4. Serves(d, conn[e], c, x)
  BY <1>1, <1>2, IInvParts, ReceivedServes
<1>5. ASSUME strange = {} PROVE Expected(conn[e], c, x)
  <2>1. Pair
    BY <1>5 DEF IInv
  <2>2. KindOK(conn[e]) /\ TakesFor(conn[e], x) /\ (Started(conn[e]) <=> e = I) /\ EndOK(conn[e])
    BY <1>5, IInvParts DEF Before
  <2>3. ASSUME conn[e].st = "server_reneg" PROVE tls = 3
    <3>1. e = R
      BY <2>2, <2>3 DEF EndOK, Ends
    <3> QED
      BY <1>1, <2>1, <2>2, <2>3, <3>1 DEF Pair, KindOK
  <2>4. ASSUME ~Started(conn[e]), conn[e].st = "v3", ~conn[e].hs.authenticated, c.cmd = "netinfo"
        PROVE  x = 0
    <3>1. e = R /\ Other(e) = I /\ I \in Ends /\ tls = 3
      BY <2>2, <2>4 DEF KindOK, Ends, Other
    <3>2. ~Ordered(wire[R])
      BY <1>1, <2>4, <3>1, IInvParts, OrderedHead
    <3>3. ~conn[I].public
      BY <2>1, <2>4, <3>1, <3>2 DEF Pair, Unproved
    <3>4. Started(conn[I])
      BY <3>1, IInvParts
    <3> QED
      BY <3>1, <3>3, <3>4 DEF Shown
  <2> QED
    BY <1>3, <1>5, <2>2, <2>3, <2>4 DEF Expected
<1>6. /\ Fine(d, conn[e])
      /\ strange = {} => /\ Paired(d, conn[e], x)
                         /\ Unproved(d) /\ ~Started(conn[e]) => c.cmd # "authenticate"
  BY <1>4, <1>5 DEF Serves
<1>. HIDE DEF d, x
<1>7. ASSUME strange = {} PROVE RestOfPair'
  <2>1. Pair
    BY <1>7 DEF IInv
  <2>2. CASE e = I
    <3>1. Fine(d, conn[I]) /\ Becomes(I, d, Tail(wire[I]))
      BY <1>1, <1>6, <2>2
    <3>2. conn[I].st # "server_reneg"
      BY <2>2, IInvParts DEF Before, EndOK
    <3>3. conn[R].st # "tls" /\ (tls = 2 => conn[R].st # "server_reneg")
      BY <1>1, <2>1, <2>2, <3>2 DEF Pair, Reads
    <3> QED
      BY <1>7, <3>1, <3>3, InitiatorRest
  <2>3. CASE e = R
    <3>1. Fine(d, conn[R]) /\ Becomes(R, d, Tail(wire[R]))
      BY <1>1, <1>6, <2>3
    <3>2. Unproved(d) => Unproved(conn[R])
      BY <1>6, <1>7, <2>3 DEF Paired
    <3>3. ASSUME tls = 2 PROVE d.st \notin {"tls", "server_reneg"}
      <4>1. KindOK(conn[R]) /\ conn[R].st # "server_reneg"
        BY <1>1, <2>1, <2>3, <3>3 DEF Pair
      <4>2. ~Unproved(conn[R])
        BY <1>1, <2>3, <3>3, <4>1 DEF Unproved, KindOK, Reads
      <4> QED
        BY <3>2, <4>2 DEF Unproved
    <3>4. ASSUME tls = 3, conn[I].public, Unproved(d) PROVE Ordered(Tail(wire[R]))
      <4>1. Ordered(wire[R])
        BY <2>1, <3>2, <3>4 DEF Pair
      <4>2. ~Started(conn[R])
        BY <2>3, IInvParts DEF I, R
      <4>3. Head(wire[R]).cmd # "authenticate"
        BY <1>6, <1>7, <2>3, <3>4, <4>2
      <4>4. wire[R] \in Seq(Cells) /\ wire[R] # <<>>
        BY <1>1, <2>3, IInvParts
      <4> QED
        BY <4>1, <4>3, <4>4, OrderedTail
    <3> QED
      BY <1>7, <3>1, <3>3, <3>4, ResponderRest
  <2> QED
    BY <2>2, <2>3 DEF Ends
<1> QED
  BY <1>1, <1>2, <1>3, <1>6, <1>7, BecomesIInv DEF x

LEMMA StrangeCellTypes == StrangeCells \subseteq Cells
<1>1. \A vs \in {{1}, {2}, {3}, {2, 3}} : vs \in SUBSET (1 .. 3)
  OBVIOUS
<1>2. {"vpadding", "auth_challenge", "netinfo", "circuit"} \subseteq Cmds \ {"certs", "authenticate"}
  BY DEF Cmds
<1>3. \A logs \in {<<<<>>, <<>>>>, <<>>} : logs \in Seq(Seq(Cmds))
  <2>1. <<>> \in Seq(Cmds) /\ <<>> \in Seq(Seq(Cmds))
    BY EmptySeq
  <2>2. \A s \in Seq(Cmds) : <<s, s>> \in Seq(Seq(Cmds))
    OBVIOUS
  <2> QED
    BY <2>1, <2>2
<1>4. \A x : CellsOf(x) \subseteq Cells
  BY CellTypes
<1>5. /\ \A vs \in SUBSET (1 .. 3) : Versions(vs) \in Cells
      /\ \A cmd \in Cmds \ {"certs", "authenticate"} : Cell(cmd) \in Cells
      /\ \A k \in Keys \cup {Bad} : Certs(k) \in Cells
      /\ \A k \in Keys \cup {Bad} : \A logs \in Seq(Seq(Cmds)) : Authenticate(k, logs) \in Cells
  BY <1>4, CellTypes
<1>. SUFFICES ASSUME NEW c \in StrangeCells PROVE c \in Cells
  OBVIOUS
<1>6. CASE c \in {Versions(vs) : vs \in {{1}, {2}, {3}, {2, 3}}}
  BY <1>1, <1>5, <1>6
<1>7. CASE c \in {Cell(cmd) : cmd \in {"vpadding", "auth_challenge", "netinfo", "circuit"}}
  BY <1>2, <1>5, <1>7
<1>8. CASE c \in {Certs(k) : k \in Keys \cup {Bad}}
  BY <1>5, <1>8
<1>9. CASE c \in {Authenticate(k, logs) : k \in Keys \cup {Bad}, logs \in {<<<<>>, <<>>>>, <<>>}}
  <2>1. PICK k \in Keys \cup {Bad}, logs \in {<<<<>>, <<>>>>, <<>>} : c = Authenticate(k, logs)
    BY <1>9
  <2>2. logs \in Seq(Seq(Cmds))
    BY <1>3
  <2> QED
    BY <1>5, <2>1, <2>2
<1> QED
  BY <1>6, <1>7, <1>8, <1>9 DEF StrangeCells

LEMMA StrangeCellIInv ==
  ASSUME IInv, NEW e \in Ends, StrangeCell(e)
  PROVE  IInv'
<1>1. PICK c \in StrangeCells : Becomes(e, Received(conn[e], c), <<>>)
  BY DEF StrangeCell
<1>2. e \notin strange /\ strange # {} /\ Reads(conn[e])
  BY DEF StrangeCell
<1>3. c \in Cells /\ <<>> \in Seq(Cells)
  BY StrangeCellTypes, EmptySeq
<1>4. Fine(Received(conn[e], c), conn[e])
  BY <1>2, <1>3, IInvParts, ReceivedServes DEF Serves
<1> QED
  BY <1>1, <1>2, <1>3, <1>4, BecomesIInv

LEMMA LostIInv ==
  ASSUME IInv, NEW e \in Ends, Lost(e)
  PROVE  IInv'
<1>. DEFINE o == Other(e)
            v == Closed(conn[e])
<1>1. /\ e \notin strange /\ conn' = [conn EXCEPT ![e] = v] /\ wire' = [wire EXCEPT ![e] = <<>>]
      /\ tls' = tls /\ strange' = strange /\ sound'
  BY DEF Lost, IInv
<1>2. o \in Ends /\ o # e /\ Ends = {e, o} /\ Ends = {I, R}
  BY OtherEnd DEF Ends
<1>3. Before(conn[e]) /\ wire[o] \in Seq(Cells)
  BY <1>2, IInvParts
<1>4. Ended(v, conn[e])
  BY <1>3, ClosedFields DEF Before
<1>. HIDE DEF v
<1>5. Fine(v, conn[e]) /\ Paired(v, conn[e], Shown(conn[o]))
  BY <1>3, <1>4, EndedFine
<1>6. Settled(v, conn[e]) /\ v.st = "closed"
  BY <1>3, <1>4, <1>5 DEF Settled, Fine, Ended, Before
<1>7. /\ wire' \in [Ends -> Seq(Cells)] /\ wire'[e] = <<>> /\ wire'[o] = wire[o]
      /\ conn'[e] = v /\ conn'[o] = conn[o]
  BY <1>1, <1>2, EmptySeq DEF IInv
<1>. HIDE DEF o
<1>8. ASSUME strange = {} PROVE /\ wire'[e] \in Seq(CellsOf(Shown(conn[o])))
                                /\ wire'[o] \in Seq(CellsOf(Shown(conn[e])))
                                /\ RestOfPair'
  <2>1. Pair
    BY <1>8 DEF IInv
  <2>2. wire[o] \in Seq(CellsOf(Shown(conn[e])))
    BY <1>2, <1>8, IInvParts, OtherEnd DEF o
  <2>3. wire'[e] \in Seq(CellsOf(Shown(conn[o])))
    BY <1>7, EmptySeq
  <2>4. CASE e = I
    <3>1. o = R /\ conn[I].public = v.public
      BY <1>2, <1>6, <2>4 DEF Settled, SameEnd
    <3> QED
      BY <1>1, <1>6, <1>7, <2>1, <2>2, <2>3, <2>4, <3>1 DEF Pair, RestOfPair, Unproved
  <2>5. CASE e = R
    <3>1. o = I
      BY <1>2, <2>5
    <3> QED
      BY <1>1, <1>6, <1>7, <2>1, <2>2, <2>3, <2>5, <3>1 DEF Pair, RestOfPair, Unproved
  <2> QED
    BY <1>2, <2>4, <2>5
<1> QED
  BY <1>1, <1>5, <1>6, <1>7, <1>8, MovedIInv DEF o

NewEnd(d, e, me) ==
  /\ d \in ConnRecs /\ d.end = e /\ d.me = me /\ d.out = <<>> /\ d.st = "tls"
  /\ d.proto = 0 /\ d.ok /\ ~d.hs.on

LEMMA InitIInv == Init => IInv
<1>. SUFFICES ASSUME Init PROVE IInv
  OBVIOUS
<1>1. PICK i \in Keys, r \in Keys, publicI \in BOOLEAN, publicR \in BOOLEAN,
           wants \in Keys \cup {0}, refused \in BOOLEAN :
        /\ i # r /\ wants # i
        /\ conn = [e \in Ends |-> IF e = I THEN NewConn(I, i, publicI, wants, refused)
                                 ELSE NewConn(R, r, publicR, 0, FALSE)]
  BY DEF Init
<1>2. I \in Ends /\ R \in Ends /\ I # R /\ Ends = {I, R}
  BY DEF Ends, I, R
<1>3. ASSUME NEW e \in Ends, NEW me \in Keys, NEW public \in BOOLEAN, NEW w \in KeysOrNone,
             NEW f \in BOOLEAN
      PROVE  NewEnd(NewConn(e, me, public, w, f), e, me)
  <2>1. <<>> \in Seq(Cells) /\ 0 \in 0 .. 3 /\ 0 \in KeysOrNone /\ ~NoHandshake.on
    BY EmptySeq DEF KeysOrNone, NoHandshake
  <2> QED
    BY <2>1, NoHandshakeType DEF NewConn, ConnRecs, States, NewEnd
<1>4. wants \in KeysOrNone /\ 0 \in KeysOrNone
  BY DEF KeysOrNone
<1>. DEFINE ci == NewConn(I, i, publicI, wants, refused)
            cr == NewConn(R, r, publicR, 0, FALSE)
<1>5. NewEnd(ci, I, i) /\ NewEnd(cr, R, r) /\ conn = [e \in Ends |-> IF e = I THEN ci ELSE cr]
  BY <1>1, <1>2, <1>3, <1>4
<1>. HIDE DEF ci, cr
<1>6. /\ conn[I].me # conn[R].me
      /\ \A e \in Ends : /\ conn[e] \in ConnRecs /\ conn[e].end = e /\ conn[e].out = <<>>
                         /\ conn[e].st = "tls" /\ conn[e].proto = 0 /\ conn[e].ok /\ ~conn[e].hs.on
  <2>1. conn[I] = ci /\ conn[R] = cr
    BY <1>2, <1>5
  <2> QED
    BY <1>1, <1>2, <1>5, <2>1 DEF NewEnd
<1>7. conn \in [Ends -> ConnRecs]
  BY <1>5, <1>6
<1>8. \A e \in Ends : EndOK(conn[e])
  BY <1>6 DEF EndOK
<1>9. wire = [e \in Ends |-> <<>>] /\ tls \in 1 .. 3 /\ strange \in {{}, {I}, {R}} /\ sound
  BY DEF Init
<1>10. wire \in [Ends -> Seq(Cells)] /\ \A e \in Ends : wire[e] = <<>>
  BY <1>9, EmptySeq
<1>11. Pair
  <2>1. \A e \in Ends : KindOK(conn[e]) /\ \A x : TakesFor(conn[e], x)
    BY <1>6 DEF KindOK, TakesFor, Knows
  <2>2. \A e \in Ends : wire[e] \in Seq(CellsOf(Shown(conn[Other(e)])))
    BY <1>10, EmptySeq
  <2>3. Ordered(wire[R])
    BY <1>2, <1>10, OrderedEmpty
  <2> QED
    BY <1>2, <1>6, <1>10, <2>1, <2>2, <2>3 DEF Pair
<1> QED
  BY <1>6, <1>7, <1>8, <1>9, <1>10, <1>11 DEF IInv

LEMMA NextIInv == IInv /\ [Next]_vars => IInv'
<1>. SUFFICES ASSUME IInv, [Next]_vars PROVE IInv'
  OBVIOUS
<1>1. CASE UNCHANGED vars
  BY <1>1 DEF vars, IInv, Pair, KindOK
<1>2. CASE Next
  <2>1. PICK e \in Ends : \/ Tls(e) \/ Renegotiated(e) \/ Receive(e) \/ UseCircuit(e)
                          \/ StrangeCell(e) \/ Lost(e)
    BY <1>2 DEF Next
  <2> QED
    BY <2>1, TlsIInv, RenegotiatedIInv, ReceiveIInv, UseCircuitIInv, StrangeCellIInv, LostIInv
<1> QED
  BY <1>1, <1>2

\* The invariant says all that is claimed: an open end's key is the key that its
\* peer showed, so that neither can take the other for somebody else.
LEMMA IInvSound == IInv => PeerProved /\ EndsAgree /\ NoAssertFails
<1>. SUFFICES ASSUME IInv PROVE PeerProved /\ EndsAgree /\ NoAssertFails
  OBVIOUS
<1>1. I \in Ends /\ R \in Ends /\ Other(I) = R /\ Other(R) = I /\ I # R
  BY DEF Ends, Other, I, R
<1>2. PeerProved
  BY <1>1 DEF IInv, PeerProved, EndOK, Started
<1>3. EndsAgree
  <2>. SUFFICES ASSUME strange = {}, \A e \in Ends : conn[e].st = "open"
                PROVE  /\ conn[I].proto = conn[R].proto /\ conn[I].proto = tls
                       /\ conn[I].id = conn[R].me
                       /\ conn[R].id = IF conn[I].public THEN conn[I].me ELSE 0
                       /\ conn[I].half \in {"lower", "higher"}
                       /\ conn[R].half = IF ~conn[I].public THEN "neither"
                                         ELSE IF conn[I].half = "lower" THEN "higher" ELSE "lower"
    BY DEF EndsAgree
  <2>1. /\ KindOK(conn[I]) /\ KindOK(conn[R])
        /\ TakesFor(conn[I], Shown(conn[R])) /\ TakesFor(conn[R], Shown(conn[I]))
    BY <1>1, IInvParts
  <2>2. /\ Shown(conn[R]) = conn[R].me
        /\ Shown(conn[I]) = IF conn[I].public THEN conn[I].me ELSE 0
    BY <1>1 DEF IInv, Shown, Started
  <2>3. /\ conn[I].id = conn[R].me /\ conn[I].half = HalfFor(conn[I].me, conn[R].me)
        /\ conn[R].id = Shown(conn[I]) /\ conn[R].half = HalfFor(conn[R].me, Shown(conn[I]))
    BY <1>1, <2>1, <2>2 DEF TakesFor, Knows
  <2>4. conn[I].proto = tls /\ conn[R].proto = tls
    BY <1>1, <2>1 DEF KindOK
  <2>5. /\ conn[I].me \in Nat \ {0} /\ conn[R].me \in Nat \ {0} /\ conn[I].me # conn[R].me
    BY <1>1, HandshakeAssumption DEF IInv, ConnRecs
  <2> QED
    BY <2>2, <2>3, <2>4, <2>5 DEF HalfFor
<1>4. NoAssertFails
  BY DEF IInv, NoAssertFails
<1> QED
  BY <1>2, <1>3, <1>4

\* The states, versions, identities and circID halves of both ends keep their
\* types, and an end has an or_handshake_state_t in the states v2 and v3 only.
THEOREM TypeCorrect == Spec => []TypeOK
<1>1. Spec => []IInv
  BY InitIInv, NextIInv, PTL DEF Spec
<1>2. IInv => TypeOK
  <2>. SUFFICES ASSUME IInv, NEW e \in Ends
                PROVE  /\ conn[e] \in ConnRecs /\ conn[e].hs.on \in BOOLEAN
                       /\ conn[e].hs.on <=> conn[e].st \in {"v2", "v3"}
    BY DEF TypeOK, ConnRecs, States, KeysOrNone
  <2>1. conn[e] \in ConnRecs /\ EndOK(conn[e])
    BY DEF IInv
  <2>2. conn[e].hs \in Handshakes
    BY <2>1, HandshakeParts
  <2> QED
    BY <2>1, <2>2 DEF EndOK, Handshakes
<1> QED
  BY <1>1, <1>2, PTL

\* An end that is open takes its peer for a relay only if it proved to have that
\* relay's key, and agrees with it on version and circID halves; and no
\* tor_assert fails, whatever cells came before: for any keys.
THEOREM LinkAlwaysSound == Spec => []LinkSound
<1>1. Spec => []IInv
  BY InitIInv, NextIInv, PTL DEF Spec
<1>2. IInv => LinkSound
  BY IInvSound DEF LinkSound
<1> QED
  BY <1>1, <1>2, PTL
=============================================================================
