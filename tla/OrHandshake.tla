---------------------------- MODULE OrHandshake ----------------------------
(***************************************************************************)
(* The handshake of an OR connection, from TLS to the open state           *)
(* (connection_or.c, command.c): the three kinds of TLS handshake,         *)
(* VERSIONS, CERTS, AUTH_CHALLENGE, AUTHENTICATE and NETINFO cells, the    *)
(* identity each end learns and the half of the circIDs it will use.       *)
(*                                                                         *)
(* Both ends run this code, or one of them is a stranger that sends any    *)
(* cell at any time.  TLS is external: it finishes at the responder before *)
(* it does at the initiator, and gives each end the other's certificate;   *)
(* the first two kinds are met with peers of older versions.               *)
(* Identity keys are numbers in the order of crypto_pk_cmp_keys, 0 is no   *)
(* key.  A certificate or signature that does not verify has the key Bad.  *)
(* The transcripts of an end with a strange peer are left out: what the    *)
(* stranger signed matches or does not.                                    *)
(***************************************************************************)
EXTENDS Naturals, Sequences

CONSTANTS
  Keys,       \* identity keys
  Bad

ASSUME HandshakeAssumption == Keys \subseteq Nat \ {0} /\ Bad \in Nat \ (Keys \cup {0})

I == "initiator"
R == "responder"
Ends == {I, R}
Other(e) == IF e = I THEN R ELSE I

VARIABLES
  tls,      \* the kind of TLS handshake: 1, 2 or 3
  strange,  \* the ends that do not run this code
  conn,     \* each end's or_connection_t
  wire,     \* cells on their way to each end
  cut,      \* has the network or a timeout ended the connection?
  sound     \* has no tor_assert failed and no LD_BUG been logged?

vars == <<tls, strange, conn, wire, cut, sound>>

Cell(cmd) == [cmd |-> cmd, versions |-> {}, key |-> 0, over |-> <<>>]
Versions(vs) == [Cell("versions") EXCEPT !.versions = vs]
Certs(k) == [Cell("certs") EXCEPT !.key = k]
Authenticate(k, logs) == [Cell("authenticate") EXCEPT !.key = k, !.over = logs]

\* or_handshake_state_t, when there is none and when it is new.
NoHandshake ==
  [on |-> FALSE, receivedVersions |-> FALSE, sentVersions |-> FALSE, certs |-> 0,
   challenged |-> FALSE, authenticated |-> FALSE, logsSent |-> FALSE, logsReceived |-> FALSE,
   sent |-> <<>>, received |-> <<>>]
NewHandshake == [NoHandshake EXCEPT !.on = TRUE, !.logsSent = TRUE, !.logsReceived = TRUE]

\* wants: the key that the initiator was told to find; 0 for a bridge whose
\* key is not known.  refused: entry_guard_register_connect_status will tell
\* the initiator to try an earlier guard again.  id: identity_digest.
NewConn(e, me, public, wants, refused) ==
  [end |-> e, me |-> me, public |-> public, refused |-> refused, st |-> "tls", proto |-> 0,
   id |-> wants, half |-> "none", proved |-> 0, hs |-> NoHandshake, out |-> <<>>, ok |-> TRUE]

Init ==
  /\ tls \in 1 .. 3
  /\ strange \in {{}, {I}, {R}}
  /\ \E i \in Keys, r \in Keys, publicI \in BOOLEAN, publicR \in BOOLEAN,
        wants \in Keys \cup {0}, refused \in BOOLEAN :
       /\ i # r /\ wants # i
       /\ conn = [e \in Ends |-> IF e = I THEN NewConn(I, i, publicI, wants, refused)
                                ELSE NewConn(R, r, publicR, 0, FALSE)]
  /\ wire = [e \in Ends |-> <<>>]
  /\ cut = FALSE /\ sound = TRUE

-----------------------------------------------------------------------------
(* What a connection sends and notes.  d is an or_connection_t. *)

Bug(d) == [d EXCEPT !.ok = FALSE]
Closed(d) ==
  [d EXCEPT !.st = "closed", !.proto = 0, !.half = "none", !.proved = 0, !.hs = NoHandshake]
Started(d) == d.end = I
Logged(d) == strange = {}

\* connection_or_write_var_cell_to_buf and, for a NETINFO, _write_cell_to_buf.
Put(d, c) ==
  LET logs == d.st = "v3" /\ d.hs.logsSent /\ Logged(d)
  IN  [d EXCEPT !.out = Append(@, c), !.hs.sent = IF logs THEN Append(@, c.cmd) ELSE @]

\* Mutant: the AUTHENTICATE cell counts as part of what it signs.
Recorded_All(d, c) ==
  IF d.st = "v3" /\ d.hs.logsReceived /\ Logged(d)
    THEN [d EXCEPT !.hs.received = Append(@, c.cmd)] ELSE d

\* or_handshake_state_record_var_cell and _record_cell on reception.
Recorded(d, c) ==
  IF d.st = "v3" /\ c.cmd # "authenticate" /\ d.hs.logsReceived /\ Logged(d)
    THEN [d EXCEPT !.hs.received = Append(@, c.cmd)] ELSE d

\* connection_init_or_handshake_state.
WithHandshake(d) == IF d.hs.on THEN Bug(d) ELSE [d EXCEPT !.hs = NewHandshake]

\* connection_or_send_versions.
SendVersions(d, v3) ==
  IF ~d.hs.on \/ d.hs.sentVersions THEN Bug(d)
  ELSE [Put(d, Versions(IF v3 THEN {3} ELSE {1, 2})) EXCEPT !.hs.sentVersions = TRUE]

\* connection_or_send_netinfo: nothing is logged any more.
SendNetinfo(d) ==
  IF ~d.hs.on THEN Bug(d) ELSE Put([d EXCEPT !.hs.logsSent = FALSE], Cell("netinfo"))

\* connection_or_set_circid_type.
SetHalf(d, key) ==
  [d EXCEPT !.half = IF key = 0 THEN "neither" ELSE IF d.me < key THEN "lower" ELSE "higher"]

\* connection_or_client_learned_peer_id.
Learned(d, key) ==
  IF d.id \in {0, key} THEN [d EXCEPT !.id = key, !.proved = key] ELSE Closed(d)

\* connection_or_set_state_open.  An initiator may be told to use an earlier
\* entry guard instead, and is closed by its caller.
Opened(d) ==
  IF d.refused THEN Closed(d)
  ELSE [d EXCEPT !.st = "open", !.hs = NoHandshake]
-----------------------------------------------------------------------------
(* The end of TLS. *)

\* connection_or_check_valid_tls_handshake, with the key that the other
\* end's TLS certificate shows.
Checked(d, key) ==
  IF Started(d) THEN IF key \in {0, Bad} THEN Closed(d) ELSE Learned(SetHalf(d, key), key)
  ELSE LET k == IF key = Bad THEN 0 ELSE key
       IN  [SetHalf(d, k) EXCEPT !.id = k, !.proved = k]

\* connection_tls_finish_handshake.
FinishHandshake(d, key) ==
  LET u == Checked(d, key)
  IN  IF u.st = "closed" THEN u
      ELSE IF tls = 1 THEN Opened([u EXCEPT !.proto = 1])
      ELSE SendVersions(WithHandshake([u EXCEPT !.st = "v2"]), FALSE)

\* connection_or_launch_v3_or_handshake.
LaunchV3(d) == SendVersions(WithHandshake([d EXCEPT !.st = "v3"]), TRUE)

\* connection_tls_continue_handshake, when the first handshake is done.
TlsDone(d, key) ==
  CASE tls = 1 -> FinishHandshake(d, key)
    [] tls > 1 /\ ~Started(d) -> [d EXCEPT !.st = "server_reneg"]
    [] tls = 2 /\ Started(d) -> [d EXCEPT !.st = "client_reneg"]
    [] tls = 3 /\ Started(d) -> LaunchV3(d)
-----------------------------------------------------------------------------
(* Cells. *)

\* enter_v3_handshake_with_cell.
EnterV3(d, c) == Recorded(WithHandshake([d EXCEPT !.st = "v3"]), c)

\* The cells that follow a v3 VERSIONS.
AnswerVersions(d) ==
  LET u == IF Started(d) THEN d ELSE SendVersions(d, TRUE)
      v == IF ~Started(d) \/ d.public THEN Put(u, Certs(d.me)) ELSE u
      w == IF ~Started(d) /\ d.public THEN Put(v, Cell("auth_challenge")) ELSE v
  IN  IF Started(d) THEN w ELSE SendNetinfo(w)

Highest(vs) == CHOOSE v \in vs : \A w \in vs : w <= v

\* The version is 3 after a v3 handshake and 2 after a v2 one.
Negotiated(d, c) ==
  LET v == Highest(c.versions)
      u == [d EXCEPT !.proto = v, !.hs.receivedVersions = TRUE]
  IN  CASE d.st = "v3" -> IF v = 3 THEN AnswerVersions(u) ELSE Closed(d)
        [] d.st = "v2" -> IF v = 2 THEN SendNetinfo(u) ELSE Closed(d)

\* Mutant: a second VERSIONS starts the negotiation again.
VersionsCell_Again(d, c) == IF d.st \in {"v2", "v3"} THEN Negotiated(d, c) ELSE d

\* command_process_versions_cell.
VersionsCell(d, c) ==
  IF d.proto # 0 \/ d.hs.receivedVersions \/ ~d.st \in {"v2", "v3"} THEN d ELSE Negotiated(d, c)

\* Mutant: a NETINFO opens the connection, CERTS or not.
NetinfoCell_Unproved(d) ==
  IF d.proto < 2 \/ ~d.st \in {"v2", "v3"} THEN d ELSE Opened(d)

\* command_process_netinfo_cell.
NetinfoCell(d) ==
  IF d.proto < 2 \/ ~d.st \in {"v2", "v3"} THEN d
  ELSE IF ~d.hs.receivedVersions \/ (d.st = "v3" /\ d.proto < 3) THEN Bug(d)
  ELSE IF d.st = "v3" /\ ~d.hs.authenticated
    THEN IF Started(d) THEN Closed(d)
         ELSE Opened([SetHalf(d, 0) EXCEPT !.id = 0, !.proved = 0])
  ELSE Opened(d)

\* command_process_certs_cell.  The initiator checks them at once; the
\* responder keeps them for an AUTHENTICATE.
CertsCell(d, c) ==
  IF d.st # "v3" \/ d.proto < 3 \/ d.hs.certs # 0 \/ d.hs.authenticated \/ c.key = Bad
    THEN Closed(d)
  ELSE IF ~Started(d) THEN [d EXCEPT !.hs.certs = c.key]
  ELSE LET u == Learned(SetHalf([d EXCEPT !.hs.authenticated = TRUE], c.key), c.key)
           v == [u EXCEPT !.hs.certs = c.key]
       IN  IF u.st = "closed" THEN u ELSE IF d.public THEN v ELSE SendNetinfo(v)

\* command_process_auth_challenge_cell; the body of an AUTHENTICATE is made
\* before the cell is written, and so logged.
ChallengeCell(d) ==
  IF d.st # "v3" \/ d.proto < 3 \/ ~Started(d) \/ d.hs.challenged \/ d.hs.certs = 0
    THEN Closed(d)
  ELSE LET u == [d EXCEPT !.hs.challenged = TRUE]
       IN  IF ~d.public THEN u
           ELSE SendNetinfo(Put(u, Authenticate(d.me, <<d.hs.sent, d.hs.received>>)))

\* Mutant: the half of the circIDs stays as it was.
AuthenticateCell_KeepsHalf(d, c) ==
  IF \/ d.st # "v3" \/ d.proto < 3 \/ Started(d) \/ d.hs.authenticated \/ d.hs.certs = 0
     \/ c.key # d.hs.certs \/ c.over # <<d.hs.received, d.hs.sent>>
    THEN Closed(d)
  ELSE [d EXCEPT !.id = c.key, !.proved = c.key,
         !.hs.authenticated = TRUE, !.hs.logsReceived = FALSE]

\* command_process_authenticate_cell.
AuthenticateCell(d, c) ==
  IF \/ d.st # "v3" \/ d.proto < 3 \/ Started(d) \/ d.hs.authenticated \/ d.hs.certs = 0
     \/ c.key # d.hs.certs \/ c.over # <<d.hs.received, d.hs.sent>>
    THEN Closed(d)
  ELSE [SetHalf(d, c.key) EXCEPT !.id = c.key, !.proved = c.key,
         !.hs.authenticated = TRUE, !.hs.logsReceived = FALSE]

\* command_process_cell: NETINFO and the cells of circuits.
FixedCell(d, c) ==
  IF c.cmd = "netinfo" THEN NetinfoCell(Recorded(d, c))
  ELSE IF d.st # "open" THEN Closed(d) ELSE d

\* command_process_var_cell, once the state lets the cell through.
VarCell(d, c) ==
  CASE c.cmd = "versions" -> VersionsCell(d, c)
    [] c.cmd = "certs" -> CertsCell(d, c)
    [] c.cmd = "auth_challenge" -> ChallengeCell(d)
    [] c.cmd = "authenticate" -> AuthenticateCell(d, c)
    [] c.cmd = "vpadding" -> d

Received(d, c) ==
  IF c.cmd \in {"netinfo", "circuit"} THEN FixedCell(d, c)
  ELSE CASE d.st = "v2" -> IF c.cmd = "versions" THEN VarCell(d, c) ELSE Closed(d)
         [] d.st = "server_reneg" ->
              IF c.cmd \in {"versions", "vpadding"} THEN VarCell(EnterV3(d, c), c) ELSE Closed(d)
         [] d.st = "v3" -> VarCell(Recorded(d, c), c)
         [] d.st = "open" -> IF d.proto < 3 THEN d ELSE VarCell(d, c)
-----------------------------------------------------------------------------
(* Steps. *)

\* An end becomes d: what it wrote is on its way, what is for a closed end is lost.
Becomes(e, d, rest) ==
  /\ conn' = [conn EXCEPT ![e] = [d EXCEPT !.out = <<>>, !.ok = TRUE]]
  /\ sound' = (sound /\ d.ok)
  /\ wire' = [wire EXCEPT ![e] = IF d.st = "closed" THEN <<>> ELSE rest,
                          ![Other(e)] = IF Other(e) \in strange \/ conn[Other(e)].st = "closed"
                                          THEN <<>> ELSE @ \o d.out]
  /\ UNCHANGED <<tls, strange, cut>>

\* The key in the TLS certificate of the other end: a responder has one, an
\* initiator if it is a public relay.
TlsKeys(e) ==
  IF Other(e) \in strange THEN {0, Bad} \cup (Keys \ {conn[e].me})
  ELSE IF e = I \/ conn[I].public THEN {conn[Other(e)].me} ELSE {0}

Tls(e) ==
  /\ conn[e].st = "tls" /\ ~e \in strange
  /\ e = R \/ R \in strange \/ conn[R].st # "tls"
  /\ \E key \in TlsKeys(e) : Becomes(e, TlsDone(conn[e], key), wire[e])

\* connection_or_tls_renegotiated_cb, and tor_tls_renegotiate at the client.
Renegotiated(e) ==
  /\ tls = 2 /\ ~e \in strange
  /\ \/ e = R /\ conn[R].st = "server_reneg" /\ (I \in strange \/ conn[I].st = "client_reneg")
     \/ e = I /\ conn[I].st = "client_reneg" /\ (R \in strange \/ conn[R].st # "server_reneg")
  /\ \E key \in TlsKeys(e) : Becomes(e, FinishHandshake(conn[e], key), wire[e])

Reads(d) == d.st \in {"server_reneg", "v2", "v3", "open"}

\* connection_or_process_cells_from_inbuf.
Receive(e) ==
  /\ ~e \in strange /\ Reads(conn[e]) /\ wire[e] # <<>>
  /\ Becomes(e, Received(conn[e], Head(wire[e])), Tail(wire[e]))

\* Cells of circuits, when the connection is open.
UseCircuit(e) ==
  /\ ~e \in strange /\ conn[e].st = "open" /\ wire[Other(e)] = <<>>
  /\ Becomes(e, Put(conn[e], Cell("circuit")), wire[e])

StrangeCells ==
  {Versions(vs) : vs \in {{1}, {2}, {3}, {2, 3}}}
  \cup {Cell(cmd) : cmd \in {"vpadding", "auth_challenge", "netinfo", "circuit"}}
  \cup {Certs(k) : k \in Keys \cup {Bad}}
  \cup {Authenticate(k, logs) : k \in Keys \cup {Bad}, logs \in {<<<<>>, <<>>>>, <<>>}}

StrangeCell(e) ==
  /\ ~e \in strange /\ strange # {} /\ Reads(conn[e])
  /\ \E c \in StrangeCells : Becomes(e, Received(conn[e], c), <<>>)

\* The other end has closed, or the connection is lost or too slow.
Lost(e) ==
  /\ ~e \in strange /\ conn[e].st # "closed"
  /\ conn' = [conn EXCEPT ![e] = Closed(@)]
  /\ wire' = [wire EXCEPT ![e] = <<>>]
  /\ cut' = (cut \/ conn[Other(e)].st # "closed")
  /\ UNCHANGED <<tls, strange, sound>>

Next == sound /\ \E e \in Ends : \/ Tls(e) \/ Renegotiated(e) \/ Receive(e) \/ UseCircuit(e)
                                 \/ StrangeCell(e) \/ Lost(e)

Spec == Init /\ [][Next]_vars

\* TLS goes on and cells that have arrived are read; nothing is lost for ever.
Fairness == \A e \in Ends : WF_vars(Tls(e) \/ Renegotiated(e) \/ Receive(e))
FairSpec == Spec /\ Fairness
-----------------------------------------------------------------------------
TypeOK ==
  \A e \in Ends :
    /\ conn[e].st \in {"tls", "client_reneg", "server_reneg", "v2", "v3", "open", "closed"}
    /\ conn[e].proto \in 0 .. 3 /\ conn[e].id \in Keys \cup {0}
    /\ conn[e].half \in {"none", "neither", "lower", "higher"}
    /\ conn[e].hs.on = (conn[e].st \in {"v2", "v3"})

\* No assertion of the handlers fails, whatever cells come in whatever order,
\* and none of them runs without an or_handshake_state_t.
NoAssertFails == sound

\* An end that is open takes its peer for a relay only if it proved to have
\* that relay's key; an initiator's peer is the one it was told to find.
PeerProved ==
  \A e \in Ends \ strange :
    conn[e].st = "open" => conn[e].id = conn[e].proved /\ (e = I => conn[e].id # 0)

\* Two ends that are open agree on the version, know each other if both are
\* public relays, and never choose circIDs from the same half.
EndsAgree ==
  strange = {} /\ (\A e \in Ends : conn[e].st = "open") =>
    /\ conn[I].proto = conn[R].proto /\ conn[I].proto = tls
    /\ conn[I].id = conn[R].me /\ conn[R].id = IF conn[I].public THEN conn[I].me ELSE 0
    /\ conn[I].half \in {"lower", "higher"}
    /\ conn[R].half = IF ~conn[I].public THEN "neither"
                      ELSE IF conn[I].half = "lower" THEN "higher" ELSE "lower"

\* An end that is open takes its peer for a relay only if it proved to have
\* that relay's key, and agrees with it on version and circID halves; and no
\* tor_assert fails, whatever cells came before.
LinkSound == PeerProved /\ EndsAgree /\ NoAssertFails

\* When two ends that run this code come to an open connection, unless the network
\* cuts it: not if the initiator looked for someone else or dropped the new guard.  A public relay
\* that connects to a relay that is none waits for an AUTH_CHALLENGE in vain.
Suited ==
  /\ strange = {} /\ conn[I].id \in {0, conn[R].me} /\ ~conn[I].refused
  /\ ~(tls = 3 /\ conn[I].public /\ ~conn[R].public)
=============================================================================
