--------------------------- MODULE SocksHandshake ---------------------------
(***************************************************************************)
(* The two ends of a SOCKS handshake: the server of an application stream  *)
(* (parse_socks and its callers) and the client of a proxy                 *)
(* (connection_proxy_connect, connection_read_proxy_handshake).  The       *)
(* client is this one, or an application that sends what it likes; what is *)
(* sent arrives in pieces.  A whole request fits into one chunk of a       *)
(* buffer, so that a buffer is a sequence of bytes here.                   *)
(***************************************************************************)
EXTENDS Integers, Sequences, SequencesExt

CONSTANTS
  Requests,  \* what applications send
  Ports,     \* the ports this client wants: two bytes each
  MaxAddr,   \* MAX_SOCKS_ADDR_LEN
  MaxName,   \* the 1024 of parse_socks
  Bad        \* bytes that no hostname may have
VARIABLES
  client,   \* proxy_state of this client, or "foreign"
  dest,     \* where this client wants to go, and SafeSocks at the server
  asked,    \* everything the client has sent
  toServer, inbuf, req, res,
  toClient, cbuf
vars == <<client, dest, asked, toServer, inbuf, req, res, toClient, cbuf>>

NoAuth == 0
UserPass == 2
Connect == 1
Resolve == 240
ResolvePtr == 241
Zeroes(n) == [i \in 1 .. n |-> 0]

\* socks_request_t.
NewRequest == [version |-> 0, auth |-> NoAuth, got_auth |-> FALSE, user |-> <<>>, pass |-> <<>>,
               command |-> 0, addr |-> <<>>, port |-> <<>>, reply |-> <<>>]
-----------------------------------------------------------------------------
\* An answer of parse_socks: res, the bytes to drain, the length it wants.
Wants(n, r) == [res |-> 0, drain |-> 0, want |-> n, req |-> r]
Refuses(r) == [res |-> -1, drain |-> 0, want |-> 0, req |-> r]
Takes(result, n, r) == [res |-> result, drain |-> n, want |-> 0, req |-> r]

\* Username and password; whatever they are.
ParseAuth(d, r) ==
  LET ulen == d[2]
      plen == d[3 + ulen]
      all == 3 + ulen + plen
  IN  IF Len(d) < 3 + ulen THEN Wants(3 + ulen, r)
      ELSE IF Len(d) < all THEN Wants(all, r)
      ELSE [Takes(0, all, [r EXCEPT !.reply = <<5, 0>>, !.got_auth = TRUE,
                                    !.user = SubSeq(d, 3, 2 + ulen), !.pass = SubSeq(d, 4 + ulen, all)])
            EXCEPT !.want = 7]

ParseMethods(d, r) ==
  LET n == d[2]
      offers(m) == \E i \in 3 .. 2 + n : d[i] = m
      chosen == [r EXCEPT !.version = 5]
  IN  IF Len(d) < 2 + n THEN Wants(2 + n, r)
      ELSE IF n = 0 THEN Refuses(r)
      ELSE IF offers(NoAuth) THEN Takes(0, 2 + n, [chosen EXCEPT !.reply = <<5, NoAuth>>])
      ELSE IF offers(UserPass) THEN Takes(0, 2 + n, [chosen EXCEPT !.reply = <<5, UserPass>>, !.auth = UserPass])
      ELSE Takes(-1, 2 + n, [r EXCEPT !.reply = <<5, 255>>])

Printable(addr) == \A i \in DOMAIN addr : addr[i] \notin Bad

\* Safe: SafeSocks, with no mapping for a literal address.
Parse5(d, r, safe) ==
  LET named == d[4] = 3
      last == IF named THEN 5 + d[5] ELSE IF d[4] = 1 THEN 8 ELSE 20
      all == last + 2
      whole == [r EXCEPT !.command = d[2], !.addr = SubSeq(d, IF named THEN 6 ELSE 5, last),
                         !.port = SubSeq(d, last + 1, all)]
  IN  IF r.auth # NoAuth /\ ~r.got_auth THEN Refuses(r)
      ELSE IF Len(d) < 7 THEN Wants(7, r)
      ELSE IF d[2] \notin {Connect, Resolve, ResolvePtr} \/ d[4] \notin {1, 3, 4} THEN Refuses(r)
      ELSE IF named /\ d[2] = ResolvePtr THEN Refuses(r)
      ELSE IF Len(d) < all THEN Wants(all, r)
      ELSE IF named /\ d[5] + 1 > MaxAddr THEN Refuses(r)
      ELSE IF named /\ ~Printable(whole.addr) THEN Takes(-1, all, whole)
      ELSE IF ~named /\ d[2] # ResolvePtr /\ safe THEN Takes(-1, all, whole)
      ELSE Takes(1, all, whole)

\* Where the first zero byte is, at i or later.
Zero(d, i) ==
  LET z == {j \in i .. Len(d) : d[j] = 0}
  IN  IF z = {} THEN 0 ELSE CHOOSE j \in z : \A k \in z : j <= k

Parse4(d, r0, safe) ==
  LET r == [r0 EXCEPT !.version = 4]
      ip == SubSeq(d, 5, 8)
      named == SubSeq(ip, 1, 3) = Zeroes(3)
      name == Zero(d, 9)
      host == IF named THEN Zero(d, name + 1) ELSE name
      addr == IF named THEN SubSeq(d, name + 1, host - 1) ELSE ip
      whole == [r EXCEPT !.command = d[2], !.port = SubSeq(d, 3, 4), !.addr = addr,
                         !.got_auth = @ \/ name > 9, !.user = SubSeq(d, 9, name - 1)]
      long == Len(d) >= MaxName
  IN  IF Len(d) < 8 THEN Wants(8, r)
      ELSE IF d[2] \notin {Connect, Resolve} THEN Refuses(r)
      ELSE IF (SubSeq(d, 3, 4) = Zeroes(2) /\ d[2] # Resolve) \/ ip = Zeroes(4) THEN Refuses(r)
      ELSE IF name = 0 THEN IF long THEN Refuses(r) ELSE Wants(Len(d) + MaxName, r)
      ELSE IF ~named /\ safe THEN Refuses(r)
      ELSE IF named /\ name = Len(d) THEN Wants(Len(d) + MaxName, r)
      ELSE IF host = 0 THEN IF long THEN Refuses(r) ELSE Wants(Len(d) + MaxName, r)
      ELSE IF named /\ MaxAddr <= Len(addr) THEN Refuses(r)
      ELSE IF named /\ ~Printable(addr) THEN Refuses(r)
      ELSE Takes(1, host, whole)

ParseSocks(d, r, safe) ==
  IF Len(d) < 2 THEN Wants(2, r)
  ELSE IF r.version = 5 /\ ~r.got_auth /\ d[1] = 1 THEN ParseAuth(d, r)
  ELSE IF r.version = 5 /\ ~r.got_auth /\ r.auth = UserPass THEN Refuses(r)
  ELSE IF d[1] = 5 THEN IF r.version # 5 THEN ParseMethods(d, r) ELSE Parse5(d, r, safe)
  ELSE IF d[1] = 4 THEN Parse4(d, r, safe)
  ELSE Refuses(r)

\* Mutant: what has come behind a message waits for more.
FetchSocks_Once(buf, r, safe) ==
  LET p == ParseSocks(buf, r, safe)
  IN  [res |-> p.res, buf |-> SubSeq(buf, p.drain + 1, Len(buf)), req |-> p.req]

\* fetch_from_buf_socks.
FetchSocks(buf, r, safe) ==
  LET after[k \in 0 .. Len(buf)] ==
        IF k = 0 THEN [res |-> 0, buf |-> buf, req |-> r, again |-> Len(buf) >= 2]
        ELSE LET was == after[k - 1]
                 p == ParseSocks(was.buf, was.req, safe)
                 rest == SubSeq(was.buf, p.drain + 1, Len(was.buf))
             IN  IF ~was.again THEN was
                 ELSE [res |-> p.res, buf |-> rest, req |-> p.req,
                       again |-> p.res = 0 /\ p.want < Len(rest) /\ Len(rest) >= 2]
  IN  after[Len(buf)]
-----------------------------------------------------------------------------
\* What this client sends for it: connection_proxy_connect.
Hello(c) ==
  CASE c.state = "socks4_want_connect" -> <<4, Connect>> \o c.port \o c.addr \o <<0>>
    [] c.state = "socks5_want_method_none" -> <<5, 1, NoAuth>>
    [] c.state = "socks5_want_method_rfc1929" -> <<5, 2, NoAuth, UserPass>>
Socks5Connect(c) == <<5, Connect, 0, IF Len(c.addr) = 4 THEN 1 ELSE 4>> \o c.addr \o c.port
Credentials == <<1, 1, 7, 1, 8>>

\* parse_socks_client: the result, what is drained (-1: all of it).
ParseClient(d, state) ==
  LET addrlen == CASE d[4] = 1 -> 4 [] d[4] = 4 -> 16 [] OTHER -> 1 + d[5]
      none == [res |-> 0, drain |-> 0]
      bad == [res |-> -1, drain |-> 0]
  IN  IF Len(d) < 2 THEN none
      ELSE CASE state = "socks4_want_connect" ->
                  IF Len(d) < 8 THEN none ELSE IF d[2] # 90 THEN bad ELSE [res |-> 1, drain |-> 8]
             [] state \in {"socks5_want_method_none", "socks5_want_auth"} ->
                  IF d[2] # 0 THEN bad ELSE [res |-> 1, drain |-> -1]
             [] state = "socks5_want_method_rfc1929" ->
                  IF d[2] \notin {0, 2} THEN bad ELSE [res |-> IF d[2] = 0 THEN 1 ELSE 2, drain |-> -1]
             [] state = "socks5_want_connect" ->
                  IF Len(d) < 4 \/ (d[4] = 3 /\ Len(d) < 5) THEN none
                  ELSE IF d[4] \notin {1, 3, 4} THEN bad
                  ELSE IF Len(d) < 6 + addrlen THEN none
                  ELSE IF d[2] # 0 THEN bad
                  ELSE [res |-> 1, drain |-> 6 + addrlen]

\* connection_read_proxy_handshake: the next state, and what is sent.
ProxyStep(c, state, r) ==
  CASE r = -1 -> [state |-> "failed", send |-> <<>>]
    [] r = 0 -> [state |-> state, send |-> <<>>]
    [] r = 2 -> [state |-> "socks5_want_auth", send |-> Credentials]
    [] r = 1 /\ state \in {"socks4_want_connect", "socks5_want_connect"} -> [state |-> "connected", send |-> <<>>]
    [] OTHER -> [state |-> "socks5_want_connect", send |-> Socks5Connect(c)]

Waiting == {"socks4_want_connect", "socks5_want_method_none", "socks5_want_method_rfc1929",
            "socks5_want_auth", "socks5_want_connect"}
-----------------------------------------------------------------------------
Dest == [proxy : {"tor", "other"}, state : Waiting, addr : {<<1, 2, 3, 4>>, [i \in 1 .. 16 |-> i]},
         port : Ports, safe : BOOLEAN]
Suits(c) ==
  /\ c.state \in {"socks4_want_connect", "socks5_want_method_none", "socks5_want_method_rfc1929"}
  /\ c.state = "socks4_want_connect" => Len(c.addr) = 4
  /\ c.proxy = "other" <=> c.state = "socks5_want_method_rfc1929"

Init ==
  /\ inbuf = <<>> /\ req = NewRequest /\ res = 0 /\ toClient = <<>> /\ cbuf = <<>>
  /\ dest \in {c \in Dest : Suits(c)}
  /\ \/ client = "foreign" /\ dest.state = "socks5_want_method_none" /\ asked \in Requests
     \/ client = dest.state /\ asked = Hello(dest)
  /\ toServer = asked

Took(n, from) == SubSeq(from, 1, n)
Left(n, from) == SubSeq(from, n + 1, Len(from))

\* connection_ap_handshake_socks_reply.
Reply(version, status) ==
  CASE version = 4 -> <<0, IF status = 0 THEN 90 ELSE 91>> \o Zeroes(6)
    [] version = 5 -> <<5, status, 0, 1>> \o Zeroes(6)
    [] OTHER -> <<>>

\* connection_ap_handshake_process_socks, when n bytes have arrived.
ServerReads(n) ==
  /\ dest.proxy = "tor" /\ res = 0 /\ n \in 1 .. Len(toServer)
  /\ \E f \in {FetchSocks(inbuf \o Took(n, toServer), req, dest.safe)} :
       /\ res' = f.res /\ inbuf' = f.buf /\ req' = [f.req EXCEPT !.reply = <<>>]
       /\ toClient' = toClient \o (IF f.res = -1 /\ f.req.reply = <<>> THEN Reply(f.req.version, 1)
                                  ELSE f.req.reply)
  /\ toServer' = Left(n, toServer)
  /\ UNCHANGED <<client, dest, asked, cbuf>>

\* The stream is connected (status 0), and its data follows; or it is not.
Data == <<77, 78>>
ServerAnswers(status) ==
  /\ dest.proxy = "tor" /\ res = 1
  /\ res' = 2
  /\ toClient' = toClient \o Reply(req.version, status) \o (IF status = 0 THEN Data ELSE <<>>)
  /\ UNCHANGED <<client, dest, asked, toServer, inbuf, req, cbuf>>

\* A proxy of another kind, that asks for a password and gives a name.
Script == <<[need |-> 4, say |-> <<5, 2>>], [need |-> 5, say |-> <<1, 0>>],
            [need |-> 6 + Len(dest.addr), say |-> <<5, 0, 0, 3, 1, 9, 0, 0>> \o Data]>>
OtherProxy(n) ==
  /\ dest.proxy = "other" /\ res < 3 /\ n \in 1 .. Len(toServer)
  /\ LET got == inbuf \o Took(n, toServer)
         enough == Len(got) >= Script[res + 1].need
     IN  /\ inbuf' = IF enough THEN Left(Script[res + 1].need, got) ELSE got
         /\ res' = IF enough THEN res + 1 ELSE res
         /\ toClient' = IF enough THEN toClient \o Script[res + 1].say ELSE toClient
  /\ toServer' = Left(n, toServer)
  /\ UNCHANGED <<client, dest, asked, req, cbuf>>

\* connection_read_proxy_handshake, when n bytes have arrived.
ClientReads(n) ==
  /\ client \in Waiting /\ n \in 1 .. Len(toClient)
  /\ LET got == cbuf \o Took(n, toClient)
         p == ParseClient(got, client)
         step == ProxyStep(dest, client, p.res)
     IN  /\ cbuf' = IF p.drain = -1 THEN <<>> ELSE Left(p.drain, got)
         /\ client' = step.state
         /\ asked' = asked \o step.send /\ toServer' = toServer \o step.send
  /\ toClient' = Left(n, toClient)
  /\ UNCHANGED <<dest, inbuf, req, res>>

Next ==
  \/ \E n \in 1 .. Len(toServer) : ServerReads(n) \/ OtherProxy(n)
  \/ \E status \in {0, 4} : ServerAnswers(status)
  \/ \E n \in 1 .. Len(toClient) : ClientReads(n)
Spec == Init /\ [][Next]_vars
-----------------------------------------------------------------------------
\* However a request is cut, the stream gets what it would if all of it had
\* come at once, and the same bytes are left for it.
CutAnyhow ==
  LET whole == FetchSocks(asked, NewRequest, dest.safe)
      same == [req EXCEPT !.reply = <<>>] = [whole.req EXCEPT !.reply = <<>>]
  IN  client = "foreign" =>
        /\ res # 0 => whole.res = IF res = 2 THEN 1 ELSE res
        /\ res \in {1, 2} => same /\ inbuf \o toServer = whole.buf
        /\ res = 0 /\ toServer = <<>> => whole.res = 0

\* A client that says that it is connected is: to where it wanted, through
\* the proxy; and no byte behind the proxy's last answer is gone.
Meets ==
  /\ client = "connected" /\ dest.proxy = "tor" =>
       /\ res = 2 /\ req.command = Connect /\ req.addr = dest.addr /\ req.port = dest.port
       /\ inbuf \o toServer = <<>>
  /\ client = "connected" => cbuf \o toClient = Data

\* The two never wait for one another.
NobodyStuck == ~(client \in Waiting /\ toServer = <<>> /\ toClient = <<>> /\ res = 0)

\* However the network cuts what the two ends of a SOCKS handshake say, they
\* understand what was said, agree on where the stream goes, lose nothing of
\* it and do not wait for one another.
SocksSound == CutAnyhow /\ Meets /\ NobodyStuck
=============================================================================
