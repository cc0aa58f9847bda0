----------------------------- MODULE MCTransfer -----------------------------
(***************************************************************************)
(* What carries the data, one part at a time: a flow-control window, the   *)
(* buffers of a connection, a SOCKS handshake, the events and tokens of    *)
(* connections, and the quota of an accounting interval.                   *)
(***************************************************************************)
EXTENDS WindowProtocol, Sequences, FiniteSets

CONSTANTS HeaderLen, Default, MinAlloc, MaxAlloc, MinRead, Bytes, MaxOp, Requests, Ports, MaxAddr, MaxName, Bad,
  Scenes, Rate, Burst, Base, MinFlush, MaxData, MaxOthers, TimerErrors,
  Hard, SoftBytes, SoftMinutes, Length, PerSecond, Expectations, Months, ShutdownWait, MaxNow, MaxEvents
VARIABLES
  side,  \* which part is looked at
  kind, outbuf, flushlen, wantwrite, wire, inbuf, fetched,
  client, dest, asked, toServer, heard, req, res, toClient, cbuf,
  conn, glob, list, failed, left, others,
  now, up, h, state, disk, draw, settled, fresh, total, lost, exempt, events
piped == <<kind, outbuf, flushlen, wantwrite, wire, inbuf, fetched>>
socks == <<client, dest, asked, toServer, heard, req, res, toClient, cbuf>>

io == <<conn, glob, list, failed, left, others>>
quota == <<now, up, h, state, disk, draw, settled, fresh, total, lost, exempt, events>>

Http == {<<0, 80>>}
Name == <<97, 98>>
Sent == <<1, 1, 7, 2, 8, 9>>
Req5(command, type, rest) == <<5, command, 0, type>> \o rest \o <<0, 80>>
Applications ==
  LET named(c) == Req5(c, 3, <<2>> \o Name)
      four == <<1, 2, 3, 4>>
  IN  {<<5, 1, 0>> \o r : r \in
         {named(1), named(2), named(241), Req5(1, 2, <<2>> \o Name), Req5(241, 1, four) \o Name,
          Req5(1, 1, four) \o Name, Req5(1, 4, [i \in 1 .. 16 |-> i]),
          Req5(1, 3, <<5, 97, 97, 97, 97, 97>>), Req5(1, 3, <<2, 97, 34>>)}}
      \cup {<<5, 1, 2>> \o Sent \o named(1), <<5, 1, 2>> \o named(1), <<5, 2, 0, 2>> \o Sent \o named(1),
            <<5, 1, 9>> \o named(1), <<5, 0>> \o named(1), <<71, 69, 84, 32>>}
      \cup {<<4, 1, 0, 80>> \o r : r \in
              {four \o <<0>> \o Name, four \o <<66, 0>>, <<0, 0, 0, 1, 66, 0, 97, 98, 0>> \o Name,
               <<0, 0, 0, 0, 0>>, <<0, 0, 0, 1, 0, 97, 97, 97, 97, 97, 0>>, <<0, 0, 0, 1, 0, 97, 34, 0>>}}
      \cup {<<4, 240, 0, 0, 0, 0, 0, 1, 0, 97, 98, 0>>, <<4, 1, 0, 0, 1, 2, 3, 4, 0>>,
            <<4, 241, 0, 80, 1, 2, 3, 4, 0>>}
Alone(role) == [i \in {1} |-> role]
Together == {Alone(k) : k \in {"client", "relay", "exit", "dir", "local"}} \cup {[i \in {1, 2} |-> "linked"]}
Calendar == <<4, 3, 5, 4>>
P == INSTANCE Pipe
C == INSTANCE ConnectionIO
H == INSTANCE Hibernation
S == INSTANCE SocksHandshake WITH inbuf <- heard

ASSUME QuotaAssumption == H!HibernationAssumption

AnyDest == CHOOSE c \in S!Dest : S!Suits(c) /\ c.state = "socks5_want_method_none"
SideInit ==
  /\ side \in {"window", "pipe", "socks", "io", "quota"}
  /\ Init /\ P!Init /\ S!Init /\ C!Init /\ H!Init
  /\ side # "pipe" => kind = "tls"
  /\ side # "socks" => dest = AnyDest /\ client # "foreign"
  /\ side # "io" => Cardinality(DOMAIN conn) = 2
  /\ side # "quota" => now = 0 /\ draw = 0
Window == side = "window" /\ Next /\ UNCHANGED <<side, piped, socks, io, quota>>
Buffers == side = "pipe" /\ P!Next /\ UNCHANGED <<side, vars, socks, io, quota>>
Socks == side = "socks" /\ S!Next /\ UNCHANGED <<side, vars, piped, io, quota>>
Events == side = "io" /\ C!Next /\ UNCHANGED <<side, vars, piped, socks, quota>>
Seconds == side = "quota" /\ H!Next /\ UNCHANGED <<side, vars, piped, socks, io>>
SideSpec ==
  /\ SideInit /\ [][Window \/ Buffers \/ Socks \/ Events \/ Seconds]_<<side, vars, piped, socks, io, quota>>
  /\ C!Fairness

\* However the bytes of a connection are spread over the chunks of its buffers,
\* each of them is read once and in order; a write that TLS refused is tried
\* again with the same bytes; nothing that is to be flushed is out of reach;
\* and a string is found where it is.
PipeSound == side = "pipe" => P!PipeSound

\* However the network cuts what the two ends of a SOCKS handshake say, they
\* understand what was said, agree on where the stream goes, lose nothing of
\* it and do not wait for one another.
SocksSound == side = "socks" => S!SocksSound

\* No connection is left asleep with something to flush or to read, no
\* assertion fails, and a linked connection takes everything to its other end
\* before the end.
ConnectionsSound == side = "io" => C!ConnectionsSound

\* What is to be flushed leaves, or the socket breaks.
BuffersDrain == C!BuffersDrain

\* The quota is kept, and the relay sleeps and wakes when it should.
HibernatesRight == side = "quota" => H!HibernatesRight
=============================================================================
