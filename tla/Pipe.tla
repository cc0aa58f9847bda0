-------------------------------- MODULE Pipe --------------------------------
(***************************************************************************)
(* The bytes of one connection, from the buffer they are written to, over  *)
(* TLS, to the buffer they are read into: write_to_buf, flush_buf_tls,     *)
(* read_to_buf_tls, fetch_from_buf, and move_buf_to_buf where the two ends *)
(* are linked.  The bytes are numbered in the order they are written.      *)
(***************************************************************************)
EXTENDS ChunkBuffer

CONSTANTS Bytes, MaxOp
VARIABLES
  kind,      \* "tls", "plain" or "linked": how the ends are connected
  outbuf, flushlen,
  wantwrite, \* the bytes of a TLS write that has to be tried again
  wire,      \* bytes written and not read
  inbuf, fetched
vars == <<kind, outbuf, flushlen, wantwrite, wire, inbuf, fetched>>

Init ==
  /\ kind \in {"tls", "plain", "linked"}
  /\ outbuf = <<>> /\ flushlen = 0 /\ wantwrite = <<>> /\ wire = <<>> /\ inbuf = <<>> /\ fetched = 0

Written == fetched + Datalen(inbuf) + Len(wire) + Datalen(outbuf)

\* connection_write_to_buf.
WriteSome(n) ==
  /\ Written + n <= Bytes
  /\ outbuf' = Write(outbuf, [i \in 1 .. n |-> Written + i])
  /\ flushlen' = flushlen + n
  /\ UNCHANGED <<kind, wantwrite, wire, inbuf, fetched>>

HeadLen == IF outbuf = <<>> THEN 0 ELSE Len(outbuf[1].data)

\* One round of flush_buf_tls: flush_chunk_tls with tor_tls_write.  A write
\* that was refused is tried again with as many bytes as it had.
FlushTls(sz, taken) ==
  LET asked == Least(HeadLen, sz)
      n == IF wantwrite # <<>> THEN Len(wantwrite) ELSE asked
  IN  /\ kind = "tls" /\ sz <= flushlen /\ n > 0
      /\ IF taken
         THEN /\ wire' = wire \o Peek(outbuf, n)
              /\ outbuf' = RemoveFront(outbuf, n)
              /\ flushlen' = IF flushlen > n THEN flushlen - n ELSE 0
              /\ wantwrite' = <<>>
         ELSE wantwrite' = Peek(outbuf, n) /\ UNCHANGED <<outbuf, flushlen, wire>>
      /\ UNCHANGED <<kind, inbuf, fetched>>

\* One round of flush_buf: flush_chunk with a send that takes r bytes.
FlushPlain(sz, r) ==
  /\ kind = "plain" /\ sz \in 1 .. flushlen /\ r \in 1 .. Least(HeadLen, sz)
  /\ wire' = wire \o Peek(outbuf, r)
  /\ outbuf' = RemoveFront(outbuf, r)
  /\ flushlen' = flushlen - r
  /\ UNCHANGED <<kind, wantwrite, inbuf, fetched>>

\* move_buf_to_buf, and what its callers do to outbuf_flushlen.
Move(n) ==
  /\ kind = "linked" /\ n \in 1 .. flushlen
  /\ inbuf' = Write(inbuf, Peek(outbuf, n))
  /\ outbuf' = RemoveFront(outbuf, n)
  /\ flushlen' = flushlen - n
  /\ UNCHANGED <<kind, wantwrite, wire, fetched>>

ReadSome(n) ==
  LET b == Read(inbuf, n, wire)
      r == Datalen(b) - Datalen(inbuf)
  IN  /\ kind # "linked" /\ b # inbuf
      /\ inbuf' = b /\ wire' = SubSeq(wire, r + 1, Len(wire))
      /\ UNCHANGED <<kind, outbuf, flushlen, wantwrite, fetched>>

\* A parser that wants to see n bytes in one piece, and then removes m: a line
\* or a cell that is not pulled up is n = 0.
Fetch(n, m) ==
  LET b == Pullup(inbuf, n)
  IN  /\ inbuf # <<>> /\ m <= Datalen(inbuf) /\ (n > 0 \/ m > 0)
      /\ inbuf' = RemoveFront(b, m) /\ fetched' = fetched + m
      /\ UNCHANGED <<kind, outbuf, flushlen, wantwrite, wire>>

Next ==
  \/ \E n \in 1 .. MaxOp : WriteSome(n) \/ Move(n) \/ ReadSome(n)
  \/ \E n \in 0 .. MaxOp, taken \in BOOLEAN : FlushTls(n, taken)
  \/ \E n, r \in 1 .. MaxOp : FlushPlain(n, r)
  \/ \E n, m \in 0 .. MaxOp : Fetch(n, m)

Spec == Init /\ [][Next]_vars
-----------------------------------------------------------------------------
\* However the bytes are spread over chunks, they come out as they went in.
InOrder ==
  Flat(inbuf) \o wire \o Flat(outbuf)
    = [i \in 1 .. Datalen(inbuf) + Len(wire) + Datalen(outbuf) |-> fetched + i]

\* tor_tls_write's and OpenSSL's condition: when a write is tried again, the
\* same bytes are still in one piece at the head of the buffer.
RetriesSame == wantwrite # <<>> => Len(wantwrite) <= HeadLen /\ wantwrite = Peek(outbuf, Len(wantwrite))

\* The asserts of flush_buf, and no empty chunk at which a flush would stop for
\* ever.
Flushable == flushlen <= Datalen(outbuf) /\ (flushlen > 0 => HeadLen > 0) /\ AssertBufOk(outbuf)

\* A string is found where it is; except that a search that comes to the end
\* of the data goes on into a chunk that was added in vain and is empty.
FindsRight ==
  \A k \in fetched + 1 .. Bytes : \A n \in FoundAt(inbuf, <<k, k + 1>>, 1 .. Bytes) :
    IF n + 1 < Datalen(inbuf) THEN SubSeq(Flat(inbuf), n + 1, n + 2) = <<k, k + 1>>
    ELSE Last(inbuf).data = <<>>

\* Every byte that is written is read, once and in order; a write that TLS
\* refused is tried again with the same bytes; what there is to flush can be.
PipeSound == InOrder /\ RetriesSame /\ Flushable /\ FindsRight
=============================================================================
