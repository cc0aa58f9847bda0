----------------------------- MODULE ChunkBuffer -----------------------------
(***************************************************************************)
(* buf_t of or/buffers.c: a list of chunks, each a block of memory with    *)
(* the bytes that are used somewhere in it.  The operators are the         *)
(* functions of that file; what they return is the list afterwards.        *)
(***************************************************************************)
EXTENDS Naturals, Sequences, SequencesExt

CONSTANTS
  HeaderLen,  \* CHUNK_HEADER_LEN
  Default,    \* default_chunk_size
  MinAlloc,   \* MIN_CHUNK_ALLOC
  MaxAlloc,   \* MAX_CHUNK_ALLOC
  MinRead     \* MIN_READ_LEN

Least(a, b) == IF a < b THEN a ELSE b

\* off: where in the block the data begins.
NewChunk(alloc) == [data |-> <<>>, off |-> 0, memlen |-> alloc - HeaderLen]
Room(c) == c.memlen - c.off - Len(c.data)
Repack(c) == [c EXCEPT !.off = 0]
Grow(c, size) == [c EXCEPT !.memlen = size]

\* The smallest power-of-two multiple of MIN_CHUNK_ALLOC that holds n bytes.
Preferred(n) ==
  LET fits == {k \in 0 .. n + HeaderLen : MinAlloc * 2 ^ k - HeaderLen >= n}
  IN  MinAlloc * 2 ^ (CHOOSE k \in fits : \A j \in fits : k <= j)

Flat(buf) == FlattenSeq([i \in DOMAIN buf |-> buf[i].data])
Before(buf, i) == Len(Flat(SubSeq(buf, 1, i)))   \* bytes up to the end of chunk i
Datalen(buf) == Before(buf, Len(buf))

\* buf_add_chunk_with_capacity, always capped.
AddChunk(buf, capacity) ==
  LET alloc == capacity + HeaderLen
  IN  Append(buf, NewChunk(IF alloc < Default THEN Default
                           ELSE IF alloc > MaxAlloc THEN MaxAlloc ELSE Preferred(capacity)))

AppendData(buf, bytes) == [buf EXCEPT ![Len(buf)].data = @ \o bytes]

\* write_to_buf: one chunk is filled in every turn of the loop.
Write(buf, string) ==
  LET after[k \in 0 .. Len(string)] ==  \* the list and what is left, after k turns
        IF k = 0 THEN <<buf, string>>
        ELSE LET left == after[k - 1][2]
                 b == after[k - 1][1]
                 to == IF b = <<>> \/ Room(Last(b)) = 0 THEN AddChunk(b, Len(left)) ELSE b
                 copy == Least(Room(Last(to)), Len(left))
             IN  IF left = <<>> THEN after[k - 1]
                 ELSE <<AppendData(to, SubSeq(left, 1, copy)), SubSeq(left, copy + 1, Len(left))>>
  IN  after[Len(string)][1]

\* read_to_buf and read_to_buf_tls: at most n bytes of those that are there.  A
\* chunk may be added for bytes that do not come.
Read(buf, n, there) ==
  LET after[k \in 0 .. n] ==  \* the list, what is to be read and what is there
        IF k = 0 THEN <<buf, n, there>>
        ELSE LET b == after[k - 1][1]
                 m == after[k - 1][2]
                 rest == after[k - 1][3]
                 to == IF b = <<>> \/ Room(Last(b)) < MinRead THEN AddChunk(b, m) ELSE b
                 readlen == Least(m, Room(Last(to)))
                 r == Least(readlen, Len(rest))
             IN  IF m = 0 THEN after[k - 1]
                 ELSE <<AppendData(to, SubSeq(rest, 1, r)), IF r < readlen THEN 0 ELSE m - r, SubSeq(rest, r + 1, Len(rest))>>
  IN  after[n][1]

\* buf_remove_from_front.
\* Mutant: the chunk is dropped with the bytes that should stay.
RemoveFront_WholeChunk(buf, n) ==
  LET whole == {i \in DOMAIN buf : Before(buf, i - 1) < n}
      k == IF n = 0 THEN 0 ELSE CHOOSE i \in whole : \A j \in whole : j <= i
  IN  SubSeq(buf, k + 1, Len(buf))

RemoveFront(buf, n) ==
  LET gone == {i \in DOMAIN buf : Before(buf, i - 1) < n /\ Before(buf, i) <= n}
      k == IF gone = {} THEN 0 ELSE CHOOSE i \in gone : \A j \in gone : j <= i
      rest == SubSeq(buf, k + 1, Len(buf))
      cut == n - Before(buf, k)
  IN  IF cut = 0 THEN rest
      ELSE [rest EXCEPT ![1].data = SubSeq(@, cut + 1, Len(@)), ![1].off = @ + cut]

\* buf_pullup: the first bytes are brought together in the head chunk.  The
\* chunk that the last of them come from stays, even with nothing left in it.
Pullup(buf, bytes) ==
  LET want == Least(bytes, Datalen(buf))
      needed == want - Len(buf[1].data)
      head == IF buf[1].memlen < want THEN Grow(Repack(buf[1]), Preferred(want) - HeaderLen)
              ELSE IF Room(buf[1]) < needed THEN Repack(buf[1]) ELSE buf[1]
      last == CHOOSE i \in DOMAIN buf : Before(buf, i - 1) < want /\ want <= Before(buf, i)
      taken == want - Before(buf, last - 1)
  IN  IF buf = <<>> \/ Len(buf[1].data) >= want THEN buf
      ELSE <<[head EXCEPT !.data = SubSeq(Flat(buf), 1, want)],
             [buf[last] EXCEPT !.data = SubSeq(@, taken + 1, Len(@)), !.off = @ + taken]>>
           \o SubSeq(buf, last + 1, Len(buf))

Peek(buf, n) == SubSeq(Flat(buf), 1, n)
-----------------------------------------------------------------------------
\* A position is a chunk and an offset in it.  buf_pos_inc goes on into the
\* next chunk, whether there is anything in it or not.
PosInc(buf, p) ==
  IF p.pos + 1 # Len(buf[p.chunk].data) THEN {[p EXCEPT !.pos = @ + 1]}
  ELSE IF p.chunk = Len(buf) THEN {} ELSE {[chunk |-> p.chunk + 1, pos |-> 0]}

\* What may be read there: past the end of the data, whatever the memory holds.
ByteAt(buf, p, any) ==
  IF p.pos < Len(buf[p.chunk].data) THEN {buf[p.chunk].data[p.pos + 1]} ELSE any

\* buf_matches_at_pos, on what the memory may hold: the places where the first
\* k characters of the string may end.
MatchesAt(buf, p, string, any) ==
  LET at[k \in DOMAIN string] ==
        {q \in IF k = 1 THEN {p} ELSE UNION {PosInc(buf, q) : q \in at[k - 1]} :
           string[k] \in ByteAt(buf, q, any)}
  IN  at[Len(string)] # {}

\* The places at which buf_find_string_offset may say that string is; the
\* first of them is its answer.
FoundAt(buf, string, any) ==
  LET at(i) == {j \in DOMAIN buf[i].data : MatchesAt(buf, [chunk |-> i, pos |-> j - 1], string, any)}
  IN  UNION {{Before(buf, i - 1) + j - 1 : j \in at(i)} : i \in DOMAIN buf}

\* assert_buf_ok, for the chunks.
AssertBufOk(buf) ==
  \A i \in DOMAIN buf : buf[i].off < buf[i].memlen /\ buf[i].off + Len(buf[i].data) <= buf[i].memlen
=============================================================================
