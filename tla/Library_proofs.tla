------------------------ MODULE Library_proofs -------------------------
(***************************************************************************)
(* The queues of the library.  For any streams, amounts of data, sizes of  *)
(* chunks and of the buffer: no interleaving of the reading thread with    *)
(* the main thread returns a unit of data twice, and a call that no add    *)
(* races with keeps the data of the other streams.  For any streams and    *)
(* number of commands: without reentrant callbacks the command queue       *)
(* implements a FIFO queue.                                                *)
(***************************************************************************)
EXTENDS MCLibrary, SequenceLemmas

-----------------------------------------------------------------------------
(* The inductive invariant. *)

Stages == {"idle", "close", "swapclose", "read", "swapread"}
Calls == [stage : Stages, stream : Streams \cup {Nil}, found : BOOLEAN, buffer : Seq(Nat \ {0})]
Adds == [kind : {"data"}, item : Chunks, freed : BOOLEAN]
          \cup [kind : {"close"}, item : Streams, freed : BOOLEAN]

Types ==
  /\ serial \in BOOLEAN /\ signalled \in BOOLEAN
  /\ readqueue \in Seq(Chunks) /\ nreadqueue \in Seq(Chunks)
  /\ closequeue \in Seq(Streams) /\ nclosequeue \in Seq(Streams)
  /\ adding # Nil => adding \in Adds
  /\ call \in Calls /\ (call.stage = "idle" <=> call = Idle)
  /\ call.stage # "idle" => call.stream \in Streams
  /\ received \in [Streams -> Nat] /\ \A s \in Streams : received[s] <= Units[s]
  /\ got \in [Streams -> Seq(Nat \ {0})]
  /\ closed \in SUBSET Streams

\* Only the closing of a closed stream is on the lists, found or told.
ClosingsKnown ==
  /\ ToSet(closequeue) \subseteq closed /\ ToSet(nclosequeue) \subseteq closed
  /\ adding # Nil => (adding.kind = "close" => adding.item \in closed)
  /\ call.found => call.stream \in closed
  /\ told \subseteq closed

\* The chunks that are there, the one that is being added included.
Pending == IF adding = Nil THEN {} ELSE IF adding.kind = "data" THEN {adding.item} ELSE {}
Pieces == ToSet(readqueue) \cup ToSet(nreadqueue) \cup Pending

Apart(d, e) == d.stream # e.stream \/ d.last < e.first \/ e.last < d.first
Outside(u, d) == u < d.first \/ d.last < u

\* Every unit is in one chunk, and every chunk in one place.
ChunksApart ==
  /\ IsInjective(readqueue) /\ IsInjective(nreadqueue)
  /\ ToSet(readqueue) \cap ToSet(nreadqueue) = {}
  /\ Pending \cap (ToSet(readqueue) \cup ToSet(nreadqueue)) = {}
  /\ \A d, e \in Pieces : d = e \/ Apart(d, e)
  /\ \A d \in Pieces : d.first <= d.last /\ d.last <= received[d.stream]

\* What calls have returned is in no chunk and was returned once.
GotOnce ==
  \A s \in Streams :
    /\ IsInjective(got[s])
    /\ \A u \in ToSet(got[s]) :
         u <= received[s] /\ \A d \in Pieces : d.stream = s => Outside(u, d)

\* What the call will return is in no chunk, and was not returned.
BufferOnce ==
  /\ IsInjective(call.buffer)
  /\ \A u \in ToSet(call.buffer) :
       /\ u <= received[call.stream] /\ u \notin ToSet(got[call.stream])
       /\ \A d \in Pieces : d.stream = call.stream => Outside(u, d)
  /\ call.stage = "idle" => call.buffer = <<>>

\* With reads and adds kept apart.
Alone ==
  serial => /\ call # Idle => adding = Nil
            /\ call.stage = "swapread" => readqueue = <<>>

IInv == Types /\ ClosingsKnown /\ ChunksApart /\ GotOnce /\ BufferOnce /\ Alone
-----------------------------------------------------------------------------
(* Chunks, and what is cut off from them. *)

LEMMA ChunkFacts ==
  ASSUME NEW d \in Chunks
  PROVE  /\ d.stream \in Streams /\ d.first \in Nat \ {0} /\ d.last \in Nat \ {0}
         /\ d.last <= Units[d.stream]
         /\ d = [stream |-> d.stream, first |-> d.first, last |-> d.last]
<1>1. PICK s \in Streams : d \in [stream : {s}, first : 1 .. Units[s], last : 1 .. Units[s]]
  BY DEF Chunks
<1>2. Units[s] \in Nat
  BY ReceiveAssumption
<1> QED
  BY <1>1, <1>2

LEMMA ChunkMade ==
  ASSUME NEW s \in Streams, NEW i \in Nat \ {0}, NEW j \in Nat \ {0},
         i <= Units[s], j <= Units[s]
  PROVE  [stream |-> s, first |-> i, last |-> j] \in Chunks
<1>1. Units[s] \in Nat
  BY ReceiveAssumption
<1>2. i \in 1 .. Units[s] /\ j \in 1 .. Units[s]
  BY <1>1
<1>3. [stream |-> s, first |-> i, last |-> j]
        \in [stream : {s}, first : 1 .. Units[s], last : 1 .. Units[s]]
  BY <1>2
<1> QED
  BY <1>3 DEF Chunks

\* A chunk is cut in two, the first part fits in the buffer.
LEMMA RestFacts ==
  ASSUME NEW d \in Chunks, d.first <= d.last
  PROVE  /\ Fitting(d) \in Nat \ {0} /\ d.first + Fitting(d) <= d.last + 1
         /\ \/ Rest(d) = <<>>
            \/ \E e \in Chunks :
                 /\ Rest(d) = <<e>> /\ e.stream = d.stream
                 /\ e.first = d.first + Fitting(d) /\ e.last = d.last /\ e.first <= e.last
<1>1. /\ d.stream \in Streams /\ d.first \in Nat \ {0} /\ d.last \in Nat \ {0}
      /\ d.last <= Units[d.stream]
      /\ d = [stream |-> d.stream, first |-> d.first, last |-> d.last]
  BY ChunkFacts
<1>2. Units[d.stream] \in Nat /\ BufferSize \in Nat \ {0}
  BY ReceiveAssumption, <1>1
<1>. DEFINE n == Fitting(d)
            e == [d EXCEPT !.first = d.first + n]
<1>3. n \in Nat \ {0} /\ d.first + n <= d.last + 1
  BY <1>1, <1>2 DEF Fitting
<1>4. Rest(d) = IF d.first + n > d.last THEN <<>> ELSE <<e>>
  BY DEF Rest
<1>. HIDE DEF n
<1>5. CASE d.first + n > d.last
  BY <1>3, <1>4, <1>5 DEF n
<1>6. CASE d.first + n <= d.last
  <2>1. e = [stream |-> d.stream, first |-> d.first + n, last |-> d.last]
    BY <1>1
  <2>2. d.first + n \in Nat \ {0} /\ d.first + n <= Units[d.stream]
    BY <1>1, <1>2, <1>3, <1>6
  <2>3. e \in Chunks
    BY <1>1, <2>1, <2>2, ChunkMade
  <2>4. e.stream = d.stream /\ e.first = d.first + n /\ e.last = d.last /\ e.first <= e.last
    BY <1>6, <2>1
  <2>5. Rest(d) = <<e>>
    BY <1>1, <1>3, <1>4, <1>6
  <2>. HIDE DEF e
  <2> QED
    BY <1>3, <2>3, <2>4, <2>5 DEF n
<1> QED
  BY <1>1, <1>3, <1>5, <1>6

\* What is copied of a chunk.
LEMMA CopiedFacts ==
  ASSUME NEW first \in Nat \ {0}, NEW n \in Nat \ {0}
  PROVE  LET b == [i \in 1 .. n |-> first + i - 1] IN
         /\ b \in Seq(Nat \ {0}) /\ IsInjective(b)
         /\ \A u \in ToSet(b) : first <= u /\ u < first + n
<1>. DEFINE b == [i \in 1 .. n |-> first + i - 1]
<1>1. \A i \in 1 .. n : first + i - 1 \in Nat \ {0} /\ first <= first + i - 1 /\ first + i - 1 < first + n
  OBVIOUS
<1>2. b \in [1 .. n -> Nat \ {0}]
  BY <1>1
<1>3. b \in Seq(Nat \ {0})
  BY <1>2, SeqDef
<1>4. DOMAIN b = 1 .. n /\ \A i \in 1 .. n : b[i] = first + i - 1
  OBVIOUS
<1>. HIDE DEF b
<1>5. IsInjective(b)
  BY <1>4 DEF IsInjective
<1>6. \A u \in ToSet(b) : \E i \in 1 .. n : u = b[i]
  BY <1>4 DEF ToSet
<1>7. \A u \in ToSet(b) : first <= u /\ u < first + n
  BY <1>1, <1>4, <1>6
<1> QED
  BY <1>3, <1>5, <1>7 DEF b

LEMMA PieceTyped ==
  ASSUME Types
  PROVE  Pieces \subseteq Chunks
<1>1. ToSet(readqueue) \subseteq Chunks /\ ToSet(nreadqueue) \subseteq Chunks
  BY ToSetProperties DEF Types
<1>2. Pending \subseteq Chunks
  BY DEF Types, Pending, Adds
<1> QED
  BY <1>1, <1>2 DEF Pieces

LEMMA InitIInv ==
  ASSUME Init
  PROVE  IInv
<1>1. Types
  <2>1. \A s \in Streams : Units[s] \in Nat
    BY ReceiveAssumption
  <2>2. call \in Calls /\ call = Idle /\ call.stage = "idle"
    BY EmptySeq DEF Init, Idle, Calls, Stages
  <2>3. /\ received \in [Streams -> Nat] /\ \A s \in Streams : received[s] <= Units[s]
        /\ got \in [Streams -> Seq(Nat \ {0})]
    BY <2>1, EmptySeq DEF Init
  <2>4. /\ readqueue \in Seq(Chunks) /\ nreadqueue \in Seq(Chunks)
        /\ closequeue \in Seq(Streams) /\ nclosequeue \in Seq(Streams)
    BY EmptySeq DEF Init
  <2> QED
    BY <2>2, <2>3, <2>4 DEF Init, Types
<1>2. readqueue = <<>> /\ nreadqueue = <<>> /\ closequeue = <<>> /\ nclosequeue = <<>>
        /\ adding = Nil /\ call.buffer = <<>> /\ call.found = FALSE /\ call = Idle
        /\ call.stage = "idle" /\ told = {} /\ \A s \in Streams : got[s] = <<>>
  BY DEF Init, Idle
<1>3. Pieces = {} /\ Pending = {}
  BY <1>2, EmptyList DEF Pieces, Pending
<1>4. ClosingsKnown
  BY <1>2, EmptyList DEF ClosingsKnown
<1>5. ChunksApart
  BY <1>2, <1>3, EmptyList DEF ChunksApart
<1>6. GotOnce /\ BufferOnce /\ Alone
  BY <1>2, <1>3, EmptyList DEF GotOnce, BufferOnce, Alone
<1> QED
  BY <1>1, <1>4, <1>5, <1>6 DEF IInv

-----------------------------------------------------------------------------
(* The steps. *)

\* Nothing was returned, and there are no new chunks.
LEMMA NoNewPieces ==
  ASSUME IInv, Pieces' \subseteq Pieces, got' = got, received' = received,
         call'.buffer = call.buffer, call'.stream = call.stream \/ call.buffer = <<>>,
         call'.stage = "idle" => call.buffer = <<>>
  PROVE  GotOnce' /\ BufferOnce'
<1>1. GotOnce'
  BY DEF IInv, GotOnce
<1>2. ASSUME call.buffer = <<>> PROVE BufferOnce'
  BY <1>2, EmptyList DEF BufferOnce
<1>3. ASSUME call'.stream = call.stream PROVE BufferOnce'
  BY <1>3 DEF IInv, BufferOnce
<1> QED
  BY <1>1, <1>2, <1>3

LEMMA QueueRecvdDataIInv ==
  ASSUME IInv, NEW s \in Streams, QueueRecvdData(s)
  PROVE  IInv'
<1>1. PICK n \in 1 .. MaxChunk :
        /\ s \notin closed /\ received[s] + n <= Units[s]
        /\ Begin("data", [stream |-> s, first |-> received[s] + 1, last |-> received[s] + n])
        /\ received' = [received EXCEPT ![s] = @ + n]
        /\ UNCHANGED closed
  BY DEF QueueRecvdData
<1>. DEFINE d == [stream |-> s, first |-> received[s] + 1, last |-> received[s] + n]
<1>2. /\ n \in Nat \ {0} /\ received[s] \in Nat /\ Units[s] \in Nat
  BY ReceiveAssumption DEF IInv, Types
<1>3. d \in Chunks
  <2>1. received[s] + 1 \in Nat \ {0} /\ received[s] + n \in Nat \ {0}
        /\ received[s] + 1 <= Units[s]
    BY <1>1, <1>2
  <2> QED
    BY <1>1, <2>1, ChunkMade
<1>4. d.stream = s /\ d.first = received[s] + 1 /\ d.last = received[s] + n
  OBVIOUS
<1>5. /\ adding = Nil /\ adding' = [kind |-> "data", item |-> d, freed |-> FALSE]
      /\ (serial => call = Idle)
      /\ UNCHANGED <<serial, lists, signalled, call, got, told>>
  BY <1>1 DEF Begin
<1>. HIDE DEF d
<1>6. adding'.kind = "data" /\ adding'.item = d /\ adding' \in Adds
  BY <1>3, <1>5 DEF Adds
<1>7. received' \in [Streams -> Nat] /\ received'[s] = received[s] + n
      /\ \A t \in Streams \ {s} : received'[t] = received[t]
  BY <1>1, <1>2 DEF IInv, Types
<1>8. Types'
  BY <1>1, <1>5, <1>6, <1>7 DEF IInv, Types, lists
<1>9. ClosingsKnown'
  BY <1>1, <1>5, <1>6 DEF IInv, ClosingsKnown, lists
<1>10. /\ Pending = {} /\ (Pending' = {} \/ Pending' = {d})
       /\ Pieces' \subseteq Pieces \cup {d}
       /\ UNCHANGED <<readqueue, nreadqueue>>
  BY <1>5, <1>6 DEF Pending, Pieces, lists
<1>11. Pieces \subseteq Chunks
  BY PieceTyped DEF IInv
<1>12. \A e \in Pieces : /\ e.stream \in Streams /\ e.first \in Nat /\ e.last \in Nat
                         /\ e.first <= e.last /\ e.last <= received[e.stream]
  BY <1>11, ChunkFacts DEF IInv, ChunksApart
<1>13. \A t \in Streams : received[t] \in Nat /\ received'[t] \in Nat /\ received[t] <= received'[t]
  <2>1. received \in [Streams -> Nat] /\ received[s] <= received[s] + n
    BY <1>2 DEF IInv, Types
  <2>2. ASSUME NEW t \in Streams, t # s PROVE received[t] = received'[t] /\ received[t] \in Nat
    BY <1>7, <2>1, <2>2
  <2> QED
    BY <1>2, <1>7, <2>1, <2>2
<1>14. \A e \in Pieces : Apart(e, d) /\ Apart(d, e) /\ e # d
  BY <1>2, <1>4, <1>12 DEF Apart
<1>15. ChunksApart'
  <2>1. \A e \in Pieces' : e.first <= e.last /\ e.last <= received'[e.stream]
    <3>1. d.first <= d.last /\ d.last <= received'[d.stream]
      BY <1>2, <1>4, <1>7
    <3>2. ASSUME NEW e \in Pieces PROVE e.first <= e.last /\ e.last <= received'[e.stream]
      BY <1>12, <1>13
    <3> QED
      BY <1>10, <3>1, <3>2
  <2>2. \A e, f \in Pieces' : e = f \/ Apart(e, f)
    BY <1>10, <1>14 DEF IInv, ChunksApart
  <2>3. Pending' \cap (ToSet(readqueue') \cup ToSet(nreadqueue')) = {}
    BY <1>10, <1>14 DEF Pieces
  <2> QED
    BY <1>10, <2>1, <2>2, <2>3 DEF IInv, ChunksApart
<1>16. GotOnce'
  <2>1. ASSUME NEW t \in Streams PROVE IsInjective(got'[t])
    BY <1>5 DEF IInv, GotOnce
  <2>2. ASSUME NEW t \in Streams, NEW u \in ToSet(got'[t])
        PROVE  u <= received'[t] /\ \A e \in Pieces' : e.stream = t => Outside(u, e)
    <3>1. u \in ToSet(got[t]) /\ u \in Nat
      <4>1. got[t] \in Seq(Nat \ {0})
        BY DEF IInv, Types
      <4> QED
        BY <1>5, <2>2, <4>1, ToSetProperties
    <3>2. u <= received[t] /\ \A e \in Pieces : e.stream = t => Outside(u, e)
      BY <3>1 DEF IInv, GotOnce
    <3>3. t = s => Outside(u, d)
      BY <1>2, <1>4, <3>1, <3>2 DEF Outside
    <3>4. u <= received'[t]
      BY <1>13, <3>1, <3>2
    <3> QED
      BY <1>4, <1>10, <3>2, <3>3, <3>4
  <2> QED
    BY <2>1, <2>2 DEF GotOnce
<1>17. BufferOnce'
  <2>1. ASSUME NEW u \in ToSet(call'.buffer)
        PROVE  /\ u <= received'[call'.stream] /\ u \notin ToSet(got'[call'.stream])
               /\ \A e \in Pieces' : e.stream = call'.stream => Outside(u, e)
    <3>1. u \in ToSet(call.buffer) /\ u \in Nat /\ call' = call
      <4>1. call.buffer \in Seq(Nat \ {0})
        BY DEF IInv, Types, Calls
      <4> QED
        BY <1>5, <2>1, <4>1, ToSetProperties
    <3>2. /\ u <= received[call.stream] /\ u \notin ToSet(got[call.stream])
          /\ \A e \in Pieces : e.stream = call.stream => Outside(u, e)
      BY <3>1 DEF IInv, BufferOnce
    <3>3. call.stream \in Streams
      <4>1. call.buffer # <<>>
        BY <3>1, EmptyList
      <4> QED
        BY <4>1 DEF IInv, Types, BufferOnce
    <3>4. call.stream = s => Outside(u, d)
      BY <1>2, <1>4, <3>1, <3>2 DEF Outside
    <3>5. u <= received'[call.stream]
      BY <1>13, <3>1, <3>2, <3>3
    <3> QED
      BY <1>4, <1>5, <1>10, <3>1, <3>2, <3>4, <3>5
  <2> QED
    BY <1>5, <2>1 DEF IInv, BufferOnce
<1>18. Alone'
  BY <1>5 DEF IInv, Types, Alone, lists
<1> QED
  BY <1>8, <1>9, <1>15, <1>16, <1>17, <1>18 DEF IInv

LEMMA QueueClosedStreamIInv ==
  ASSUME IInv, NEW s \in Streams, QueueClosedStream(s)
  PROVE  IInv'
<1>1. /\ adding = Nil /\ adding' = [kind |-> "close", item |-> s, freed |-> FALSE]
      /\ (serial => call = Idle) /\ closed' = closed \cup {s}
      /\ UNCHANGED <<serial, lists, signalled, call, got, told, received>>
  BY DEF QueueClosedStream, Begin
<1>2. adding'.kind = "close" /\ adding'.item = s /\ adding' \in Adds
  BY <1>1 DEF Adds
<1>3. Types'
  BY <1>1, <1>2 DEF IInv, Types, lists
<1>4. ClosingsKnown'
  BY <1>1, <1>2 DEF IInv, ClosingsKnown, lists
<1>5. Pending = {} /\ Pending' = {} /\ Pieces' = Pieces
  BY <1>1, <1>2 DEF Pending, Pieces, lists
<1>6. ChunksApart'
  BY <1>1, <1>5 DEF IInv, ChunksApart, lists
<1>7. GotOnce' /\ BufferOnce'
  <2>1. call'.stage = "idle" => call.buffer = <<>>
    BY <1>1 DEF IInv, BufferOnce
  <2> QED
    BY <1>1, <1>5, <2>1, NoNewPieces
<1>8. Alone'
  BY <1>1 DEF IInv, Types, Alone, lists
<1> QED
  BY <1>3, <1>4, <1>6, <1>7, <1>8 DEF IInv

LEMMA AddIInv ==
  ASSUME IInv, Add
  PROVE  IInv'
<1>1. /\ adding # Nil /\ adding' = Nil /\ signalled' = TRUE
      /\ UNCHANGED <<serial, call, nreadqueue, nclosequeue, received, closed, got, told>>
  BY DEF Add
<1>2. CASE adding.kind = "data" /\ ~adding.freed
  <2>1. readqueue' = Append(readqueue, adding.item) /\ closequeue' = closequeue
    BY <1>2 DEF Add
  <2>2. adding.item \in Chunks /\ readqueue \in Seq(Chunks)
    BY <1>1, <1>2 DEF IInv, Types, Adds
  <2>3. /\ readqueue' \in Seq(Chunks)
        /\ ToSet(readqueue') = ToSet(readqueue) \cup {adding.item}
        /\ IsInjective(readqueue) /\ adding.item \notin ToSet(readqueue) => IsInjective(readqueue')
    BY <2>1, <2>2, AppendMember
  <2>4. Pending = {adding.item} /\ Pending' = {}
    BY <1>1, <1>2 DEF Pending
  <2>5. Pieces' = Pieces
    BY <1>1, <2>3, <2>4 DEF Pieces
  <2>6. ChunksApart'
    BY <1>1, <2>3, <2>4, <2>5 DEF IInv, ChunksApart
  <2>7. Types'
    BY <1>1, <2>1, <2>3 DEF IInv, Types
  <2>8. ClosingsKnown'
    BY <1>1, <2>1 DEF IInv, ClosingsKnown
  <2>9. GotOnce' /\ BufferOnce'
    <3>1. call'.stage = "idle" => call.buffer = <<>>
      BY <1>1 DEF IInv, BufferOnce
    <3> QED
      BY <1>1, <2>5, <3>1, NoNewPieces
  <2>10. Alone'
    BY <1>1 DEF IInv, Types, Alone
  <2> QED
    BY <2>6, <2>7, <2>8, <2>9, <2>10 DEF IInv
<1>3. CASE ~(adding.kind = "data" /\ ~adding.freed)
  <2>1. /\ readqueue' = readqueue
        /\ \/ closequeue' = closequeue
           \/ (adding.kind = "close" /\ closequeue' = Append(closequeue, adding.item))
    BY <1>3 DEF Add
  <2>2. Pending' = {} /\ Pieces' \subseteq Pieces
    BY <1>1, <2>1 DEF Pending, Pieces
  <2>3. ChunksApart'
    BY <1>1, <2>1, <2>2 DEF IInv, ChunksApart
  <2>4. closequeue' \in Seq(Streams) /\ ToSet(closequeue') \subseteq closed
    <3>1. CASE closequeue' = closequeue
      BY <3>1 DEF IInv, Types, ClosingsKnown
    <3>2. CASE adding.kind = "close" /\ closequeue' = Append(closequeue, adding.item)
      <4>1. adding.item \in Streams /\ adding.item \in closed /\ closequeue \in Seq(Streams)
        BY <1>1, <3>2 DEF IInv, Types, Adds, ClosingsKnown
      <4> QED
        BY <3>2, <4>1, AppendMember DEF IInv, ClosingsKnown
    <3> QED
      BY <2>1, <3>1, <3>2
  <2>5. Types'
    BY <1>1, <2>1, <2>4 DEF IInv, Types
  <2>6. ClosingsKnown'
    BY <1>1, <2>4 DEF IInv, ClosingsKnown
  <2>7. GotOnce' /\ BufferOnce'
    <3>1. call'.stage = "idle" => call.buffer = <<>>
      BY <1>1 DEF IInv, BufferOnce
    <3> QED
      BY <1>1, <2>2, <3>1, NoNewPieces
  <2>8. Alone'
    BY <1>1, <2>1 DEF IInv, Types, Alone
  <2> QED
    BY <2>3, <2>5, <2>6, <2>7, <2>8 DEF IInv
<1> QED
  BY <1>2, <1>3

\* A step of the reading thread that leaves the chunks alone.
LEMMA CallIInv ==
  ASSUME IInv, NEW st \in Stages \ {"idle"}, NEW s \in Streams, NEW f \in BOOLEAN,
         call' = [stage |-> st, stream |-> s, found |-> f, buffer |-> call.buffer],
         call.stream = s \/ call.buffer = <<>>,
         f => s \in closed,
         serial => adding = Nil,
         st = "swapread" => readqueue = <<>>,
         closequeue' \in Seq(Streams), nclosequeue' \in Seq(Streams),
         ToSet(closequeue') \subseteq closed, ToSet(nclosequeue') \subseteq closed,
         adding' = adding \/ (adding # Nil /\ adding' = [adding EXCEPT !.freed = TRUE]),
         UNCHANGED <<serial, readqueue, nreadqueue, signalled, received, closed, got, told>>
  PROVE  IInv'
<1>1. /\ call'.stage = st /\ call'.stream = s /\ call'.found = f /\ call'.buffer = call.buffer
      /\ call' \in Calls /\ call' # Idle
  <2>1. call.buffer \in Seq(Nat \ {0})
    BY DEF IInv, Types, Calls
  <2>2. call'.stage = st /\ call'.stream = s /\ call'.found = f /\ call'.buffer = call.buffer
    OBVIOUS
  <2>3. Idle.stage = "idle"
    BY DEF Idle
  <2> QED
    BY <2>1, <2>2, <2>3 DEF Calls
<1>2. /\ adding' # Nil => adding' \in Adds /\ adding'.kind = adding.kind /\ adding'.item = adding.item
      /\ adding' # Nil => adding # Nil
  <2>1. CASE adding' = adding
    BY <2>1 DEF IInv, Types
  <2>2. CASE adding # Nil /\ adding' = [adding EXCEPT !.freed = TRUE]
    <3>1. adding \in Adds
      BY <2>2 DEF IInv, Types
    <3> QED
      BY <2>2, <3>1 DEF Adds
  <2> QED
    BY <2>1, <2>2
<1>3. Types'
  BY <1>1, <1>2 DEF IInv, Types
<1>4. ClosingsKnown'
  BY <1>1, <1>2 DEF IInv, ClosingsKnown
<1>5. Pending' \subseteq Pending /\ Pieces' \subseteq Pieces
  BY <1>2 DEF Pending, Pieces
<1>6. ChunksApart'
  BY <1>5 DEF IInv, ChunksApart
<1>7. GotOnce' /\ BufferOnce'
  BY <1>1, <1>5, NoNewPieces
<1>8. Alone'
  <2>1. serial => adding' = Nil
    OBVIOUS
  <2> QED
    BY <1>1, <2>1 DEF Alone
<1> QED
  BY <1>3, <1>4, <1>6, <1>7, <1>8 DEF IInv

LEMMA RecvIInv ==
  ASSUME IInv, NEW s \in Streams, Recv(s)
  PROVE  IInv'
<1>1. /\ call = Idle /\ (serial => adding = Nil)
      /\ call' = [Idle EXCEPT !.stage = "close", !.stream = s]
      /\ UNCHANGED <<serial, lists, adding, signalled, received, closed, got, told>>
  BY DEF Recv
<1>2. call.buffer = <<>>
  BY <1>1 DEF Idle
<1>3. call' = [stage |-> "close", stream |-> s, found |-> FALSE, buffer |-> call.buffer]
  BY <1>1 DEF Idle
<1>4. /\ closequeue' \in Seq(Streams) /\ nclosequeue' \in Seq(Streams)
      /\ ToSet(closequeue') \subseteq closed /\ ToSet(nclosequeue') \subseteq closed
  BY <1>1 DEF IInv, Types, ClosingsKnown, lists
<1> QED
  BY <1>1, <1>2, <1>3, <1>4, CallIInv DEF Stages, lists

\* What is known of the call while it goes on.
LEMMA GoingOn ==
  ASSUME IInv, call.stage # "idle"
  PROVE  /\ call.stream \in Streams /\ call.found \in BOOLEAN /\ call.stage \in Stages
         /\ call = [stage |-> call.stage, stream |-> call.stream, found |-> call.found,
                    buffer |-> call.buffer]
         /\ call.buffer \in Seq(Nat \ {0})
         /\ (serial => adding = Nil)
         /\ (call.found => call.stream \in closed)
         /\ closequeue \in Seq(Streams) /\ nclosequeue \in Seq(Streams)
         /\ ToSet(closequeue) \subseteq closed /\ ToSet(nclosequeue) \subseteq closed
<1>1. call \in Calls /\ call # Idle /\ call.stream \in Streams
  BY DEF IInv, Types
<1> QED
  BY <1>1 DEF IInv, Types, ClosingsKnown, Alone, Calls

LEMMA PopCloseIInv ==
  ASSUME IInv, PopClose
  PROVE  IInv'
<1>. DEFINE c == Last(closequeue)
<1>1. /\ call.stage = "close" /\ closequeue # <<>>
      /\ nclosequeue' = ClosesKept(c, call.stream, call.found, nclosequeue)
      /\ call' = [call EXCEPT !.found = call.found \/ c = call.stream]
      /\ closequeue' = Front(closequeue)
      /\ UNCHANGED <<serial, readqueue, nreadqueue, adding, signalled, received, closed, got, told>>
  BY DEF PopClose
<1>2. /\ call.stream \in Streams /\ call.found \in BOOLEAN
      /\ call = [stage |-> call.stage, stream |-> call.stream, found |-> call.found,
                 buffer |-> call.buffer]
      /\ (serial => adding = Nil) /\ (call.found => call.stream \in closed)
      /\ closequeue \in Seq(Streams) /\ nclosequeue \in Seq(Streams)
      /\ ToSet(closequeue) \subseteq closed /\ ToSet(nclosequeue) \subseteq closed
  BY <1>1, GoingOn
<1>3. /\ c \in Streams /\ c \in closed /\ closequeue' \in Seq(Streams)
      /\ ToSet(closequeue') \subseteq closed
  BY <1>1, <1>2, PopAnyMembers
<1>. HIDE DEF c
<1>4. nclosequeue' \in Seq(Streams) /\ ToSet(nclosequeue') \subseteq closed
  <2>1. nclosequeue' = nclosequeue \/ nclosequeue' = Append(nclosequeue, c)
    BY <1>1 DEF ClosesKept
  <2>2. Append(nclosequeue, c) \in Seq(Streams)
        /\ ToSet(Append(nclosequeue, c)) = ToSet(nclosequeue) \cup {c}
    BY <1>2, <1>3, AppendMember
  <2> QED
    BY <1>2, <1>3, <2>1, <2>2
<1>5. PICK f \in BOOLEAN : f = (call.found \/ c = call.stream)
  BY <1>2
<1>6. call' = [stage |-> "close", stream |-> call.stream, found |-> f, buffer |-> call.buffer]
  BY <1>1, <1>2, <1>5
<1>7. f => call.stream \in closed
  BY <1>2, <1>3, <1>5
<1> QED
  BY <1>1, <1>2, <1>3, <1>4, <1>6, <1>7, CallIInv DEF Stages

LEMMA ClosesDoneIInv ==
  ASSUME IInv, ClosesDone
  PROVE  IInv'
<1>1. /\ call.stage = "close" /\ call' = [call EXCEPT !.stage = "swapclose"]
      /\ UNCHANGED <<serial, lists, adding, signalled, received, closed, got, told>>
  BY DEF ClosesDone
<1>2. call' = [stage |-> "swapclose", stream |-> call.stream, found |-> call.found,
               buffer |-> call.buffer]
  BY <1>1, GoingOn
<1> QED
  BY <1>1, <1>2, GoingOn, CallIInv DEF Stages, lists

LEMMA SwapCloseIInv ==
  ASSUME IInv, SwapClose
  PROVE  IInv'
<1>1. /\ call.stage = "swapclose" /\ call' = [call EXCEPT !.stage = "read"]
      /\ closequeue' = nclosequeue /\ nclosequeue' = <<>> /\ adding' = Freed("close")
      /\ UNCHANGED <<serial, readqueue, nreadqueue, signalled, received, closed, got, told>>
  BY DEF SwapClose
<1>2. call' = [stage |-> "read", stream |-> call.stream, found |-> call.found,
               buffer |-> call.buffer]
  BY <1>1, GoingOn
<1>3. /\ closequeue' \in Seq(Streams) /\ nclosequeue' \in Seq(Streams)
      /\ ToSet(closequeue') \subseteq closed /\ ToSet(nclosequeue') \subseteq closed
  BY <1>1, GoingOn, EmptySeq, EmptyList
<1>4. adding' = adding \/ (adding # Nil /\ adding' = [adding EXCEPT !.freed = TRUE])
  BY <1>1 DEF Freed
<1> QED
  BY <1>1, <1>2, <1>3, <1>4, GoingOn, CallIInv DEF Stages

LEMMA ReadsDoneIInv ==
  ASSUME IInv, ReadsDone
  PROVE  IInv'
<1>1. /\ call.stage = "read" /\ readqueue = <<>> /\ call' = [call EXCEPT !.stage = "swapread"]
      /\ UNCHANGED <<serial, lists, adding, signalled, received, closed, got, told>>
  BY DEF ReadsDone
<1>2. call' = [stage |-> "swapread", stream |-> call.stream, found |-> call.found,
               buffer |-> call.buffer]
  BY <1>1, GoingOn
<1> QED
  BY <1>1, <1>2, GoingOn, CallIInv DEF Stages, lists

\* The last chunk of the list, and what is left of the list.
LEMMA PoppedChunk ==
  ASSUME IInv, readqueue # <<>>
  PROVE  LET d == Last(readqueue) IN
         /\ d \in Chunks /\ d \in ToSet(readqueue) /\ d \in Pieces
         /\ d.stream \in Streams /\ d.first \in Nat \ {0} /\ d.last \in Nat \ {0}
         /\ d.first <= d.last /\ d.last <= received[d.stream]
         /\ Front(readqueue) \in Seq(Chunks) /\ IsInjective(Front(readqueue))
         /\ ToSet(Front(readqueue)) = ToSet(readqueue) \ {d}
<1>. DEFINE d == Last(readqueue)
<1>1. /\ d \in Chunks /\ d \in ToSet(readqueue)
      /\ Front(readqueue) \in Seq(Chunks) /\ IsInjective(Front(readqueue))
      /\ ToSet(Front(readqueue)) = ToSet(readqueue) \ {d}
  BY PopLastMembers DEF IInv, Types, ChunksApart
<1>. HIDE DEF d
<1>2. d \in Pieces
  BY <1>1 DEF Pieces
<1>3. d.stream \in Streams /\ d.first \in Nat \ {0} /\ d.last \in Nat \ {0}
  BY <1>1, ChunkFacts
<1>4. d.first <= d.last /\ d.last <= received[d.stream]
  BY <1>2 DEF IInv, ChunksApart
<1> QED
  BY <1>1, <1>2, <1>3, <1>4 DEF d

\* A chunk that is not for the call, or that comes after the closing.
LEMMA PopOtherIInv ==
  ASSUME IInv, PopRead,
         Last(readqueue).stream # call.stream \/ call.found
  PROVE  IInv'
<1>. DEFINE d == Last(readqueue)
<1>1. /\ call.stage = "read" /\ readqueue # <<>>
      /\ nreadqueue' = nreadqueue \o DataKept(d, call.stream, call.found)
      /\ call' = call /\ readqueue' = Front(readqueue)
      /\ UNCHANGED <<serial, closequeue, nclosequeue, adding, signalled, received, closed, got, told>>
  BY DEF PopRead
<1>2. /\ d \in Chunks /\ d \in ToSet(readqueue) /\ d \in Pieces
      /\ readqueue' \in Seq(Chunks) /\ IsInjective(readqueue')
      /\ ToSet(readqueue') = ToSet(readqueue) \ {d}
  BY <1>1, PoppedChunk
<1>3. DataKept(d, call.stream, call.found) \in {<<>>, <<d>>}
  BY DEF DataKept
<1>. HIDE DEF d
<1>4. nreadqueue \in Seq(Chunks) /\ IsInjective(nreadqueue)
        /\ ToSet(readqueue) \cap ToSet(nreadqueue) = {}
  BY DEF IInv, Types, ChunksApart
<1>5. nreadqueue' = nreadqueue \/ nreadqueue' = Append(nreadqueue, d)
  <2>1. nreadqueue \o <<>> = nreadqueue /\ Append(nreadqueue, d) = nreadqueue \o <<d>>
    BY <1>2, <1>4, ConcatEmptySeq, AppendIsConcat
  <2> QED
    BY <1>1, <1>3, <2>1
<1>6. /\ nreadqueue' \in Seq(Chunks) /\ IsInjective(nreadqueue')
      /\ ToSet(nreadqueue) \subseteq ToSet(nreadqueue')
      /\ ToSet(nreadqueue') \subseteq ToSet(nreadqueue) \cup {d}
  <2>1. CASE nreadqueue' = nreadqueue
    BY <1>4, <2>1
  <2>2. CASE nreadqueue' = Append(nreadqueue, d)
    <3>1. d \notin ToSet(nreadqueue)
      BY <1>2, <1>4
    <3> QED
      BY <1>2, <1>4, <2>2, <3>1, AppendMember
  <2> QED
    BY <1>5, <2>1, <2>2
<1>7. Types'
  BY <1>1, <1>2, <1>6 DEF IInv, Types
<1>8. ClosingsKnown'
  BY <1>1 DEF IInv, ClosingsKnown
<1>9. Pending' = Pending /\ Pieces' \subseteq Pieces
  BY <1>1, <1>2, <1>6 DEF Pending, Pieces
<1>10. ChunksApart'
  <2>1. ToSet(readqueue') \cap ToSet(nreadqueue') = {}
    BY <1>2, <1>4, <1>6
  <2>2. Pending' \cap (ToSet(readqueue') \cup ToSet(nreadqueue')) = {}
    BY <1>2, <1>6, <1>9 DEF IInv, ChunksApart
  <2> QED
    BY <1>1, <1>2, <1>6, <1>9, <2>1, <2>2 DEF IInv, ChunksApart
<1>11. GotOnce' /\ BufferOnce'
  <2>1. call'.stage = "idle" => call.buffer = <<>>
    BY <1>1
  <2> QED
    BY <1>1, <1>9, <2>1, NoNewPieces
<1>12. Alone'
  BY <1>1 DEF IInv, Alone
<1> QED
  BY <1>7, <1>8, <1>10, <1>11, <1>12 DEF IInv

\* A chunk for the call: its start is in the buffer now, and the rest is kept.
LEMMA PopOwnIInv ==
  ASSUME IInv, PopRead, Last(readqueue).stream = call.stream, ~call.found
  PROVE  IInv'
<1>. DEFINE d == Last(readqueue)
            n == Fitting(d)
            b == [i \in 1 .. n |-> d.first + i - 1]
<1>1. /\ call.stage = "read" /\ readqueue # <<>>
      /\ nreadqueue' = nreadqueue \o Rest(d)
      /\ call' = [call EXCEPT !.buffer = b] /\ readqueue' = Front(readqueue)
      /\ UNCHANGED <<serial, closequeue, nclosequeue, adding, signalled, received, closed, got, told>>
  BY DEF PopRead, DataKept
<1>2. /\ d \in Chunks /\ d \in ToSet(readqueue) /\ d \in Pieces
      /\ d.stream \in Streams /\ d.first \in Nat \ {0} /\ d.last \in Nat \ {0}
      /\ d.first <= d.last /\ d.last <= received[d.stream]
      /\ readqueue' \in Seq(Chunks) /\ IsInjective(readqueue')
      /\ ToSet(readqueue') = ToSet(readqueue) \ {d}
  BY <1>1, PoppedChunk
<1>3. d.stream = call.stream
  OBVIOUS
<1>. HIDE DEF d
<1>4. /\ n \in Nat \ {0} /\ d.first + n <= d.last + 1
      /\ \/ Rest(d) = <<>>
         \/ \E e \in Chunks :
              /\ Rest(d) = <<e>> /\ e.stream = d.stream
              /\ e.first = d.first + n /\ e.last = d.last /\ e.first <= e.last
  BY <1>2, RestFacts
<1>. HIDE DEF n
<1>5. b \in Seq(Nat \ {0}) /\ IsInjective(b) /\ \A u \in ToSet(b) : d.first <= u /\ u < d.first + n
  BY <1>2, <1>4, CopiedFacts
<1>6. ToSet(b) \subseteq Nat \ {0}
  BY <1>5, ToSetProperties
<1>. HIDE DEF b
<1>7. nreadqueue \in Seq(Chunks) /\ IsInjective(nreadqueue)
        /\ ToSet(readqueue) \cap ToSet(nreadqueue) = {}
  BY DEF IInv, Types, ChunksApart
\* What is kept, as a set of none or one.
<1>8. PICK E \in SUBSET Chunks :
        /\ \A e \in E : /\ e.stream = d.stream /\ e.first = d.first + n /\ e.last = d.last
                        /\ e.first <= e.last
        /\ \/ E = {} /\ Rest(d) = <<>>
           \/ \E e \in E : E = {e} /\ Rest(d) = <<e>>
  BY <1>4
<1>9. Pieces \subseteq Chunks
  BY PieceTyped DEF IInv
<1>10. \A f \in Pieces : /\ f.stream \in Streams /\ f.first \in Nat /\ f.last \in Nat
                         /\ f.first <= f.last /\ (f = d \/ (Apart(f, d) /\ Apart(d, f)))
  BY <1>2, <1>9, ChunkFacts DEF IInv, ChunksApart
<1>11. \A e \in E : e \in Chunks /\ e.first \in Nat /\ e.last \in Nat
  BY ChunkFacts
<1>12. \A e \in E, f \in Pieces : f # e /\ (f = d \/ (Apart(f, e) /\ Apart(e, f)))
  BY <1>2, <1>4, <1>8, <1>10, <1>11 DEF Apart
<1>13. /\ nreadqueue' \in Seq(Chunks) /\ IsInjective(nreadqueue')
       /\ ToSet(nreadqueue') = ToSet(nreadqueue) \cup E
  <2>1. CASE E = {} /\ Rest(d) = <<>>
    BY <1>1, <1>7, <2>1, ConcatEmptySeq
  <2>2. CASE \E e \in E : E = {e} /\ Rest(d) = <<e>>
    <3>1. PICK e \in E : E = {e} /\ Rest(d) = <<e>>
      BY <2>2
    <3>2. nreadqueue' = Append(nreadqueue, e)
      BY <1>1, <1>7, <1>11, <3>1, AppendIsConcat
    <3>3. e \notin ToSet(nreadqueue)
      BY <1>12 DEF Pieces
    <3> QED
      BY <1>7, <1>11, <3>1, <3>2, <3>3, AppendMember
  <2> QED
    BY <1>8, <2>1, <2>2
<1>14. /\ call'.stage = call.stage /\ call'.stream = call.stream /\ call'.found = call.found
       /\ call'.buffer = b /\ call' \in Calls /\ call' # Idle
  <2>1. call \in Calls /\ Idle.stage = "idle"
    BY DEF IInv, Types, Idle
  <2>2. /\ call'.stage = call.stage /\ call'.stream = call.stream /\ call'.found = call.found
        /\ call'.buffer = b /\ call' \in Calls
    BY <1>1, <1>5, <2>1 DEF Calls
  <2> QED
    BY <1>1, <2>1, <2>2
<1>15. Types'
  BY <1>1, <1>2, <1>13, <1>14 DEF IInv, Types
<1>16. ClosingsKnown'
  BY <1>1, <1>14 DEF IInv, ClosingsKnown
<1>17. Pending' = Pending /\ Pieces' \subseteq (Pieces \ {d}) \cup E
  <2>1. Pending' = Pending /\ d \notin Pending /\ d \notin ToSet(nreadqueue)
    BY <1>1, <1>2, <1>7 DEF Pending, IInv, ChunksApart
  <2> QED
    BY <1>2, <1>13, <2>1 DEF Pieces
<1>18. ChunksApart'
  <2>1. ToSet(readqueue') \cap ToSet(nreadqueue') = {}
    BY <1>2, <1>7, <1>12, <1>13 DEF Pieces
  <2>2. Pending' \cap (ToSet(readqueue') \cup ToSet(nreadqueue')) = {}
    BY <1>2, <1>12, <1>13, <1>17 DEF IInv, ChunksApart, Pieces
  <2>3. \A e, f \in Pieces' : e = f \/ Apart(e, f)
    BY <1>8, <1>12, <1>17 DEF IInv, ChunksApart
  <2>4. \A e \in Pieces' : e.first <= e.last /\ e.last <= received'[e.stream]
    BY <1>1, <1>2, <1>8, <1>17 DEF IInv, ChunksApart
  <2> QED
    BY <1>2, <1>13, <2>1, <2>2, <2>3, <2>4 DEF ChunksApart
<1>19. GotOnce'
  <2>1. ASSUME NEW s \in Streams, NEW u \in ToSet(got[s]), NEW e \in E, e.stream = s
        PROVE  Outside(u, e)
    <3>1. u \in Nat
      BY ToSetProperties DEF IInv, Types
    <3>2. Outside(u, d)
      BY <1>2, <1>8, <2>1 DEF IInv, GotOnce
    <3> QED
      BY <1>2, <1>4, <1>8, <3>1, <3>2 DEF Outside
  <2> QED
    BY <1>1, <1>17, <2>1 DEF IInv, GotOnce
<1>20. BufferOnce'
  <2>1. ASSUME NEW u \in ToSet(b)
        PROVE  /\ u <= received[d.stream] /\ u \notin ToSet(got[d.stream])
               /\ \A e \in Pieces' : e.stream = d.stream => Outside(u, e)
    <3>1. /\ u \in Nat /\ d.first <= u /\ u < d.first + n /\ u <= d.last
          /\ received[d.stream] \in Nat
      <4>1. u \in Nat /\ d.first <= u /\ u < d.first + n
        BY <1>5, <1>6
      <4>2. received[d.stream] \in Nat
        BY <1>2 DEF IInv, Types
      <4>3. u <= d.last
        BY <1>2, <1>4, <4>1
      <4> QED
        BY <4>1, <4>2, <4>3
    <3>2. u <= received[d.stream] /\ ~Outside(u, d)
      BY <1>2, <3>1 DEF Outside
    <3>3. u \notin ToSet(got[d.stream])
      BY <1>2, <3>2 DEF IInv, GotOnce
    <3>4. ASSUME NEW e \in E PROVE Outside(u, e)
      BY <1>8, <3>1 DEF Outside
    <3>5. ASSUME NEW e \in Pieces, e # d, e.stream = d.stream PROVE Outside(u, e)
      BY <1>2, <1>10, <3>1, <3>5 DEF Outside, Apart
    <3> QED
      BY <1>17, <3>2, <3>3, <3>4, <3>5
  <2> QED
    BY <1>1, <1>3, <1>5, <1>14, <2>1 DEF BufferOnce
<1>21. Alone'
  BY <1>1, <1>14, GoingOn DEF Alone
<1> QED
  BY <1>15, <1>16, <1>18, <1>19, <1>20, <1>21 DEF IInv

\* The call returns; what an add put on the old list since is lost with it.
LEMMA SwapReadIInv ==
  ASSUME IInv, SwapRead
  PROVE  IInv'
<1>1. /\ call.stage = "swapread" /\ readqueue' = nreadqueue /\ nreadqueue' = <<>>
      /\ adding' = Freed("data")
      /\ got' = [got EXCEPT ![call.stream] = got[call.stream] \o call.buffer]
      /\ told' = IF call.found THEN told \cup {call.stream} ELSE told
      /\ call' = Idle
      /\ UNCHANGED <<serial, closequeue, nclosequeue, signalled, received, closed>>
  BY DEF SwapRead
<1>2. /\ call.stream \in Streams /\ call.buffer \in Seq(Nat \ {0})
      /\ got \in [Streams -> Seq(Nat \ {0})] /\ (call.found => call.stream \in closed)
  BY <1>1, GoingOn DEF IInv, Types
<1>3. /\ call'.stage = "idle" /\ call'.buffer = <<>> /\ call' \in Calls /\ call'.found = FALSE
      /\ call' = Idle
  BY <1>1, EmptySeq DEF Idle, Calls, Stages
<1>4. /\ adding' # Nil => adding' \in Adds /\ adding'.kind = adding.kind /\ adding'.item = adding.item
      /\ adding' # Nil => adding # Nil
  <2>1. CASE adding' = adding
    BY <2>1 DEF IInv, Types
  <2>2. CASE adding # Nil /\ adding' = [adding EXCEPT !.freed = TRUE]
    <3>1. adding \in Adds
      BY <2>2 DEF IInv, Types
    <3> QED
      BY <2>2, <3>1 DEF Adds
  <2> QED
    BY <1>1, <2>1, <2>2 DEF Freed
<1>5. LET g == got[call.stream] IN
      /\ got'[call.stream] \in Seq(Nat \ {0})
      /\ ToSet(got'[call.stream]) = ToSet(g) \cup ToSet(call.buffer)
      /\ IsInjective(g) /\ IsInjective(call.buffer) /\ ToSet(g) \cap ToSet(call.buffer) = {}
           => IsInjective(got'[call.stream])
  BY <1>1, <1>2, ConcatMembers
<1>6. got' \in [Streams -> Seq(Nat \ {0})] /\ \A s \in Streams \ {call.stream} : got'[s] = got[s]
  BY <1>1, <1>2, <1>5
<1>7. Types'
  BY <1>1, <1>3, <1>4, <1>6, EmptySeq DEF IInv, Types
<1>8. ClosingsKnown'
  BY <1>1, <1>2, <1>3, <1>4 DEF IInv, ClosingsKnown
<1>9. Pending' \subseteq Pending /\ Pieces' \subseteq Pieces
  BY <1>1, <1>4, EmptyList DEF Pending, Pieces
<1>10. ChunksApart'
  BY <1>1, <1>9, EmptyList DEF IInv, ChunksApart
<1>11. GotOnce'
  <2>1. ASSUME NEW s \in Streams, s # call.stream
        PROVE  /\ IsInjective(got'[s])
               /\ \A u \in ToSet(got'[s]) :
                    u <= received'[s] /\ \A d \in Pieces' : d.stream = s => Outside(u, d)
    BY <1>1, <1>6, <1>9, <2>1 DEF IInv, GotOnce
  <2>2. IsInjective(got'[call.stream])
    BY <1>2, <1>5 DEF IInv, GotOnce, BufferOnce
  <2>3. ASSUME NEW u \in ToSet(got'[call.stream])
        PROVE  /\ u <= received'[call.stream]
               /\ \A d \in Pieces' : d.stream = call.stream => Outside(u, d)
    <3>1. CASE u \in ToSet(got[call.stream])
      BY <1>1, <1>2, <1>9, <3>1 DEF IInv, GotOnce
    <3>2. CASE u \in ToSet(call.buffer)
      BY <1>1, <1>9, <3>2 DEF IInv, BufferOnce
    <3> QED
      BY <1>5, <3>1, <3>2
  <2> QED
    BY <2>1, <2>2, <2>3 DEF GotOnce
<1>12. BufferOnce' /\ Alone'
  BY <1>1, <1>3, EmptyList DEF BufferOnce, Alone
<1> QED
  BY <1>7, <1>8, <1>10, <1>11, <1>12 DEF IInv

LEMMA StepIInv ==
  ASSUME IInv, [Next]_vars
  PROVE  IInv'
<1>1. CASE UNCHANGED vars
  BY <1>1 DEF vars, lists, IInv, Types, ClosingsKnown, ChunksApart, GotOnce, BufferOnce, Alone,
              Pieces, Pending
<1>2. ASSUME NEW s \in Streams, QueueRecvdData(s) \/ QueueClosedStream(s) \/ Recv(s)
      PROVE  IInv'
  BY <1>2, QueueRecvdDataIInv, QueueClosedStreamIInv, RecvIInv
<1>3. CASE Add
  BY <1>3, AddIInv
<1>4. CASE PopRead
  BY <1>4, PopOtherIInv, PopOwnIInv
<1>5. CASE PopClose \/ ClosesDone \/ SwapClose \/ ReadsDone \/ SwapRead
  BY <1>5, PopCloseIInv, ClosesDoneIInv, SwapCloseIInv, ReadsDoneIInv, SwapReadIInv
<1> QED
  BY <1>1, <1>2, <1>3, <1>4, <1>5 DEF Next, Reading
-----------------------------------------------------------------------------
(* What follows. *)

LEMMA AlwaysIInv == Spec => []IInv
<1>1. Init => IInv
  BY InitIInv
<1>2. IInv /\ [Next]_vars => IInv'
  BY StepIInv
<1> QED
  BY <1>1, <1>2, PTL DEF Spec

\* onionroute_recv_stream_data_v1 with the callbacks of the main thread: in no
\* interleaving is a unit of data returned twice, or returned and still queued.
THEOREM ReturnedOnce == Spec => []NeverTwice
<1>1. ASSUME IInv, NEW s \in Streams PROVE IsInjective(got[s])
  BY <1>1 DEF IInv, GotOnce
<1>2. ASSUME IInv, NEW s \in Streams, NEW u \in Queued(s), u \in ToSet(got[s])
      PROVE  FALSE
  <2>1. PICK d \in ToSet(readqueue) \cup ToSet(nreadqueue) : d.stream = s /\ u \in d.first .. d.last
    BY <1>2 DEF Queued, ToSet
  <2>2. d \in Pieces /\ d \in Chunks
    BY <1>2, <2>1, PieceTyped DEF Pieces, IInv
  <2>3. Outside(u, d)
    BY <1>2, <2>1, <2>2 DEF IInv, GotOnce
  <2>4. d.first \in Nat /\ d.last \in Nat
    BY <2>2, ChunkFacts
  <2> QED
    BY <2>1, <2>3, <2>4 DEF Outside
<1>3. IInv => NeverTwice
  BY <1>1, <1>2 DEF NeverTwice
<1> QED
  BY <1>3, AlwaysIInv, PTL

\* onionroute.c puts back what it took of other streams: while reads and adds
\* are kept apart, no step of a call loses data that is not its own.
THEOREM OthersKept == Spec => KeepsOthers
<1>. DEFINE Kept(s) == serial /\ call # Idle /\ s # call.stream => Queued(s) \subseteq Queued(s)'
<1>1. ASSUME IInv, [Next]_vars, NEW s \in Streams, serial, call # Idle, s # call.stream
      PROVE  Queued(s) \subseteq Queued(s)'
  <2>1. adding = Nil /\ (call.stage = "swapread" => readqueue = <<>>)
    BY <1>1 DEF IInv, Alone
  <2>2. CASE readqueue' = readqueue /\ nreadqueue' = nreadqueue
    BY <2>2 DEF Queued
  <2>3. CASE PopRead
    <3>1. /\ readqueue # <<>> /\ readqueue' = Front(readqueue)
          /\ nreadqueue' = nreadqueue \o DataKept(Last(readqueue), call.stream, call.found)
      BY <2>3 DEF PopRead
    <3>. DEFINE d == Last(readqueue)
    <3>2. /\ d \in Chunks /\ ToSet(readqueue') = ToSet(readqueue) \ {d}
          /\ d.first <= d.last
      BY <1>1, <3>1, PoppedChunk
    <3>3. nreadqueue \in Seq(Chunks)
      BY <1>1 DEF IInv, Types
    <3>4. DataKept(d, call.stream, call.found) \in Seq(Chunks)
            /\ (d.stream = s => DataKept(d, call.stream, call.found) = <<d>>)
      <4>1. <<d>> \in Seq(Chunks) /\ <<>> \in Seq(Chunks)
        BY <3>2, EmptySeq
      <4>2. Rest(d) \in Seq(Chunks)
        <5>1. Rest(d) = <<>> \/ \E e \in Chunks : Rest(d) = <<e>>
          BY <3>2, RestFacts
        <5>2. \A e \in Chunks : <<e>> \in Seq(Chunks)
          OBVIOUS
        <5> QED
          BY <4>1, <5>1, <5>2
      <4> QED
        BY <1>1, <4>1, <4>2 DEF DataKept
    <3>. HIDE DEF d
    <3>5. /\ ToSet(nreadqueue) \subseteq ToSet(nreadqueue')
          /\ d.stream = s => d \in ToSet(nreadqueue')
      <4>1. ToSet(<<d>>) = {d}
        BY DEF ToSet
      <4> QED
        BY <3>1, <3>3, <3>4, <4>1, ConcatMembers DEF d
    <3> QED
      BY <3>2, <3>5 DEF Queued, ToSet
  <2>4. CASE SwapRead
    <3>1. readqueue = <<>> /\ readqueue' = nreadqueue /\ nreadqueue' = <<>>
      BY <2>1, <2>4 DEF SwapRead
    <3> QED
      BY <3>1 DEF Queued
  <2> QED
    BY <1>1, <2>1, <2>2, <2>3, <2>4
       DEF Next, Reading, QueueRecvdData, QueueClosedStream, Begin, Recv, Add, PopClose, ClosesDone,
           SwapClose, ReadsDone, vars, lists
<1>2. IInv /\ [Next]_vars => [\A s \in Streams : Kept(s)]_vars
  BY <1>1
<1> QED
  BY <1>2, AlwaysIInv, PTL DEF Spec, KeepsOthers

\* The variables keep their types: in particular only what was received is
\* returned, and only the closing of a closed stream is told.
THEOREM TypeCorrect == Spec => []TypeOK
<1>1. ASSUME IInv, NEW s \in Streams
      PROVE  received[s] \in 0 .. Units[s] /\ got[s] \in Seq(1 .. Units[s])
  <2>1. /\ received[s] \in Nat /\ received[s] <= Units[s] /\ Units[s] \in Nat
        /\ got[s] \in Seq(Nat \ {0})
    BY ReceiveAssumption, <1>1 DEF IInv, Types
  <2>2. ToSet(got[s]) \subseteq Nat \ {0} /\ DOMAIN got[s] = 1 .. Len(got[s]) /\ Len(got[s]) \in Nat
    BY <2>1, ToSetProperties
  <2>3. \A u \in ToSet(got[s]) : u <= received[s]
    BY <1>1 DEF IInv, GotOnce
  <2>4. \A i \in 1 .. Len(got[s]) : got[s][i] \in ToSet(got[s])
    BY <2>2 DEF ToSet
  <2>5. \A i \in 1 .. Len(got[s]) : got[s][i] \in 1 .. Units[s]
    BY <2>1, <2>2, <2>3, <2>4
  <2>6. got[s] = [i \in 1 .. Len(got[s]) |-> got[s][i]]
    BY <2>1, <2>2
  <2>7. got[s] \in [1 .. Len(got[s]) -> 1 .. Units[s]]
    BY <2>5, <2>6
  <2>8. got[s] \in Seq(1 .. Units[s])
    <3>. DEFINE S == 1 .. Units[s]
    <3>1. got[s] \in UNION {[1 .. n -> S] : n \in Nat}
      BY <2>2, <2>7
    <3>2. Seq(S) = UNION {[1 .. n -> S] : n \in Nat}
      BY SeqDef
    <3> QED
      BY <3>1, <3>2
  <2> QED
    BY <2>1, <2>8
<1>2. ASSUME IInv PROVE TypeOK
  <2>1. adding # Nil => /\ adding.kind \in {"data", "close"}
                        /\ adding.item \in IF adding.kind = "data" THEN Chunks ELSE Streams
                        /\ adding.freed \in BOOLEAN
    BY <1>2 DEF IInv, Types, Adds
  <2>2. /\ call.stage \in {"idle", "close", "swapclose", "read", "swapread"}
        /\ call = Idle \/ call.stream \in Streams
        /\ call.found \in BOOLEAN /\ call.buffer \in Seq(Nat \ {0})
    BY <1>2 DEF IInv, Types, Calls, Stages
  <2>3. told \subseteq closed /\ closed \subseteq Streams
    BY <1>2 DEF IInv, Types, ClosingsKnown
  <2>4. \A s \in Streams : received[s] \in 0 .. Units[s] /\ got[s] \in Seq(1 .. Units[s])
    BY <1>1, <1>2
  <2> QED
    BY <1>2, <2>1, <2>2, <2>3, <2>4 DEF IInv, Types, TypeOK
<1>3. IInv => TypeOK
  BY <1>2
<1> QED
  BY <1>3, AlwaysIInv, PTL
-----------------------------------------------------------------------------
(* The command queue, whose list is reversed before it is popped. *)

\* What a reversed sequence is.
LEMMA ReverseProperties ==
  ASSUME NEW S, NEW q \in Seq(S)
  PROVE  /\ Reverse(q) \in Seq(S) /\ Len(Reverse(q)) = Len(q)
         /\ \A i \in 1 .. Len(q) : Reverse(q)[i] = q[Len(q) - i + 1]
  BY DEF Reverse

\* Reversing twice gives the sequence back.
LEMMA ReverseTwice ==
  ASSUME NEW S, NEW q \in Seq(S)
  PROVE  Reverse(q) \in Seq(S) /\ Reverse(Reverse(q)) = q
<1>1. Reverse(q) \in Seq(S) /\ Len(Reverse(q)) = Len(q)
        /\ \A i \in 1 .. Len(q) : Reverse(q)[i] = q[Len(q) - i + 1]
  BY ReverseProperties
<1>2. Reverse(Reverse(q)) \in Seq(S) /\ Len(Reverse(Reverse(q))) = Len(q)
        /\ \A i \in 1 .. Len(q) : Reverse(Reverse(q))[i] = Reverse(q)[Len(q) - i + 1]
  BY <1>1, ReverseProperties
<1>3. \A i \in 1 .. Len(q) : Reverse(Reverse(q))[i] = q[i]
  BY <1>1, <1>2
<1>. QED
  BY <1>1, <1>2, <1>3, SeqEqual

\* Popping the end of a list is taking the head of its reverse.
LEMMA PopIsHead ==
  ASSUME NEW S, NEW q \in Seq(S), q # <<>>
  PROVE  /\ Reverse(q) # <<>>
         /\ Head(Reverse(q)) = Last(q)
         /\ Tail(Reverse(q)) = Reverse(Front(q))
         /\ Last(q) \in S
         /\ Front(q) \in Seq(S)
<1>1. Len(q) \in Nat \ {0} /\ Last(q) \in S
  BY DEF Last
<1>2. Front(q) \in Seq(S) /\ Len(Front(q)) = Len(q) - 1
        /\ \A i \in 1 .. Len(q) - 1 : Front(q)[i] = q[i]
  <2>1. 1 \in Int /\ Len(q) - 1 \in Int /\ \A i \in 1 .. Len(q) - 1 : q[i] \in S
    BY <1>1
  <2>2. /\ Front(q) \in Seq(S)
        /\ Len(Front(q)) = IF 1 <= Len(q) - 1 THEN (Len(q) - 1) - 1 + 1 ELSE 0
        /\ \A i \in 1 .. (Len(q) - 1) - 1 + 1 : Front(q)[i] = q[1 + i - 1]
    BY <2>1, SubSeqProperties DEF Front
  <2>3. Len(Front(q)) = Len(q) - 1
    <3>. DEFINE n == Len(q)
    <3>1. n \in Nat \ {0} /\ Len(Front(q)) = IF 1 <= n - 1 THEN (n - 1) - 1 + 1 ELSE 0
      BY <1>1, <2>2
    <3>2. \A m \in Nat \ {0} : (IF 1 <= m - 1 THEN (m - 1) - 1 + 1 ELSE 0) = m - 1
      OBVIOUS
    <3>. HIDE DEF n
    <3>3. Len(Front(q)) = n - 1
      BY <3>1, <3>2
    <3>. QED
      BY <3>3 DEF n
  <2>4. ASSUME NEW i \in 1 .. Len(q) - 1 PROVE Front(q)[i] = q[i]
    <3>1. i \in 1 .. (Len(q) - 1) - 1 + 1 /\ 1 + i - 1 = i
      BY <1>1
    <3>2. Front(q)[i] = q[1 + i - 1]
      BY <2>2, <3>1
    <3>. QED
      BY <3>1, <3>2
  <2>. QED
    BY <2>2, <2>3, <2>4
<1>3. Reverse(q) \in Seq(S) /\ Len(Reverse(q)) = Len(q)
        /\ \A i \in 1 .. Len(q) : Reverse(q)[i] = q[Len(q) - i + 1]
  BY ReverseProperties
<1>4. Reverse(q) # <<>> /\ Head(Reverse(q)) = Last(q)
  BY <1>1, <1>3 DEF Last
<1>5. Tail(Reverse(q)) = Reverse(Front(q))
  <2>1. Tail(Reverse(q)) \in Seq(S) /\ Len(Tail(Reverse(q))) = Len(q) - 1
          /\ \A i \in 1 .. Len(q) - 1 : Tail(Reverse(q))[i] = q[Len(q) - i]
    BY <1>1, <1>3
  <2>2. Reverse(Front(q)) \in Seq(S) /\ Len(Reverse(Front(q))) = Len(q) - 1
          /\ \A i \in 1 .. Len(q) - 1 : Reverse(Front(q))[i] = q[Len(q) - i]
    <3>1. /\ Reverse(Front(q)) \in Seq(S) /\ Len(Reverse(Front(q))) = Len(Front(q))
          /\ \A i \in 1 .. Len(Front(q)) :
               Reverse(Front(q))[i] = Front(q)[Len(Front(q)) - i + 1]
      BY <1>2, ReverseProperties
    <3>2. Len(Reverse(Front(q))) = Len(q) - 1
      BY <1>2, <3>1
    <3>3. ASSUME NEW i \in 1 .. Len(q) - 1 PROVE Reverse(Front(q))[i] = q[Len(q) - i]
      <4>1. /\ i \in 1 .. Len(Front(q))
            /\ Len(Front(q)) - i + 1 = Len(q) - i
            /\ Len(q) - i \in 1 .. Len(q) - 1
        BY <1>1, <1>2
      <4>2. Reverse(Front(q))[i] = Front(q)[Len(Front(q)) - i + 1]
        BY <3>1, <4>1
      <4>. QED
        BY <1>2, <4>1, <4>2
    <3>. QED
      BY <3>1, <3>2, <3>3
  <2>. QED
    BY <2>1, <2>2, SeqEqual
<1>. QED
  BY <1>1, <1>2, <1>4, <1>5

LEMMA ReverseEmpty == Reverse(<<>>) = <<>>
  BY DEF Reverse
-----------------------------------------------------------------------------
\* LibraryCommands speaks of the same operators on sequences.
LEMMA SameOperators ==
  \A q : L!Reverse(q) = Reverse(q) /\ L!Front(q) = Front(q) /\ L!Last(q) = Last(q)
BY DEF L!Reverse, Reverse, L!Front, Front, L!Last, Last

\* An operation of the application leaves every variable in its type.
LEMMA EnqueueTypes ==
  ASSUME L!TypeOK, NEW op, NEW s, L!Enqueue(op, s),
         \/ op \in {"open", "write", "close"} /\ s \in Streams
         \/ op = "newnym" /\ s = Nil
  PROVE  L!TypeOK' /\ [op |-> op, stream |-> s, number |-> issued + 1] \in L!Commands
<1>. DEFINE c == [op |-> op, stream |-> s, number |-> issued + 1]
<1>1. issued + 1 \in 1 .. MaxCommands /\ issued' = issued + 1
  BY CommandsAssumption DEF L!LibraryAssumption, L!TypeOK, L!Enqueue
<1>2. c \in L!Commands
  BY <1>1 DEF L!Commands
<1>3. cqueue' \in Seq(L!Commands)
  BY <1>2 DEF L!TypeOK, L!Enqueue
<1>. QED
  BY <1>1, <1>2, <1>3 DEF L!TypeOK, L!Enqueue

\* Every variable of the command queue stays in its type.
THEOREM CommandsTypeCorrect == L!Spec => []L!TypeOK
<1>1. L!Init => L!TypeOK
  BY CommandsAssumption DEF L!LibraryAssumption, L!Init, L!TypeOK
<1>2. L!TypeOK /\ [L!Next]_(L!vars) => L!TypeOK'
  <2>. SUFFICES ASSUME L!TypeOK, [L!Next]_(L!vars) PROVE L!TypeOK'
    OBVIOUS
  <2>1. CASE \E s \in Streams : L!StreamOpen(s) \/ L!StreamWrite(s) \/ L!CloseStream(s)
    BY <2>1, EnqueueTypes DEF L!StreamOpen, L!StreamWrite, L!CloseStream
  <2>2. CASE L!SwitchToNewCircuits
    BY <2>2, EnqueueTypes DEF L!SwitchToNewCircuits
  <2>3. CASE L!TimerBegins
    BY <2>3, ReverseTwice, SameOperators DEF L!TypeOK, L!TimerBegins, L!Prepared
  <2>4. CASE L!Run
    <3>. DEFINE c == Last(cqueue)
    <3>1. c \in L!Commands /\ cqueue' \in Seq(L!Commands) /\ running' = <<c>>
      BY <2>4, PopIsHead, SameOperators DEF L!TypeOK, L!Run, L!Popped
    <3>2. running' \in Seq(L!Commands)
      BY <3>1
    <3>3. stale' \subseteq L!Commands
      BY <2>4, <3>1 DEF L!TypeOK, L!Run
    <3>4. life' \in [Streams -> {"none", "opening", "open", "marked", "freed"}]
      <4>1. CASE UNCHANGED life
        BY <4>1 DEF L!TypeOK
      <4>2. CASE c.stream # Nil /\ ~UNCHANGED life
        <5>1. c.stream \in Streams /\ c.op \in {"open", "write", "close"}
          BY <3>1, <4>2 DEF L!Commands
        <5>2. PICK l \in L!After(c.op, life[c.stream]) :
                     life' = [life EXCEPT ![c.stream] = l]
          BY <2>4, <4>2, SameOperators DEF L!Run
        <5>3. l \in {"opening", "marked", life[c.stream]}
          BY <5>1, <5>2 DEF L!After
        <5>. QED
          BY <5>1, <5>2, <5>3 DEF L!TypeOK
      <4>. QED
        BY <2>4, <4>1, <4>2, SameOperators DEF L!Run
    <3>. QED
      BY <2>4, <3>1, <3>2, <3>3, <3>4 DEF L!TypeOK, L!Run
  <2>5. CASE L!TimerEnds
    BY <2>5 DEF L!TypeOK, L!TimerEnds
  <2>6. CASE \E s \in Streams : L!Connected(s) \/ L!Ends(s) \/ L!Unlink(s)
    BY <2>6 DEF L!TypeOK, L!Connected, L!Ends, L!Unlink
  <2>7. CASE UNCHANGED L!vars
    BY <2>7 DEF L!TypeOK, L!vars
  <2>. QED
    BY <2>1, <2>2, <2>3, <2>4, <2>5, <2>6, <2>7 DEF L!Next, L!Main
<1>. QED
  BY <1>1, <1>2, PTL DEF L!Spec
-----------------------------------------------------------------------------
\* "lock the smartlist before so we process it in order": when no callback of
\* a running command queues commands, they run in the order in which they were
\* queued, whatever the threads and the timer do, for any number of them.
THEOREM RunsInOrder == ASSUME ~Reenters PROVE L!Spec => ImplementsFifo
<1>1. L!Init => L!Queue!Init
  BY ReverseEmpty DEF L!Init, L!Queue!Init, L!Waiting
<1>2. L!TypeOK /\ L!TypeOK' /\ [L!Next]_(L!vars) => [L!Queue!Next]_<<L!Waiting, running>>
  <2>. SUFFICES ASSUME L!TypeOK, L!TypeOK', [L!Next]_(L!vars)
                PROVE  [L!Queue!Next]_<<L!Waiting, running>>
    OBVIOUS
  <2>1. ASSUME NEW op, NEW s, L!Enqueue(op, s),
               \/ op \in {"open", "write", "close"} /\ s \in Streams
               \/ op = "newnym" /\ s = Nil
        PROVE  L!Queue!Next
    <3>1. [op |-> op, stream |-> s, number |-> issued + 1] \in L!Commands
      BY <2>1, EnqueueTypes
    <3>2. timer = "off" /\ timer' = "off"
      BY <2>1 DEF L!Enqueue
    <3>. QED
      BY <2>1, <3>1, <3>2 DEF L!Queue!Next, L!Queue!Put, L!Waiting, L!Enqueue
  <2>2. CASE \E s \in Streams : L!StreamOpen(s) \/ L!StreamWrite(s) \/ L!CloseStream(s)
    BY <2>1, <2>2 DEF L!StreamOpen, L!StreamWrite, L!CloseStream
  <2>3. CASE L!SwitchToNewCircuits
    BY <2>1, <2>3 DEF L!SwitchToNewCircuits
  <2>4. CASE L!TimerBegins
    BY <2>4, ReverseTwice, SameOperators DEF L!TimerBegins, L!Prepared, L!Waiting, L!TypeOK
  <2>5. CASE L!Run
    BY <2>5, PopIsHead, SameOperators DEF L!Run, L!Popped, L!Waiting, L!TypeOK, L!Queue!Next, L!Queue!Run
  <2>6. CASE L!TimerEnds
    BY <2>6, ReverseEmpty, SameOperators DEF L!TimerEnds, L!Waiting
  <2>7. CASE \E s \in Streams : L!Connected(s) \/ L!Ends(s) \/ L!Unlink(s)
    BY <2>7 DEF L!Connected, L!Ends, L!Unlink, L!Waiting
  <2>8. CASE UNCHANGED L!vars
    BY <2>8 DEF L!vars, L!Waiting
  <2>. QED
    BY <2>2, <2>3, <2>4, <2>5, <2>6, <2>7, <2>8 DEF L!Next, L!Main
<1>. QED
  BY <1>1, <1>2, CommandsTypeCorrect, PTL DEF L!Spec, ImplementsFifo, L!ImplementsFifo, L!Queue!Spec
============================================================================
