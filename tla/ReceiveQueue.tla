---------------------------- MODULE ReceiveQueue ----------------------------
(***************************************************************************)
(* The receive queue that lets an application read a stream by calls: the  *)
(* callbacks of the main thread put the chunks that come (and the closing  *)
(* of a stream) on two global lists, and onionroute_recv_stream_data_v1    *)
(* waits for an event, pops both lists to their ends, and replaces each by *)
(* a list of what it did not use.                                          *)
(*                                                                         *)
(* Each operation on a list is atomic (a list has a lock), the use of the  *)
(* global pointers is not: an add takes the pointer in one step and adds   *)
(* in another, and may find that its list was replaced and freed.          *)
(***************************************************************************)
EXTENDS Integers, Sequences, SequencesExt

CONSTANTS
  Streams,
  Units,       \* bound: how many units of data each stream receives
  MaxChunk,    \* bound: how many of them come at once
  BufferSize,  \* what the buffer of a call can take
  Nil

ASSUME ReceiveAssumption ==
  Units \in [Streams -> Nat] /\ MaxChunk \in Nat \ {0} /\ BufferSize \in Nat \ {0}

\* The units first .. last of a stream.
Chunks ==
  UNION {[stream : {s}, first : 1 .. Units[s], last : 1 .. Units[s]] : s \in Streams}

VARIABLES
  serial,     \* does the application keep reading calls and adds apart?
  readqueue, closequeue,
  adding,     \* the add of the main thread, between the two steps
  signalled,  \* ghReadEvent, which is never reset
  call,       \* the call of the reading thread
  nreadqueue, nclosequeue,  \* its new lists
  received,   \* of a stream: how many units were put on the list or lost
  closed,     \* streams whose closing was put on the list or lost
  got,        \* of a stream: the units that calls returned, in order
  told        \* streams for which a call found the closing

lists == <<readqueue, closequeue, nreadqueue, nclosequeue>>
vars == <<serial, lists, adding, signalled, call, received, closed, got, told>>

Idle == [stage |-> "idle", stream |-> Nil, found |-> FALSE, buffer |-> <<>>]

Init ==
  /\ serial \in BOOLEAN
  /\ readqueue = <<>> /\ closequeue = <<>>
  /\ nreadqueue = <<>> /\ nclosequeue = <<>>
  /\ adding = Nil
  /\ signalled = FALSE
  /\ call = Idle
  /\ received = [s \in Streams |-> 0]
  /\ closed = {}
  /\ got = [s \in Streams |-> <<>>]
  /\ told = {}

-----------------------------------------------------------------------------
(* The main thread. *)

\* The argument of smartlist_add is evaluated: the list of now.
Begin(kind, item) ==
  /\ adding = Nil
  /\ serial => call = Idle
  /\ adding' = [kind |-> kind, item |-> item, freed |-> FALSE]
  /\ UNCHANGED <<serial, lists, signalled, call, got, told>>

QueueRecvdData(s) ==
  \E n \in 1 .. MaxChunk :
    /\ s \notin closed
    /\ received[s] + n <= Units[s]
    /\ Begin("data", [stream |-> s, first |-> received[s] + 1, last |-> received[s] + n])
    /\ received' = [received EXCEPT ![s] = @ + n]
    /\ UNCHANGED closed

QueueClosedStream(s) ==
  /\ s \notin closed
  /\ Begin("close", s)
  /\ closed' = closed \cup {s}
  /\ UNCHANGED received

\* The add itself (what is added to a freed list is gone), and SetEvent.
Add ==
  /\ adding # Nil
  /\ readqueue' = IF adding.kind = "data" /\ ~adding.freed
                  THEN Append(readqueue, adding.item) ELSE readqueue
  /\ closequeue' = IF adding.kind = "close" /\ ~adding.freed
                   THEN Append(closequeue, adding.item) ELSE closequeue
  /\ signalled' = TRUE
  /\ adding' = Nil
  /\ UNCHANGED <<serial, call, nreadqueue, nclosequeue, received, closed, got, told>>
-----------------------------------------------------------------------------
(* The reading thread: onionroute_recv_stream_data_v1. *)

Recv(s) ==
  /\ call = Idle
  /\ serial => adding = Nil
  /\ signalled
  /\ call' = [Idle EXCEPT !.stage = "close", !.stream = s]
  /\ UNCHANGED <<serial, lists, adding, signalled, received, closed, got, told>>

\* Mutant: the search stops at the closing, and what is left is freed.
ClosesKept_UpToFound(c, s, found, q) ==
  IF c = s \/ found THEN q ELSE Append(q, c)

\* The first closing of the stream is taken out, all others are kept.
ClosesKept(c, s, found, q) ==
  IF c = s /\ ~found THEN q ELSE Append(q, c)

PopClose ==
  /\ call.stage = "close" /\ closequeue # <<>>
  /\ LET c == Last(closequeue) IN
       /\ nclosequeue' = ClosesKept(c, call.stream, call.found, nclosequeue)
       /\ call' = [call EXCEPT !.found = @ \/ c = call.stream]
  /\ closequeue' = Front(closequeue)
  /\ UNCHANGED <<serial, readqueue, nreadqueue, adding, signalled, received, closed, got, told>>

\* The new list takes the place of the old one, which is freed.
Freed(kind) ==
  IF adding # Nil /\ adding.kind = kind THEN [adding EXCEPT !.freed = TRUE] ELSE adding

\* smartlist_pop_last found nothing; an add may come before the replacement.
ClosesDone ==
  /\ call.stage = "close" /\ closequeue = <<>>
  /\ call' = [call EXCEPT !.stage = "swapclose"]
  /\ UNCHANGED <<serial, lists, adding, signalled, received, closed, got, told>>

SwapClose ==
  /\ call.stage = "swapclose"
  /\ closequeue' = nclosequeue /\ nclosequeue' = <<>>
  /\ adding' = Freed("close")
  /\ call' = [call EXCEPT !.stage = "read"]
  /\ UNCHANGED <<serial, readqueue, nreadqueue, signalled, received, closed, got, told>>

\* Mutant: a chunk that does not fit as a whole waits for a larger buffer.
Fitting_AllOrNothing(d) ==
  IF d.last - d.first + 1 > BufferSize THEN 0 ELSE d.last - d.first + 1

\* How many units of a chunk are copied.
Fitting(d) ==
  IF d.last - d.first + 1 > BufferSize THEN BufferSize ELSE d.last - d.first + 1

\* Mutant: what did not fit is not cut off from what did.
Rest_Whole(d) == <<d>>

\* Mutant: a chunk that fitted to its last unit leaves an empty chunk.
Rest_Empty(d) == <<[d EXCEPT !.first = @ + Fitting(d)]>>

\* What of a chunk does not fit in the buffer.
Rest(d) ==
  IF d.first + Fitting(d) > d.last THEN <<>> ELSE <<[d EXCEPT !.first = @ + Fitting(d)]>>

\* Mutant: the chunks of other streams are freed with those of a closed one.
DataKept_ClosedNone(d, s, found) ==
  CASE found -> <<>>
    [] d.stream = s /\ ~found -> Rest(d)
    [] OTHER -> <<d>>

\* What of a chunk goes to the new list: after the closing of the stream its
\* chunks are freed, before it what does not fit in the buffer is kept.
DataKept(d, s, found) ==
  CASE d.stream # s -> <<d>>
    [] d.stream = s /\ found -> <<>>
    [] OTHER -> Rest(d)

\* Every chunk of the stream is copied to the start of the buffer.
PopRead ==
  /\ call.stage = "read" /\ readqueue # <<>>
  /\ LET d == Last(readqueue) IN
       /\ nreadqueue' = nreadqueue \o DataKept(d, call.stream, call.found)
       /\ call' = IF d.stream # call.stream \/ call.found THEN call
                  ELSE [call EXCEPT !.buffer =
                          [i \in 1 .. Fitting(d) |-> d.first + i - 1]]
  /\ readqueue' = Front(readqueue)
  /\ UNCHANGED <<serial, closequeue, nclosequeue, adding, signalled, received, closed, got, told>>

ReadsDone ==
  /\ call.stage = "read" /\ readqueue = <<>>
  /\ call' = [call EXCEPT !.stage = "swapread"]
  /\ UNCHANGED <<serial, lists, adding, signalled, received, closed, got, told>>

\* The return: -1 without a chunk, for a stream that is closed or not.
SwapRead ==
  /\ call.stage = "swapread"
  /\ readqueue' = nreadqueue /\ nreadqueue' = <<>>
  /\ adding' = Freed("data")
  /\ got' = [got EXCEPT ![call.stream] = @ \o call.buffer]
  /\ told' = IF call.found THEN told \cup {call.stream} ELSE told
  /\ call' = Idle
  /\ UNCHANGED <<serial, closequeue, nclosequeue, signalled, received, closed>>
-----------------------------------------------------------------------------
Reading ==
  PopClose \/ ClosesDone \/ SwapClose \/ PopRead \/ ReadsDone \/ SwapRead

Next ==
  \/ \E s \in Streams : QueueRecvdData(s) \/ QueueClosedStream(s) \/ Recv(s)
  \/ Add
  \/ Reading

Spec == Init /\ [][Next]_vars

\* The threads run, and the application reads every stream again and again.
FairSpec ==
  /\ Spec
  /\ WF_vars(Add) /\ WF_vars(Reading)
  /\ \A s \in Streams : SF_vars(Recv(s))
-----------------------------------------------------------------------------
TypeOK ==
  /\ serial \in BOOLEAN
  /\ readqueue \in Seq(Chunks) /\ nreadqueue \in Seq(Chunks)
  /\ closequeue \in Seq(Streams) /\ nclosequeue \in Seq(Streams)
  /\ adding # Nil => /\ adding.kind \in {"data", "close"}
                     /\ adding.item \in IF adding.kind = "data" THEN Chunks ELSE Streams
                     /\ adding.freed \in BOOLEAN
  /\ signalled \in BOOLEAN
  /\ call.stage \in {"idle", "close", "swapclose", "read", "swapread"}
  /\ call = Idle \/ call.stream \in Streams
  /\ call.found \in BOOLEAN /\ call.buffer \in Seq(Nat \ {0})
  /\ \A s \in Streams : received[s] \in 0 .. Units[s]
  /\ closed \subseteq Streams /\ told \subseteq closed
  /\ \A s \in Streams : got[s] \in Seq(1 .. Units[s])

Queued(s) ==
  { u \in 1 .. Units[s] :
      \E d \in { readqueue[i] : i \in DOMAIN readqueue }
                 \cup { nreadqueue[i] : i \in DOMAIN nreadqueue } :
        d.stream = s /\ u \in d.first .. d.last }

\* Whatever is cut, put back, reversed or overwritten: no call returns a unit
\* that was returned before, and none that is still on the list for a later one.
NeverTwice ==
  \A s \in Streams : IsInjective(got[s]) /\ Queued(s) \cap ToSet(got[s]) = {}

\* With reads and adds kept apart, a call leaves what is queued for the other
\* streams as it was.
KeepsOthers ==
  [][\A s \in Streams :
       serial /\ call # Idle /\ s # call.stream => Queued(s) \subseteq Queued(s)']_vars

\* With reads and adds kept apart, the closing of a stream is reported to the
\* application that keeps reading.
CloseIsSeen == \A s \in Streams : serial /\ s \in closed ~> s \in told

\* Nothing stays on the list for ever, in a race or not.
Drains ==
  \A s \in Streams : \A u \in 1 .. Units[s] : u \in Queued(s) ~> u \notin Queued(s)

\* "easily replace code using sockets like read(socket, ...)" (onionroute.h):
\* the calls return the data of a stream without a gap and in order, at least
\* when no call races with an add.
ReadsLikeSocket ==
  serial => \A s \in Streams : \A i \in DOMAIN got[s] : got[s][i] = i
============================================================================
