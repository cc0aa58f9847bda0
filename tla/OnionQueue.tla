----------------------------- MODULE OnionQueue -----------------------------
(***************************************************************************)
(* The CREATE cells of one relay and the CPU workers that answer them: the *)
(* pool of worker connections (cpuworker.c), the list of circuits that     *)
(* wait for a free worker (onion.c), and what CREATE and DESTROY cells do  *)
(* to both (command.c, circuit_mark_for_close).                            *)
(*                                                                         *)
(* A worker is a thread at the other end of a socket.  Between the request *)
(* and the response the circuit may be closed and freed, so the request is *)
(* tagged with (connection, circID) and the response is matched by tag.  A *)
(* tag stands for such a pair; the connection's half of it is a 64-bit     *)
(* number that is never used twice, the circID half is the neighbour's.    *)
(* Circuit objects are not reused, so that an answer and a circuit can be  *)
(* told apart for ever; that bounds the number of CREATE cells.            *)
(*                                                                         *)
(* The once-a-minute cull, the 5 seconds of the queue's cutoff and the 12  *)
(* hours of a wedged worker are clocks: they may or may not have run out.  *)
(* A history is quiet or not from its start on: in a quiet one keys are    *)
(* not rotated and no worker fails.                                        *)
(***************************************************************************)
EXTENDS Integers, Sequences, FiniteSets, SequencesExt

CONSTANTS
  Circuits,     \* or_circuit_t objects, one per CREATE cell
  Tags,         \* (p_conn, p_circ_id) pairs
  Workers,      \* as many as get_num_cpus() asks for
  MaxPending,   \* MaxOnionsPending
  TagsReused,   \* does a neighbour use a circID again after its circuit is gone?
  Nil

ASSUME OnionAssumption ==
  /\ IsFiniteSet(Workers) /\ Workers # {}
  /\ MaxPending \in Nat
  /\ TagsReused \in BOOLEAN
  /\ Nil \notin Circuits \cup Tags \cup Workers

VARIABLES
  quiet,    \* are there no rotations, reloads, deaths, wedges, failed spawns?
  status,   \* "new", "pending" (onionskin), "open", "gone"; "gone" is freed
  marked,   \* marked_for_close
  tag,      \* the circuit's p_conn and p_circ_id, Nil once detached
  used,     \* tags that were ever in use
  queue,    \* ol_list
  mode,     \* worker connections: "none", "idle", "busy"
  old,      \* was it created before last_rotation_time?
  task,     \* the circuit whose onionskin the worker was given
  asked,    \* ... and the tag it was given with
  num, busy,   \* num_cpuworkers, num_cpuworkers_busy
  answers,  \* per circuit, the onionskins whose answers it was given
  sound     \* has no tor_assert failed?

vars == <<quiet, status, marked, tag, used, queue, mode, old, task, asked, num, busy,
          answers, sound>>

Relay ==
  [status |-> status, marked |-> marked, tag |-> tag, used |-> used,
   queue |-> queue, mode |-> mode, old |-> old, task |-> task, asked |-> asked,
   num |-> num, busy |-> busy, answers |-> answers, sound |-> sound]

Becomes(relay) ==
  \E r \in {relay} :
    /\ UNCHANGED quiet
    /\ status' = r.status /\ marked' = r.marked /\ tag' = r.tag /\ used' = r.used
    /\ queue' = r.queue /\ mode' = r.mode /\ old' = r.old /\ task' = r.task
    /\ asked' = r.asked /\ num' = r.num /\ busy' = r.busy
    /\ answers' = r.answers /\ sound' = r.sound

\* cpu_init, before any CREATE: every worker is spawned.
Init ==
  /\ quiet \in BOOLEAN
  /\ status = [c \in Circuits |-> "new"]
  /\ marked = [c \in Circuits |-> FALSE]
  /\ tag = [c \in Circuits |-> Nil]
  /\ used = {}
  /\ queue = <<>>
  /\ mode = [w \in Workers |-> "idle"]
  /\ old = [w \in Workers |-> FALSE]
  /\ task = [w \in Workers |-> Nil] /\ asked = [w \in Workers |-> Nil]
  /\ num = Cardinality(Workers) /\ busy = 0
  /\ answers = [c \in Circuits |-> {}]
  /\ sound = TRUE

In(r, m) == {w \in Workers : r.mode[w] = m}
-----------------------------------------------------------------------------
(* The pool. *)

\* Worker connections that are marked for close.
Closed(r, W) ==
  [r EXCEPT !.mode = [w \in Workers |-> IF w \in W THEN "none" ELSE @[w]],
            !.task = [w \in Workers |-> IF w \in W THEN Nil ELSE @[w]],
            !.asked = [w \in Workers |-> IF w \in W THEN Nil ELSE @[w]],
            !.num = @ - Cardinality(W)]

\* spawn_enough_cpuworkers: up to as many as are needed, fewer if one fails.
SpawnEnough(r) ==
  LET missing == Cardinality(Workers) - r.num
      spawned(W) == [r EXCEPT
                      !.mode = [w \in Workers |-> IF w \in W THEN "idle" ELSE @[w]],
                      !.old = [w \in Workers |-> @[w] /\ w \notin W],
                      !.num = @ + Cardinality(W)]
  IN  {spawned(W) : W \in {W \in SUBSET In(r, "none") :
                             \/ Cardinality(W) = missing
                             \/ ~quiet /\ Cardinality(W) < missing}}

\* cull_wedged_cpuworkers, when the last cull is a minute ago.
CullWedged(r) ==
  {[Closed(r, W) EXCEPT !.busy = @ - Cardinality(W)] :
     W \in IF quiet THEN {{}} ELSE SUBSET In(r, "busy")}
Maintained(r) == {r} \cup UNION {SpawnEnough(u) : u \in CullWedged(r)}
-----------------------------------------------------------------------------
(* The list of circuits that wait. *)

\* onion_pending_remove.
PendingRemove(r, c) == [r EXCEPT !.queue = RemoveFirst(@, c)]

\* circuit_mark_for_close.
MarkForClose(r, c) ==
  IF r.marked[c] THEN r
  ELSE [IF r.status[c] = "pending" THEN PendingRemove(r, c) ELSE r
          EXCEPT !.marked[c] = TRUE]

\* onion_pending_add's cull: the n oldest requests have waited too long, and
\* each is taken off the list and marked for close.
CullElderly(r, n) ==
  LET elderly == ToSet(SubSeq(r.queue, 1, n))
  IN  [r EXCEPT !.queue = SubSeq(r.queue, n + 1, Len(r.queue)),
                !.marked = [c \in Circuits |-> r.marked[c] \/ c \in elderly]]

\* onion_pending_add, when there is room.
HasRoom(r) == r.queue = <<>> \/ Len(r.queue) < MaxPending
PendingAdd(r, c) ==
  LET u == [r EXCEPT !.queue = Append(@, c)]
  IN  IF r.queue = <<>> THEN {u} ELSE {CullElderly(u, n) : n \in 0 .. Len(r.queue)}

Give(r, w, c) ==
  [r EXCEPT !.mode[w] = "busy", !.task[w] = c, !.asked[w] = r.tag[c], !.busy = @ + 1]

\* assign_onionskin_to_cpuworker, to one of the workers W.  "ok" is the result.
AssignOnionskin(relay, W, c) ==
  UNION {IF r.busy = r.num
           THEN IF HasRoom(r) THEN {[relay |-> u, ok |-> TRUE] : u \in PendingAdd(r, c)}
                ELSE {[relay |-> r, ok |-> FALSE]}
         ELSE IF W \cap In(r, "idle") = {}
           THEN {[relay |-> [r EXCEPT !.sound = FALSE], ok |-> TRUE]}
         ELSE {[relay |-> Give(r, w, c), ok |-> TRUE] : w \in W \cap In(r, "idle")}
         : r \in Maintained(relay)}

\* Mutant: the worker that has become free just waits.
ProcessPendingTask_Never(r, w) == {r}

\* Mutant: the task stays on the list.
ProcessPendingTask_Keeps(r, w) ==
  IF r.queue = <<>> THEN {r}
  ELSE {a.relay : a \in AssignOnionskin(r, {w}, Head(r.queue))}

\* process_pending_task and onion_next_task, for a worker that has become
\* free.  The circuit at the head must still have its connection.
ProcessPendingTask(r, w) ==
  LET c == Head(r.queue)
  IN  IF r.queue = <<>> THEN {r}
      ELSE IF r.tag[c] = Nil THEN {[r EXCEPT !.sound = FALSE]}
      ELSE {a.relay : a \in AssignOnionskin(PendingRemove(r, c), {w}, c)}
-----------------------------------------------------------------------------
(* CREATE and DESTROY. *)

InUse(t) == \E c \in Circuits : tag[c] = t

\* command_process_create_cell.
Create(c, t) ==
  /\ status[c] = "new" /\ ~InUse(t)
  /\ TagsReused \/ t \notin used
  /\ \E a \in AssignOnionskin([Relay EXCEPT !.status[c] = "pending", !.tag[c] = t,
                                            !.used = @ \cup {t}], Workers, c) :
       Becomes(IF a.ok THEN a.relay ELSE MarkForClose(a.relay, c))

\* Mutant: the circuit is closed without looking at the list.
Destroy_StaysQueued(c) ==
  /\ status[c] \in {"pending", "open"} /\ ~marked[c]
  /\ Becomes([Relay EXCEPT !.tag[c] = Nil, !.marked[c] = TRUE])

\* command_process_destroy_cell, and the loss of the connection.
Destroy(c) ==
  /\ status[c] \in {"pending", "open"} /\ ~marked[c]
  /\ Becomes(MarkForClose([Relay EXCEPT !.tag[c] = Nil], c))

\* The circuit is closed from this side, e.g. by a RELAY cell that comes
\* before the CREATED was sent.
Expire(c) ==
  /\ status[c] \in {"pending", "open"} /\ ~marked[c]
  /\ Becomes(MarkForClose(Relay, c))

\* circuit_close_all_marked.
FreeMarked ==
  /\ \E c \in Circuits : marked[c] /\ status[c] # "gone"
  /\ Becomes([Relay EXCEPT
       !.status = [c \in Circuits |-> IF marked[c] THEN "gone" ELSE @[c]],
       !.tag = [c \in Circuits |-> IF marked[c] THEN Nil ELSE @[c]]])
-----------------------------------------------------------------------------
(* The workers. *)

\* Mutant: the response is matched by its connection alone.
ByTag_ConnOnly(t) == {c \in Circuits : tag[c] # Nil /\ ~marked[c]}

\* circuit_get_by_circid_orconn with the tag of the response.
ByTag(t) == {c \in Circuits : tag[c] = t /\ ~marked[c]}

\* What the response does to the circuit: onionskin_answer, or close it.
Answered(r, w, c, good) ==
  IF good THEN [r EXCEPT !.status[c] = "open", !.answers[c] = @ \cup {r.task[w]}]
  ELSE MarkForClose(r, c)

\* Mutant: the worker counts as busy until its next task.
Finished_StillBusy(r, w) ==
  [r EXCEPT !.mode[w] = "idle", !.task[w] = Nil, !.asked[w] = Nil]

\* "done_processing:".
Finished(r, w) ==
  [r EXCEPT !.mode[w] = "idle", !.task[w] = Nil, !.asked[w] = Nil, !.busy = @ - 1]

\* Mutant: a worker from before the rotation goes on to the next task.
Outdated_Never(w) == FALSE

Outdated(w) == old[w]

\* connection_cpu_process_inbuf: a worker from before the last rotation is
\* closed and replaced, any other takes the next task.
Answer(w, good) ==
  /\ mode[w] = "busy"
  /\ LET r == IF ByTag(asked[w]) = {} THEN Relay
              ELSE Answered(Relay, w, CHOOSE c \in ByTag(asked[w]) : TRUE, good)
         done == Finished(r, w)
     IN  \E u \in IF Outdated(w) THEN SpawnEnough(Closed(done, {w}))
                  ELSE ProcessPendingTask(done, w) :
           Becomes(u)

\* cpuworkers_rotate: idle workers are closed, busy ones outdated.
Rotate ==
  /\ ~quiet
  /\ \E u \in SpawnEnough([Closed(Relay, In(Relay, "idle")) EXCEPT
                            !.old = [w \in Workers |-> mode[w] = "busy"]]) :
       Becomes(u)

\* connection_cpu_reached_eof: the worker died.
ReachedEof(w) ==
  /\ ~quiet /\ mode[w] # "none"
  /\ \E u \in SpawnEnough([Closed(Relay, {w}) EXCEPT
                            !.busy = IF mode[w] = "busy" THEN @ - 1 ELSE @]) :
       Becomes(u)
-----------------------------------------------------------------------------
Next ==
  /\ sound
  /\ \/ \E c \in Circuits :
          \/ \E t \in Tags : Create(c, t)
          \/ Destroy(c) \/ Expire(c)
     \/ FreeMarked
     \/ \E w \in Workers :
          \/ \E good \in BOOLEAN : Answer(w, good)
          \/ ReachedEof(w)
     \/ Rotate

Spec == Init /\ [][Next]_vars

\* Weak fairness of the workers, which finish their handshakes, and of the
\* sweep of marked circuits after every round of libevent.  Written with the
\* guards in place of ENABLED, which TLC evaluates slowly on these actions.
CanAnswer(w) == sound /\ mode[w] = "busy"
CanFree == sound /\ \E c \in Circuits : marked[c] /\ status[c] # "gone"
Fairness ==
  /\ \A w \in Workers :
       []<>~CanAnswer(w) \/ []<><<\E good \in BOOLEAN : Answer(w, good)>>_vars
  /\ []<>~CanFree \/ []<><<FreeMarked>>_vars

FairSpec == Spec /\ Fairness
-----------------------------------------------------------------------------
TypeOK ==
  /\ quiet \in BOOLEAN
  /\ status \in [Circuits -> {"new", "pending", "open", "gone"}]
  /\ marked \in [Circuits -> BOOLEAN]
  /\ tag \in [Circuits -> Tags \cup {Nil}] /\ used \subseteq Tags
  /\ queue \in Seq(Circuits)
  /\ mode \in [Workers -> {"none", "idle", "busy"}]
  /\ old \in [Workers -> BOOLEAN]
  /\ task \in [Workers -> Circuits \cup {Nil}] /\ asked \in [Workers -> Tags \cup {Nil}]
  /\ num \in 0 .. Cardinality(Workers) /\ busy \in 0 .. num
  /\ answers \in [Circuits -> SUBSET Circuits]
  /\ sound \in BOOLEAN

\* The two counters agree with the worker connections through every rotation,
\* death and cull: a drift would leave idle workers unused, or make
\* assign_onionskin_to_cpuworker's tor_assert(cpuworker) fail.
CountersRight ==
  /\ num = Cardinality({w \in Workers : mode[w] # "none"})
  /\ busy = Cardinality({w \in Workers : mode[w] = "busy"})

\* The list holds each circuit once, and only circuits that are still there
\* to be answered: ol_list has raw pointers and the circuits are freed.
QueueSound ==
  /\ IsInjective(queue)
  /\ \A c \in ToSet(queue) : status[c] = "pending" /\ ~marked[c] /\ tag[c] # Nil

\* An onionskin is in one place: no circuit waits that a worker has, and no
\* two workers have the same one.
OnePlace ==
  \A w \in Workers : mode[w] = "busy" =>
    /\ task[w] \notin ToSet(queue)
    /\ \A v \in Workers \ {w} : task[v] # task[w]

\* No worker takes a task with keys from before the last rotation.
FreshKeys == \A w \in Workers : mode[w] = "idle" => ~old[w]

NoAssertFails == sound

\* "If none idle, queue task" (cpuworker.c): nobody waits while a worker is
\* idle, unless workers were replaced: a new worker is not given a task.
NobodyWaitsForIdle == quiet /\ queue # <<>> => \A w \in Workers : mode[w] # "idle"

\* "when the cpuworker returns it, the circuit will be gone, and the cpuworker
\* response will be dropped" (command.c): a circuit is only ever given the
\* answer to its own onionskin.
OwnAnswer == \A c \in Circuits : answers[c] \subseteq {c}

\* A circuit does not stay on the list for ever.  After a rotation it may: the
\* worker that replaces one from before the rotation is not given the task
\* that waits, and the list is culled by the next CREATE only.
LeavesQueue ==
  \A c \in Circuits : (quiet /\ c \in ToSet(queue)) ~> (c \notin ToSet(queue))

\* The counters agree with the pool, the list has no dangling circuit, no onionskin
\* is in two places, none is processed with keys that are out of date, every
\* answer is its circuit's own, and no tor_assert fails.
PoolSound == OwnAnswer /\ CountersRight /\ QueueSound /\ OnePlace /\ FreshKeys /\ NoAssertFails
=============================================================================
