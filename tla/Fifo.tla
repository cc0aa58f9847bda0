-------------------------------- MODULE Fifo --------------------------------
(***************************************************************************)
(* What a queue of commands promises: they run one at a time and in the    *)
(* order in which they were queued.  LibraryCommands implements it.        *)
(***************************************************************************)
EXTENDS Sequences

CONSTANT Commands
VARIABLES
  waiting,  \* commands not yet run, the oldest first
  running   \* the command that ran last, <<>> before the first

Init == waiting = <<>> /\ running = <<>>

Put(c) == waiting' = Append(waiting, c) /\ UNCHANGED running

Run ==
  /\ waiting # <<>>
  /\ running' = <<Head(waiting)>>
  /\ waiting' = Tail(waiting)

Next == (\E c \in Commands : Put(c)) \/ Run

Spec == Init /\ [][Next]_<<waiting, running>>
=============================================================================
