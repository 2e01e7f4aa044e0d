----------------------------- MODULE TaskQueue ------------------------------
(***************************************************************************)
(* What a thread pool promises: tasks 1, 2, ... are put into a bounded     *)
(* first-in first-out queue, each is taken by one worker and finished by   *)
(* it.  ThreadPool implements this with a ring buffer, a mutex and two     *)
(* condition variables.                                                    *)
(***************************************************************************)
EXTENDS Naturals, Sequences

CONSTANTS
  Workers,   \* the threads that take tasks
  Size,      \* how many tasks may wait
  NTasks     \* how many tasks there are

VARIABLES
  queue,      \* the tasks that wait
  submitted,  \* how many tasks were put into the queue so far
  held,       \* the task a worker runs, 0 if it runs none
  finished    \* the tasks that are finished

vars == <<queue, submitted, held, finished>>

Init ==
  /\ queue = <<>>
  /\ submitted = 0
  /\ held = [w \in Workers |-> 0]
  /\ finished = {}

Put ==
  /\ submitted < NTasks
  /\ Len(queue) < Size
  /\ queue' = Append(queue, submitted + 1)
  /\ submitted' = submitted + 1
  /\ UNCHANGED <<held, finished>>

Get(w) ==
  /\ queue # <<>>
  /\ held[w] = 0
  /\ held' = [held EXCEPT ![w] = Head(queue)]
  /\ queue' = Tail(queue)
  /\ UNCHANGED <<submitted, finished>>

Finish(w) ==
  /\ held[w] # 0
  /\ finished' = finished \cup {held[w]}
  /\ held' = [held EXCEPT ![w] = 0]
  /\ UNCHANGED <<queue, submitted>>

Next == Put \/ \E w \in Workers : Get(w) \/ Finish(w)

Spec == Init /\ [][Next]_vars
=============================================================================
