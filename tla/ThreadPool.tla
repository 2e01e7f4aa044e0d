----------------------------- MODULE ThreadPool -----------------------------
(***************************************************************************)
(* The thread pool of ptpool.c.  main() creates Size workers, submits      *)
(* NTasks tasks through a ring buffer of Size slots, sleeps and returns,   *)
(* which ends the process whatever the workers are at.                     *)
(*                                                                         *)
(* All that happens between taking the mutex and giving it back (by        *)
(* unlocking or by waiting) is one action: no other thread sees what is in *)
(* between.  pthread_cond_wait() may also return without a signal.         *)
(***************************************************************************)
EXTENDS Integers, Sequences, FiniteSets

CONSTANTS
  Workers,    \* the threads of thread_pool_init()
  Main,       \* the thread of main()
  NoThread,   \* the owner of a mutex that is free
  Size,       \* THREAD_POOL_SIZE: the slots of the ring, and the workers
  NTasks      \* how many tasks main() submits: 10

ASSUME PoolAssumption ==
  /\ IsFiniteSet(Workers) /\ Cardinality(Workers) = Size
  /\ Size \in Nat \ {0} /\ NTasks \in Nat \ {0}
  /\ Main \notin Workers /\ NoThread \notin Workers \cup {Main}

VARIABLES
  tasks, head, tail, count,   \* the ring; 0 stands for a slot never written
  lock,       \* the owner of the mutex
  notEmpty,   \* threads that wait for not_empty
  notFull,    \* threads that wait for not_full
  pc,         \* where each thread is
  task,       \* what each worker took last; 0 when it has run it
  next,       \* the next task of the loop in main()
  finished    \* history: the tasks that have run

ring == <<tasks, head, tail, count>>
vars == <<ring, lock, notEmpty, notFull, pc, task, next, finished>>

Threads == Workers \cup {Main}
Tasks == 1..NTasks
Slots == 0..(Size - 1)

Init ==
  /\ tasks = [i \in Slots |-> 0]
  /\ head = 0 /\ tail = 0 /\ count = 0
  /\ lock = NoThread
  /\ notEmpty = {} /\ notFull = {}
  /\ pc = [t \in Threads |-> IF t = Main THEN "create" ELSE "none"]
  /\ task = [w \in Workers |-> 0]
  /\ next = 1
  /\ finished = {}

\* The threads a pthread_cond_signal() wakes: one that waits, if any does.
Woken(waiting) == IF waiting = {} THEN {{}} ELSE { {t} : t \in waiting }

\* Thread t goes to place p, and the threads of set W wake up.
Go(t, p, W) ==
  pc' = [s \in Threads |-> IF s = t THEN p
                           ELSE IF s \in W THEN "lock" ELSE pc[s]]

-----------------------------------------------------------------------------
(* Faulty variants of actions below; each breaks a property.                *)

\* The worker tests count with "if" instead of "while".
TakeUnchecked(w) ==
  /\ lock = w
  /\ task' = [task EXCEPT ![w] = tasks[head]]
  /\ head' = (head + 1) % Size
  /\ count' = count - 1
  /\ \E W \in Woken(notFull) :
       notFull' = notFull \ W /\ Go(w, "run", W)
  /\ lock' = NoThread
  /\ UNCHANGED <<tasks, tail, notEmpty, next, finished>>

\* not_full is never signalled.
TakeSilent(w) ==
  /\ lock = w /\ count > 0
  /\ task' = [task EXCEPT ![w] = tasks[head]]
  /\ head' = (head + 1) % Size
  /\ count' = count - 1
  /\ Go(w, "run", {})
  /\ lock' = NoThread
  /\ UNCHANGED <<tasks, tail, notEmpty, notFull, next, finished>>

\* not_empty is signalled only when the ring was empty before.
SubmitFirst ==
  /\ lock = Main /\ count < Size
  /\ tasks' = [tasks EXCEPT ![tail] = next]
  /\ tail' = (tail + 1) % Size
  /\ count' = count + 1
  /\ \E W \in IF count = 0 THEN Woken(notEmpty) ELSE {{}} :
       /\ notEmpty' = notEmpty \ W
       /\ Go(Main, IF next = NTasks THEN "sleep" ELSE "lock", W)
  /\ next' = next + 1
  /\ lock' = NoThread
  /\ UNCHANGED <<head, notFull, task, finished>>

-----------------------------------------------------------------------------
(* thread_pool_init() *)

\* main() creates a worker; after the last one it submits its tasks.
Create(w) ==
  /\ pc[Main] = "create" /\ pc[w] = "none"
  /\ pc' = [t \in Threads |->
              IF t = w THEN "lock"
              ELSE IF t = Main /\ \A v \in Workers \ {w} : pc[v] # "none"
                   THEN "lock" ELSE pc[t]]
  /\ UNCHANGED <<ring, lock, notEmpty, notFull, task, next, finished>>

-----------------------------------------------------------------------------
(* The mutex and the condition variables. *)

\* pthread_mutex_lock(), at first or when pthread_cond_wait() returns.
Acquire(t) ==
  /\ pc[t] = "lock" /\ lock = NoThread
  /\ lock' = t
  /\ Go(t, "locked", {})
  /\ UNCHANGED <<ring, notEmpty, notFull, task, next, finished>>

\* A spurious wakeup.
WakeUp(t) ==
  /\ pc[t] = "wait"
  /\ notEmpty' = notEmpty \ {t} /\ notFull' = notFull \ {t}
  /\ Go(t, "lock", {})
  /\ UNCHANGED <<ring, lock, task, next, finished>>

-----------------------------------------------------------------------------
(* thread_pool_worker() *)

WaitNotEmpty(w) ==
  /\ lock = w /\ count = 0
  /\ notEmpty' = notEmpty \cup {w}
  /\ lock' = NoThread
  /\ Go(w, "wait", {})
  /\ UNCHANGED <<ring, notFull, task, next, finished>>

Take(w) ==
  /\ lock = w /\ count > 0
  /\ task' = [task EXCEPT ![w] = tasks[head]]
  /\ head' = (head + 1) % Size
  /\ count' = count - 1
  /\ \E W \in Woken(notFull) :
       notFull' = notFull \ W /\ Go(w, "run", W)
  /\ lock' = NoThread
  /\ UNCHANGED <<tasks, tail, notEmpty, next, finished>>

\* The function of the task runs, outside of the mutex.
Run(w) ==
  /\ pc[w] = "run"
  /\ finished' = finished \cup {task[w]}
  /\ task' = [task EXCEPT ![w] = 0]
  /\ Go(w, "lock", {})
  /\ UNCHANGED <<ring, lock, notEmpty, notFull, next>>

-----------------------------------------------------------------------------
(* thread_pool_submit(), and the rest of main() *)

WaitNotFull ==
  /\ lock = Main /\ count = Size
  /\ notFull' = notFull \cup {Main}
  /\ lock' = NoThread
  /\ Go(Main, "wait", {})
  /\ UNCHANGED <<ring, notEmpty, task, next, finished>>

Submit ==
  /\ lock = Main /\ count < Size
  /\ tasks' = [tasks EXCEPT ![tail] = next]
  /\ tail' = (tail + 1) % Size
  /\ count' = count + 1
  /\ \E W \in Woken(notEmpty) :
       /\ notEmpty' = notEmpty \ W
       /\ Go(Main, IF next = NTasks THEN "sleep" ELSE "lock", W)
  /\ next' = next + 1
  /\ lock' = NoThread
  /\ UNCHANGED <<head, notFull, task, finished>>

\* sleep(5) is over: main() returns and the process is gone.
Return ==
  /\ pc[Main] = "sleep"
  /\ Go(Main, "returned", {})
  /\ UNCHANGED <<ring, lock, notEmpty, notFull, task, next, finished>>

-----------------------------------------------------------------------------
Running == pc[Main] # "returned"

WorkerStep(w) == WaitNotEmpty(w) \/ Take(w) \/ Run(w)

MainStep == WaitNotFull \/ Submit

Next ==
  \/ /\ Running
     /\ \/ \E w \in Workers : Create(w) \/ WorkerStep(w)
        \/ \E t \in Threads : Acquire(t) \/ WakeUp(t)
        \/ MainStep \/ Return
  \/ ~Running /\ UNCHANGED vars

Spec == Init /\ [][Next]_vars

\* Threads are scheduled, tasks end, and no thread is kept from the mutex for
\* ever.  main() need not ever return; no spurious wakeup needs to happen.
FairSpec ==
  /\ Spec
  /\ \A w \in Workers :
       /\ WF_vars(Running /\ Create(w))
       /\ WF_vars(Running /\ WorkerStep(w))
  /\ WF_vars(Running /\ MainStep)
  /\ \A t \in Threads : SF_vars(Running /\ Acquire(t))

-----------------------------------------------------------------------------
(* Properties. *)

\* Every variable stays in its range: in particular count never leaves 0..Size,
\* and the owner of the mutex is the one thread in a critical section.
TypeOK ==
  /\ tasks \in [Slots -> 0..NTasks]
  /\ head \in Slots /\ tail \in Slots /\ count \in 0..Size
  /\ notEmpty = { w \in Workers : pc[w] = "wait" }
  /\ notFull = { t \in {Main} : pc[t] = "wait" }
  /\ pc \in [Threads -> {"create", "none", "lock", "locked", "wait", "run",
                         "sleep", "returned"}]
  /\ lock \in Threads \cup {NoThread}
  /\ \A t \in Threads : pc[t] = "locked" <=> lock = t
  /\ task \in [Workers -> 0..NTasks]
  /\ next \in 1..(NTasks + 1)
  /\ finished \subseteq Tasks

\* The tasks in the ring, oldest first.
Queue == [i \in 1..count |-> tasks[(head + i - 1) % Size]]

\* No wakeup is lost: while a worker waits, the workers that are awake (they
\* are about to look into the ring) are at least as many as the tasks in it.
\* It would not do to signal only when the ring stops being empty.
Awake == { w \in Workers : pc[w] \in {"lock", "locked"} }
NoIdleWorker == notEmpty # {} => Cardinality(Awake) >= count

\* Every task is run in the end, unless main() returns before.
EveryTaskRuns == \A n \in Tasks : <>(n \in finished \/ ~Running)

\* The pool is a bounded first-in first-out queue.
Promise == INSTANCE TaskQueue WITH
             queue <- Queue, submitted <- next - 1, held <- task
Implements == Promise!Spec
=============================================================================
