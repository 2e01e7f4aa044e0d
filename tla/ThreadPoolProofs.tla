-------------------------- MODULE ThreadPoolProofs --------------------------
(***************************************************************************)
(* What the thread pool guarantees for every number of workers and tasks.  *)
(***************************************************************************)
EXTENDS ThreadPool, FiniteSetTheorems, TLAPS

-----------------------------------------------------------------------------
(* Positions in the ring. *)

\* Below twice the size of the ring, % is at most one subtraction.
LEMMA ModOnce ==
  ASSUME NEW a \in 0..(2 * Size - 1)
  PROVE  a % Size = IF a < Size THEN a ELSE a - Size
BY PoolAssumption

\* The slot after slot a.
LEMMA NextSlot ==
  ASSUME NEW a \in Slots
  PROVE  /\ (a + 1) % Size \in Slots
         /\ (a + 1) % Size = IF a + 1 < Size THEN a + 1 ELSE 0
<1>1. a + 1 \in 0..(2 * Size - 1)
  BY PoolAssumption DEF Slots
<1>2. \A b \in 0..(2 * Size - 1) : b % Size = IF b < Size THEN b ELSE b - Size
  BY ModOnce, Zenon
<1>3. a \in 0..(Size - 1) /\ Size \in Nat \ {0}
  BY PoolAssumption DEF Slots
<1>4. (a + 1) % Size = IF a + 1 < Size THEN a + 1 ELSE 0
  BY <1>1, <1>2, <1>3
<1> QED
  BY <1>3, <1>4 DEF Slots

\* The slot of the task at place i of the queue.
Slot(i) == (head + i - 1) % Size

\* It is a slot, found with at most one subtraction.
LEMMA SlotIs ==
  ASSUME head \in Slots, NEW i \in 1..Size
  PROVE  /\ Slot(i) \in Slots
         /\ Slot(i) = IF head + i - 1 < Size THEN head + i - 1
                                             ELSE head + i - 1 - Size
BY ModOnce, PoolAssumption DEF Slot, Slots

-----------------------------------------------------------------------------
(* The inductive invariant. *)

\* Where the ring ends follows from where it begins.
RingInv ==
  /\ tail = IF head + count < Size THEN head + count ELSE head + count - Size
  /\ \A i \in 1..count : tasks[Slot(i)] \in Tasks

\* A worker has a task exactly while it runs it, and main() submits no more
\* than its tasks.
PlaceInv ==
  /\ \A w \in Workers : task[w] # 0 <=> pc[w] = "run"
  /\ pc[Main] \notin {"sleep", "returned"} => next <= NTasks

\* TypeOK rests on both: what is run is a task only if what is taken is one.
Inv == TypeOK /\ RingInv /\ PlaceInv

\* main() is no worker, and no thread is NoThread.
LEMMA Distinct == Main \notin Workers /\ NoThread \notin Threads
BY PoolAssumption DEF Threads

\* A signal wakes threads that wait.
LEMMA WokenWait ==
  ASSUME NEW waiting, NEW W \in Woken(waiting)
  PROVE  W \subseteq waiting
BY DEF Woken

\* Inv holds before the first worker is created.
LEMMA InitInv == Init => Inv
<1> SUFFICES ASSUME Init PROVE Inv
  OBVIOUS
<1>1. TypeOK
  BY PoolAssumption DEF Init, TypeOK, Slots, Threads, Tasks
<1>2. RingInv /\ PlaceInv
  BY PoolAssumption DEF Init, RingInv, PlaceInv, Threads
<1> QED
  BY <1>1, <1>2 DEF Inv

\* Taking a task moves the others one place forward.
LEMMA TakeSlots ==
  ASSUME TypeOK, NEW w \in Workers, Take(w)
  PROVE  /\ Slot(1) = head /\ 1 \in 1..count
         /\ head' \in Slots /\ head' = IF head + 1 < Size THEN head + 1 ELSE 0
         /\ \A i \in 1..count' : Slot(i)' = Slot(i + 1) /\ i + 1 \in 1..count
<1>1. Slot(1) = head /\ 1 \in 1..count
  BY SlotIs, PoolAssumption DEF Take, TypeOK, Slots
<1>2. head' \in Slots /\ head' = IF head + 1 < Size THEN head + 1 ELSE 0
  BY NextSlot DEF Take, TypeOK
<1>3. ASSUME NEW i \in 1..count'
      PROVE  Slot(i)' = Slot(i + 1) /\ i + 1 \in 1..count
  <2>1. i \in 1..Size /\ i + 1 \in 1..count /\ i + 1 \in 1..Size
    BY PoolAssumption DEF Take, TypeOK
  <2>2. Slot(i)' = IF head' + i - 1 < Size THEN head' + i - 1
                                           ELSE head' + i - 1 - Size
    BY <1>2, <2>1, ModOnce, PoolAssumption DEF Slot, Slots
  <2> QED
    BY <1>2, <2>1, <2>2, SlotIs, PoolAssumption DEF TypeOK, Slots
<1> QED
  BY <1>1, <1>2, <1>3

\* Submitting a task writes the place after the last one and keeps the others.
LEMMA SubmitSlots ==
  ASSUME TypeOK, RingInv, Submit
  PROVE  /\ Slot(count + 1) = tail
         /\ \A i \in 1..count' : Slot(i)' = Slot(i) /\ Slot(i) \in Slots
         /\ \A i \in 1..count : Slot(i) # tail
<1>1. ASSUME NEW i \in 1..(count + 1)
      PROVE  /\ Slot(i)' = Slot(i) /\ Slot(i) \in Slots
             /\ Slot(i) = IF head + i - 1 < Size THEN head + i - 1
                                                 ELSE head + i - 1 - Size
  <2>1. i \in 1..Size /\ Slot(i)' = Slot(i)
    BY PoolAssumption DEF Submit, TypeOK, Slot
  <2> QED
    BY <2>1, SlotIs DEF TypeOK
<1>2. count' = count + 1 /\ count \in Nat /\ count < Size /\ Size \in Nat
      /\ head \in 0..(Size - 1)
  BY PoolAssumption DEF Submit, TypeOK, Slots
<1>3. Slot(count + 1) = tail
  BY <1>1, <1>2 DEF RingInv
<1>4. \A i \in 1..count : Slot(i) # tail
  BY <1>1, <1>2 DEF RingInv
<1> QED
  BY <1>1, <1>2, <1>3, <1>4

\* Every step keeps Inv.
LEMMA StepInv == Inv /\ [Next]_vars => Inv'
<1> SUFFICES ASSUME Inv, [Next]_vars PROVE Inv'
  OBVIOUS
<1> USE Distinct DEF Inv
<1>1. ASSUME NEW w \in Workers, Create(w)
      PROVE  Inv'
  BY <1>1 DEF Create, TypeOK, RingInv, PlaceInv, Threads, ring, Slot
<1>2. ASSUME NEW t \in Threads, Acquire(t)
      PROVE  Inv'
  BY <1>2 DEF Acquire, Go, TypeOK, RingInv, PlaceInv, Threads, ring, Slot
<1>3. ASSUME NEW t \in Threads, WakeUp(t)
      PROVE  Inv'
  BY <1>3 DEF WakeUp, Go, TypeOK, RingInv, PlaceInv, Threads, ring, Slot
<1>4. ASSUME NEW w \in Workers, WaitNotEmpty(w)
      PROVE  Inv'
  BY <1>4 DEF WaitNotEmpty, Go, TypeOK, RingInv, PlaceInv, Threads, ring, Slot
<1>5. ASSUME NEW w \in Workers, Run(w)
      PROVE  Inv'
  <2>1. task[w] \in Tasks
    BY <1>5, PoolAssumption DEF Run, TypeOK, PlaceInv, Tasks
  <2>2. finished' \subseteq Tasks /\ task' \in [Workers -> 0..NTasks]
    BY <1>5, <2>1, PoolAssumption DEF Run, TypeOK
  <2>3. TypeOK'
    BY <1>5, <2>2 DEF Run, Go, TypeOK, Threads, ring
  <2>4. RingInv' /\ PlaceInv'
    BY <1>5 DEF Run, Go, TypeOK, RingInv, PlaceInv, Threads, ring, Slot
  <2> QED
    BY <2>3, <2>4
<1>6. CASE WaitNotFull
  BY <1>6 DEF WaitNotFull, Go, TypeOK, RingInv, PlaceInv, Threads, ring, Slot
<1>7. CASE Return
  BY <1>7 DEF Return, Go, TypeOK, RingInv, PlaceInv, Threads, ring, Slot
<1>8. CASE UNCHANGED vars
  BY <1>8 DEF vars, TypeOK, RingInv, PlaceInv, ring, Slot
<1>9. ASSUME NEW w \in Workers, Take(w)
      PROVE  Inv'
  <2>0. PICK W \in Woken(notFull) : notFull' = notFull \ W /\ Go(w, "run", W)
    BY <1>9 DEF Take
  <2>1. W \subseteq notFull
    BY <2>0, WokenWait
  <2>2. tasks[head] \in Tasks
    <3>1. Slot(1) = head /\ 1 \in 1..count
      BY <1>9, TakeSlots
    <3> QED
      BY <3>1 DEF RingInv
  <2>3. head' \in Slots /\ head' = IF head + 1 < Size THEN head + 1 ELSE 0
    BY <1>9, TakeSlots
  <2>4. task' \in [Workers -> 0..NTasks] /\ count' \in 0..Size
    BY <1>9, <2>2, PoolAssumption DEF Take, TypeOK, Tasks
  <2>5. /\ notEmpty' = { v \in Workers : pc'[v] = "wait" }
        /\ notFull' = { t \in {Main} : pc'[t] = "wait" }
        /\ pc' \in [Threads -> {"create", "none", "lock", "locked", "wait",
                                "run", "sleep", "returned"}]
        /\ \A t \in Threads : pc'[t] = "locked" <=> lock' = t
    BY <1>9, <2>0, <2>1 DEF Take, Go, TypeOK, Threads
  <2>6. TypeOK'
    BY <1>9, <2>3, <2>4, <2>5 DEF Take, TypeOK
  <2>7. RingInv'
    <3>1. tail' = IF head' + count' < Size THEN head' + count'
                                           ELSE head' + count' - Size
      <4>1. /\ tail' = tail /\ count' = count - 1 /\ count > 0
            /\ head \in 0..(Size - 1) /\ count \in 0..Size /\ Size \in Nat
        BY <1>9, PoolAssumption DEF Take, TypeOK, Slots
      <4> QED
        BY <2>3, <4>1 DEF RingInv
    <3>2. \A i \in 1..count' : Slot(i)' = Slot(i + 1) /\ i + 1 \in 1..count
      BY <1>9, TakeSlots
    <3> QED
      BY <1>9, <3>1, <3>2 DEF Take, RingInv, Tasks
  <2>8. PlaceInv'
    BY <1>9, <2>0, <2>1, <2>2 DEF Take, Go, TypeOK, PlaceInv, Threads, Tasks
  <2> QED
    BY <2>6, <2>7, <2>8
<1>10. CASE Submit
  <2>0. PICK W \in Woken(notEmpty) :
          /\ notEmpty' = notEmpty \ W
          /\ Go(Main, IF next = NTasks THEN "sleep" ELSE "lock", W)
    BY <1>10 DEF Submit
  <2>1. W \subseteq notEmpty
    BY <2>0, WokenWait
  <2>2. next \in Tasks
    BY <1>10 DEF Submit, TypeOK, PlaceInv, Threads, Tasks
  <2>3. tail' \in Slots /\ tail' = IF tail + 1 < Size THEN tail + 1 ELSE 0
    BY <1>10, NextSlot DEF Submit, TypeOK
  <2>4. tasks' \in [Slots -> 0..NTasks] /\ count' \in 0..Size
        /\ next' \in 1..(NTasks + 1)
    BY <1>10, <2>2, PoolAssumption DEF Submit, TypeOK, Tasks
  <2>5. /\ notEmpty' = { v \in Workers : pc'[v] = "wait" }
        /\ notFull' = { t \in {Main} : pc'[t] = "wait" }
        /\ pc' \in [Threads -> {"create", "none", "lock", "locked", "wait",
                                "run", "sleep", "returned"}]
        /\ \A t \in Threads : pc'[t] = "locked" <=> lock' = t
    BY <1>10, <2>0, <2>1 DEF Submit, Go, TypeOK, Threads
  <2>6. TypeOK'
    BY <1>10, <2>3, <2>4, <2>5 DEF Submit, TypeOK
  <2>7. RingInv'
    <3>1. tail' = IF head' + count' < Size THEN head' + count'
                                           ELSE head' + count' - Size
      BY <1>10, <2>3, PoolAssumption DEF Submit, TypeOK, RingInv, Slots
    <3>2. ASSUME NEW i \in 1..count'
          PROVE  tasks'[Slot(i)'] \in Tasks
      <4>1. Slot(i)' = Slot(i) /\ Slot(i) \in Slots
        BY <1>10, SubmitSlots
      <4>2. CASE i = count + 1
        BY <1>10, <2>2, <4>1, <4>2, SubmitSlots DEF Submit, TypeOK
      <4>3. CASE i # count + 1
        <5>1. i \in 1..count
          BY <1>10, <4>3 DEF Submit, TypeOK
        <5> QED
          BY <1>10, <4>1, <5>1, SubmitSlots DEF Submit, TypeOK, RingInv
      <4> QED
        BY <4>2, <4>3
    <3> QED
      BY <3>1, <3>2 DEF RingInv, Tasks
  <2>8. PlaceInv'
    <3>1. ASSUME NEW w \in Workers
          PROVE  task'[w] # 0 <=> pc'[w] = "run"
      BY <1>10, <2>0, <2>1 DEF Submit, Go, TypeOK, PlaceInv, Threads
    <3>2. pc'[Main] = IF next = NTasks THEN "sleep" ELSE "lock"
      BY <2>0 DEF Go, Threads
    <3>3. next' = next + 1 /\ next \in 1..NTasks
      BY <1>10, <2>2 DEF Submit, Tasks
    <3>4. pc'[Main] \notin {"sleep", "returned"} => next' <= NTasks
      BY <3>2, <3>3, PoolAssumption
    <3> QED
      BY <3>1, <3>4 DEF PlaceInv
  <2> QED
    BY <2>6, <2>7, <2>8
<1> QED
  BY <1>1, <1>2, <1>3, <1>4, <1>5, <1>6, <1>7, <1>8, <1>9, <1>10
  DEF Next, WorkerStep, MainStep

\* Inv holds at first and every step keeps it.
LEMMA InvCorrect == Spec => []Inv
BY InitInv, StepInv, PTL DEF Spec

\* Every variable of the pool stays in its range; in particular the ring never
\* holds more tasks than slots, nor fewer than none.
THEOREM TypeCorrect == Spec => []TypeOK
BY InvCorrect, PTL DEF Inv

-----------------------------------------------------------------------------
(* The pool implements the queue. *)

\* The ring as a sequence.
RingIsSeq ==
  /\ Queue \in Seq(Tasks) /\ Len(Queue) = count
  /\ \A i \in 1..count : Queue[i] = tasks[Slot(i)]

\* In every state of the pool it is one.
LEMMA QueueIsSeq == Inv => RingIsSeq
<1> SUFFICES ASSUME Inv PROVE RingIsSeq
  OBVIOUS
<1>1. count \in Nat /\ \A i \in 1..count : Queue[i] = tasks[Slot(i)]
  BY PoolAssumption DEF Inv, TypeOK, Queue, Slot
<1>2. Queue \in [1..count -> Tasks]
  BY <1>1 DEF Inv, RingInv, Queue, Slot
<1>3. Queue \in Seq(Tasks) /\ Len(Queue) = count
  BY <1>1, <1>2
<1> QED
  BY <1>1, <1>3 DEF RingIsSeq

\* Taking a task takes the head of the sequence.
LEMMA TakeRefines ==
  ASSUME Inv, Inv', NEW w \in Workers, Take(w)
  PROVE  Promise!Get(w)
<1>1. /\ Queue \in Seq(Tasks) /\ Len(Queue) = count
      /\ \A i \in 1..count : Queue[i] = tasks[Slot(i)]
  BY QueueIsSeq DEF RingIsSeq
<1>2. /\ Queue' \in Seq(Tasks) /\ Len(Queue') = count'
      /\ \A i \in 1..count' : Queue'[i] = tasks'[Slot(i)']
  <2>1. RingIsSeq'
    BY QueueIsSeq, PTL
  <2> QED
    BY <2>1 DEF RingIsSeq
<1>3. /\ Slot(1) = head /\ 1 \in 1..count
      /\ \A i \in 1..count' : Slot(i)' = Slot(i + 1) /\ i + 1 \in 1..count
  BY TakeSlots DEF Inv
<1>4. Queue # <<>> /\ Head(Queue) = tasks[head]
  <2>1. Len(Queue) # 0 /\ Queue[1] = tasks[head]
    BY <1>1, <1>3 DEF Take
  <2>2. Queue # <<>>
    BY <2>1
  <2> QED
    BY <1>1, <2>1, <2>2
<1>5. Queue' = Tail(Queue)
  <2>1. count' = count - 1 /\ tasks' = tasks
    BY DEF Take
  <2>2. Len(Tail(Queue)) = count' /\ Tail(Queue) \in Seq(Tasks)
    BY <1>1, <1>4, <2>1
  <2>3. ASSUME NEW i \in 1..count'
        PROVE  Queue'[i] = Tail(Queue)[i]
    <3>1. Queue'[i] = tasks'[Slot(i)']
      BY <1>2
    <3>2. Slot(i)' = Slot(i + 1) /\ i + 1 \in 1..count
      BY <1>3
    <3>3. Queue'[i] = Queue[i + 1]
      BY <1>1, <2>1, <3>1, <3>2
    <3>4. i \in 1..Len(Tail(Queue))
      BY <2>2
    <3>5. Tail(Queue)[i] = Queue[i + 1]
      BY <1>1, <1>4, <3>4
    <3> QED
      BY <3>3, <3>5
  <2> QED
    BY <1>2, <2>2, <2>3
<1>6. task[w] = 0
  BY Distinct DEF Inv, Take, TypeOK, PlaceInv, Threads
<1> QED
  BY <1>4, <1>5, <1>6 DEF Promise!Get, Take

\* Submitting a task appends it to the sequence.
LEMMA SubmitRefines ==
  ASSUME Inv, Inv', Submit
  PROVE  Promise!Put
<1>1. /\ Queue \in Seq(Tasks) /\ Len(Queue) = count
      /\ \A i \in 1..count : Queue[i] = tasks[Slot(i)]
  BY QueueIsSeq DEF RingIsSeq
<1>2. /\ Queue' \in Seq(Tasks) /\ Len(Queue') = count'
      /\ \A i \in 1..count' : Queue'[i] = tasks'[Slot(i)']
  <2>1. RingIsSeq'
    BY QueueIsSeq, PTL
  <2> QED
    BY <2>1 DEF RingIsSeq
<1>3. /\ Slot(count + 1) = tail
      /\ \A i \in 1..count' : Slot(i)' = Slot(i) /\ Slot(i) \in Slots
      /\ \A i \in 1..count : Slot(i) # tail
  BY SubmitSlots DEF Inv
<1>4. next \in Tasks /\ count' = count + 1 /\ count \in Nat
  BY PoolAssumption, Distinct
  DEF Inv, Submit, TypeOK, PlaceInv, Threads, Tasks
<1>5. Queue' = Append(Queue, next)
  <2>1. /\ Append(Queue, next) \in Seq(Tasks)
        /\ Len(Append(Queue, next)) = count'
    BY <1>1, <1>4
  <2>2. ASSUME NEW i \in 1..count'
        PROVE  Queue'[i] = Append(Queue, next)[i]
    <3>1. CASE i = count + 1
      <4>1. Queue'[i] = next
        BY <1>2, <1>3, <3>1 DEF Submit, Inv, TypeOK
      <4> QED
        BY <1>1, <1>4, <3>1, <4>1
    <3>2. CASE i # count + 1
      <4>1. i \in 1..count
        BY <1>4, <3>2
      <4>2. Queue'[i] = Queue[i]
        BY <1>1, <1>2, <1>3, <4>1 DEF Submit, Inv, TypeOK
      <4> QED
        BY <1>1, <1>4, <4>1, <4>2
    <3> QED
      BY <3>1, <3>2
  <2> QED
    BY <1>2, <2>1, <2>2
<1>6. next - 1 < NTasks /\ next' - 1 = (next - 1) + 1 /\ next = (next - 1) + 1
  BY <1>4, PoolAssumption DEF Submit, Tasks
<1>7. Len(Queue) < Size
  BY <1>1 DEF Submit
<1> QED
  BY <1>5, <1>6, <1>7 DEF Promise!Put, Submit

\* The steps that leave the ring and the tasks alone are no steps of the queue.
LEMMA OthersStutter ==
  ASSUME UNCHANGED <<tasks, head, count, next, task, finished>>
  PROVE  UNCHANGED Promise!vars
BY DEF Promise!vars, Queue

\* Running a task finishes it.
LEMMA RunRefines ==
  ASSUME Inv, NEW w \in Workers, Run(w)
  PROVE  Promise!Finish(w)
<1>1. task[w] # 0
  BY DEF Inv, PlaceInv, Run
<1>2. Queue' = Queue
  BY DEF Run, ring, Queue
<1> QED
  BY <1>1, <1>2 DEF Promise!Finish, Run

\* The pool is a bounded first-in first-out queue: every task is handed to one
\* worker, in the order of submission, for every number of workers and tasks.
THEOREM PoolIsQueue == Spec => Implements
<1>1. Init => Promise!Init
  <2> SUFFICES ASSUME Init PROVE Promise!Init
    OBVIOUS
  <2>1. count = 0
    BY DEF Init
  <2>2. Queue = <<>>
    BY <2>1, InitInv, QueueIsSeq DEF RingIsSeq
  <2> QED
    BY <2>2 DEF Init, Promise!Init
<1>2. Inv /\ Inv' /\ [Next]_vars => [Promise!Next]_(Promise!vars)
  <2> SUFFICES ASSUME Inv, Inv', [Next]_vars
               PROVE  [Promise!Next]_(Promise!vars)
    OBVIOUS
  <2>1. ASSUME NEW w \in Workers, Take(w)
        PROVE  Promise!Next
    BY <2>1, TakeRefines DEF Promise!Next
  <2>2. CASE Submit
    BY <2>2, SubmitRefines DEF Promise!Next
  <2>3. ASSUME NEW w \in Workers, Run(w)
        PROVE  Promise!Next
    BY <2>3, RunRefines DEF Promise!Next
  <2>4. ASSUME NEW w \in Workers, Create(w) \/ WaitNotEmpty(w)
        PROVE  UNCHANGED Promise!vars
    BY <2>4, OthersStutter DEF Create, WaitNotEmpty, ring
  <2>5. ASSUME NEW t \in Threads, Acquire(t) \/ WakeUp(t)
        PROVE  UNCHANGED Promise!vars
    BY <2>5, OthersStutter DEF Acquire, WakeUp, ring
  <2>6. CASE WaitNotFull \/ Return \/ UNCHANGED vars
    BY <2>6, OthersStutter DEF WaitNotFull, Return, vars, ring
  <2> QED
    BY <2>1, <2>2, <2>3, <2>4, <2>5, <2>6 DEF Next, WorkerStep, MainStep
<1> QED
  BY <1>1, <1>2, InvCorrect, PTL DEF Spec, Implements, Promise!Spec

-----------------------------------------------------------------------------
(* No task is lost, and none is run twice. *)

\* How many tasks have left the queue.
Gone == next - 1 - Len(Queue)

\* The tasks that wait are the last ones, in order; those before them are
\* finished or each run by one worker.
OnceInv ==
  /\ Queue \in Seq(Nat) /\ next - 1 \in Nat /\ Gone \in Nat
  /\ \A i \in 1..Len(Queue) : Queue[i] = Gone + i
  /\ task \in [Workers -> 0..Gone]
  /\ finished \subseteq 1..Gone
  /\ \A w \in Workers : task[w] \notin finished
  /\ \A v, w \in Workers : task[v] = task[w] /\ task[v] # 0 => v = w
  /\ \A n \in 1..Gone : n \in finished \/ \E w \in Workers : task[w] = n

\* It holds of the promise at first.
LEMMA OnceBegins == Promise!Init => OnceInv
<1> SUFFICES ASSUME Promise!Init PROVE OnceInv
  OBVIOUS
<1>1. Queue = <<>> /\ next - 1 = 0 /\ finished = {} /\ task = [w \in Workers |-> 0]
  BY DEF Promise!Init
<1>2. Queue \in Seq(Nat) /\ Len(Queue) = 0
  BY <1>1
<1> QED
  BY <1>1, <1>2 DEF OnceInv, Gone

\* The queue changes at its ends, and as the queue of the promise does.
LEMMA OnceStep == OnceInv /\ [Promise!Next]_(Promise!vars) => OnceInv'
<1> SUFFICES ASSUME OnceInv, [Promise!Next]_(Promise!vars) PROVE OnceInv'
  OBVIOUS
<1> USE DEF OnceInv
<1>1. CASE UNCHANGED Promise!vars
  <2>1. Queue' = Queue /\ next' - 1 = next - 1 /\ task' = task /\ finished' = finished
    BY <1>1 DEF Promise!vars
  <2>2. Gone' = Gone
    BY <2>1 DEF Gone
  <2> QED
    BY <2>1, <2>2
<1>2. CASE Promise!Put
  <2>1. /\ Queue' = Append(Queue, next - 1 + 1) /\ next' - 1 = next - 1 + 1
        /\ task' = task /\ finished' = finished
    BY <1>2 DEF Promise!Put
  <2>2. /\ Queue' \in Seq(Nat) /\ Len(Queue') = Len(Queue) + 1
        /\ \A i \in 1..Len(Queue) : Queue'[i] = Queue[i]
        /\ Queue'[Len(Queue) + 1] = next - 1 + 1
    BY <2>1
  <2>3. Gone' = Gone
    BY <2>1, <2>2 DEF Gone
  <2>4. ASSUME NEW i \in 1..Len(Queue') PROVE Queue'[i] = Gone' + i
    <3>1. CASE i = Len(Queue) + 1
      BY <2>2, <2>3, <3>1 DEF Gone
    <3>2. CASE i # Len(Queue) + 1
      <4>1. i \in 1..Len(Queue)
        BY <2>2, <3>2
      <4> QED
        BY <2>2, <2>3, <4>1
    <3> QED
      BY <3>1, <3>2
  <2> QED
    BY <2>1, <2>2, <2>3, <2>4
<1>3. ASSUME NEW w \in Workers, Promise!Get(w)
      PROVE  OnceInv'
  <2>1. /\ Queue # <<>> /\ task[w] = 0
        /\ task' = [task EXCEPT ![w] = Head(Queue)]
        /\ Queue' = Tail(Queue) /\ next' - 1 = next - 1 /\ finished' = finished
    BY <1>3 DEF Promise!Get
  <2>2. /\ Queue' \in Seq(Nat) /\ Len(Queue') = Len(Queue) - 1 /\ Len(Queue) \in Nat
        /\ Len(Queue) > 0 /\ Head(Queue) = Queue[1]
        /\ \A i \in 1..Len(Queue') : Queue'[i] = Queue[i + 1]
    BY <2>1
  <2>3. Gone' = Gone + 1 /\ Head(Queue) = Gone + 1
    BY <2>1, <2>2 DEF Gone
  <2>4. \A i \in 1..Len(Queue') : Queue'[i] = Gone' + i
    BY <2>2, <2>3
  <2>5. task' = [task EXCEPT ![w] = Gone + 1]
    BY <2>1, <2>3
  <2>6. task' \in [Workers -> 0..Gone'] /\ finished' \subseteq 1..Gone'
    BY <2>1, <2>3, <2>5
  <2>7. /\ \A v \in Workers : task'[v] \notin finished'
        /\ \A v, u \in Workers : task'[v] = task'[u] /\ task'[v] # 0 => v = u
    BY <2>1, <2>5
  <2>8. ASSUME NEW n \in 1..Gone'
        PROVE  n \in finished' \/ \E v \in Workers : task'[v] = n
    <3>1. CASE n = Gone + 1
      BY <2>5, <3>1
    <3>2. CASE n # Gone + 1
      <4>1. n \in 1..Gone
        BY <2>3, <3>2
      <4> QED
        BY <2>1, <2>5, <4>1
    <3> QED
      BY <3>1, <3>2
  <2> HIDE DEF Promise!Get
  <2> QED
    BY <2>1, <2>2, <2>3, <2>4, <2>6, <2>7, <2>8
<1>4. ASSUME NEW w \in Workers, Promise!Finish(w)
      PROVE  OnceInv'
  <2>1. /\ task[w] # 0 /\ finished' = finished \cup {task[w]}
        /\ task' = [task EXCEPT ![w] = 0]
        /\ Queue' = Queue /\ next' - 1 = next - 1
    BY <1>4 DEF Promise!Finish
  <2>2. Gone' = Gone
    BY <2>1 DEF Gone
  <2>3. /\ \A v \in Workers : task'[v] \notin finished'
        /\ \A v, u \in Workers : task'[v] = task'[u] /\ task'[v] # 0 => v = u
    BY <2>1
  <2>4. ASSUME NEW n \in 1..Gone
        PROVE  n \in finished' \/ \E v \in Workers : task'[v] = n
    <3>1. CASE n \in finished'
      BY <3>1
    <3>2. CASE n \notin finished'
      <4>1. n \notin finished /\ n # task[w]
        BY <2>1, <3>2
      <4>2. PICK v \in Workers : task[v] = n
        BY <4>1
      <4> QED
        BY <2>1, <4>1, <4>2
    <3> QED
      BY <3>1, <3>2
  <2>5. task' \in [Workers -> 0..Gone] /\ finished' \subseteq 1..Gone
    <3>1. 0 \in 0..Gone /\ task[w] \in 1..Gone
      <4>1. task[w] \in 0..Gone
        OBVIOUS
      <4> QED
        BY <2>1, <4>1
    <3>2. task' \in [Workers -> 0..Gone]
      BY <2>1, <3>1
    <3> QED
      BY <2>1, <3>1, <3>2
  <2> QED
    BY <2>1, <2>2, <2>3, <2>4, <2>5
<1> QED
  BY <1>1, <1>2, <1>3, <1>4 DEF Promise!Next

\* A task that was submitted waits in one slot, or one worker runs it, or it has run.
EachOnce ==
  \A n \in 1..(next - 1) :
    LET waiting == {i \in DOMAIN Queue : Queue[i] = n}
        running == {w \in Workers : task[w] = n}
    IN  \/ Cardinality(waiting) = 1 /\ running = {} /\ n \notin finished
        \/ waiting = {} /\ Cardinality(running) = 1 /\ n \notin finished
        \/ waiting = {} /\ running = {} /\ n \in finished

\* What is known of the order is enough for it.
LEMMA OnceSuffices == OnceInv => EachOnce
<1> SUFFICES ASSUME OnceInv, NEW n \in 1..(next - 1)
    PROVE  LET waiting == {i \in DOMAIN Queue : Queue[i] = n}
               running == {w \in Workers : task[w] = n}
           IN  \/ Cardinality(waiting) = 1 /\ running = {} /\ n \notin finished
               \/ waiting = {} /\ Cardinality(running) = 1 /\ n \notin finished
               \/ waiting = {} /\ running = {} /\ n \in finished
  BY DEF EachOnce
<1> DEFINE waiting == {i \in DOMAIN Queue : Queue[i] = n}
           running == {w \in Workers : task[w] = n}
<1>0. DOMAIN Queue = 1..Len(Queue) /\ Len(Queue) \in Nat /\ next - 1 = Gone + Len(Queue)
  BY DEF OnceInv, Gone
<1>1. CASE n > Gone
  <2>1. waiting = {n - Gone}
    <3>1. n - Gone \in 1..Len(Queue)
      BY <1>0, <1>1 DEF OnceInv
    <3>2. \A i \in 1..Len(Queue) : Queue[i] = n <=> i = n - Gone
      BY <1>0 DEF OnceInv
    <3> QED
      BY <1>0, <3>1, <3>2
  <2>2. running = {} /\ n \notin finished
    BY <1>0, <1>1 DEF OnceInv
  <2> QED
    BY <2>1, <2>2, FS_Singleton
<1>2. CASE n <= Gone /\ n \in finished
  BY <1>0, <1>2 DEF OnceInv
<1>3. CASE n <= Gone /\ n \notin finished
  <2>1. n \in 1..Gone /\ n # 0
    BY <1>0, <1>3 DEF OnceInv
  <2>2. PICK w \in Workers : task[w] = n
    BY <1>3, <2>1 DEF OnceInv
  <2>3. running = {w}
    BY <2>1, <2>2 DEF OnceInv
  <2>4. waiting = {}
    BY <1>0, <2>1 DEF OnceInv
  <2> QED
    BY <1>3, <2>3, <2>4, FS_Singleton
<1> QED
  BY <1>0, <1>1, <1>2, <1>3 DEF OnceInv

\* Each task that main() has submitted waits in the ring once, or is run by one
\* worker, or has been run: none is lost and none is run twice.
THEOREM TasksRunOnce == Spec => []EachOnce
<1>1. Promise!Spec => []OnceInv
  BY OnceBegins, OnceStep, PTL DEF Promise!Spec
<1> QED
  BY <1>1, OnceSuffices, PoolIsQueue, PTL DEF Implements

-----------------------------------------------------------------------------
(* No wakeup is lost. *)

\* The awake workers are finitely many, and not fewer when there are more.
LEMMA AwakeFinite ==
  ASSUME NEW S \in SUBSET Workers
  PROVE  /\ IsFiniteSet(S) /\ Cardinality(S) \in Nat
         /\ \A R \in SUBSET S : Cardinality(R) <= Cardinality(S)
<1>1. IsFiniteSet(S)
  BY PoolAssumption, FS_Subset
<1> QED
  BY <1>1, FS_CardinalityType, FS_Subset

\* A step that wakes workers, or none, and adds no task.
LEMMA MoreAwake ==
  ASSUME Inv, NoIdleWorker, Awake \subseteq Awake', notEmpty' \subseteq notEmpty,
         count' = count
  PROVE  NoIdleWorker'
<1>1. Awake \in SUBSET Workers /\ Awake' \in SUBSET Workers
  BY DEF Awake
<1>2. Cardinality(Awake) <= Cardinality(Awake')
  BY <1>1, AwakeFinite
<1>3. Cardinality(Awake) \in Nat /\ Cardinality(Awake') \in Nat /\ count \in Nat
  BY <1>1, AwakeFinite, PoolAssumption DEF Inv, TypeOK
<1> QED
  BY <1>2, <1>3 DEF NoIdleWorker

\* Every step keeps the workers awake that the tasks in the ring need.
LEMMA AwakeStep == Inv /\ NoIdleWorker /\ [Next]_vars => NoIdleWorker'
<1> SUFFICES ASSUME Inv, NoIdleWorker, [Next]_vars PROVE NoIdleWorker'
  OBVIOUS
<1> USE Distinct
<1>0. Awake \in SUBSET Workers /\ Awake' \in SUBSET Workers
  BY DEF Awake
<1>1. ASSUME NEW w \in Workers, Create(w)
      PROVE  NoIdleWorker'
  BY <1>1, MoreAwake DEF Create, ring, Awake, Inv, TypeOK, Threads
<1>2. ASSUME NEW t \in Threads, Acquire(t) \/ WakeUp(t)
      PROVE  NoIdleWorker'
  BY <1>2, MoreAwake DEF Acquire, WakeUp, Go, ring, Awake, Inv, TypeOK, Threads
<1>3. ASSUME NEW w \in Workers, WaitNotEmpty(w)
      PROVE  NoIdleWorker'
  BY <1>0, <1>3, AwakeFinite DEF WaitNotEmpty, ring, NoIdleWorker
<1>4. ASSUME NEW w \in Workers, Run(w)
      PROVE  NoIdleWorker'
  BY <1>4, MoreAwake DEF Run, Go, ring, Awake, Inv, TypeOK, Threads
<1>5. CASE WaitNotFull \/ Return
  BY <1>5, MoreAwake
  DEF WaitNotFull, Return, Go, ring, Awake, Inv, TypeOK, Threads
<1>6. CASE UNCHANGED vars
  BY <1>6, MoreAwake DEF vars, ring, Awake
<1>7. ASSUME NEW w \in Workers, Take(w)
      PROVE  NoIdleWorker'
  <2>1. w \in Awake
    BY <1>7 DEF Take, Awake, Inv, TypeOK, Threads
  <2>2. PICK W \in Woken(notFull) : Go(w, "run", W)
    BY <1>7 DEF Take
  <2>3. W \subseteq {Main}
    BY <2>2, WokenWait DEF Inv, TypeOK
  <2>4. Awake' = Awake \ {w}
    BY <2>2, <2>3 DEF Go, Awake, Inv, TypeOK, Threads
  <2>5. Cardinality(Awake') = Cardinality(Awake) - 1
    BY <1>0, <2>1, <2>4, AwakeFinite, FS_RemoveElement
  <2>6. count \in Nat /\ count' = count - 1 /\ notEmpty' = notEmpty
    BY <1>7, PoolAssumption DEF Take, Inv, TypeOK
  <2>7. Cardinality(Awake) \in Nat
    BY <1>0, AwakeFinite
  <2> QED
    BY <2>5, <2>6, <2>7 DEF NoIdleWorker
<1>8. CASE Submit
  <2>1. PICK W \in Woken(notEmpty) :
          /\ notEmpty' = notEmpty \ W
          /\ Go(Main, IF next = NTasks THEN "sleep" ELSE "lock", W)
    BY <1>8 DEF Submit
  <2>2. CASE notEmpty = {}
    BY <2>1, <2>2 DEF NoIdleWorker
  <2>3. CASE notEmpty # {}
    <3>1. PICK t \in notEmpty : W = {t}
      BY <2>1, <2>3 DEF Woken
    <3>2. t \in Workers /\ t \notin Awake
      BY <3>1 DEF Awake, Inv, TypeOK
    <3>3. Awake' = Awake \cup {t}
      BY <2>1, <3>1, <3>2 DEF Go, Awake, Inv, TypeOK, Threads
    <3>4. Cardinality(Awake') = Cardinality(Awake) + 1
      BY <1>0, <3>2, <3>3, AwakeFinite, FS_AddElement
    <3>5. count \in Nat /\ count' = count + 1
      BY <1>8, PoolAssumption DEF Submit, Inv, TypeOK
    <3>6. Cardinality(Awake) \in Nat
      BY <1>0, AwakeFinite
    <3> QED
      BY <2>3, <3>4, <3>5, <3>6 DEF NoIdleWorker
  <2> QED
    BY <2>2, <2>3
<1> QED
  BY <1>1, <1>2, <1>3, <1>4, <1>5, <1>6, <1>7, <1>8
  DEF Next, WorkerStep, MainStep

\* No worker sleeps through a task: pthread_cond_signal() once per submitted
\* task is enough for every number of workers, spurious wakeups or not.
THEOREM NoLostWakeup == Spec => []NoIdleWorker
<1>1. Init => NoIdleWorker
  BY DEF Init, NoIdleWorker
<1> QED
  BY <1>1, AwakeStep, InvCorrect, PTL DEF Spec
=============================================================================
