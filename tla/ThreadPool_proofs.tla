-------------------------- MODULE ThreadPool_proofs --------------------------
(***************************************************************************)
(* Proofs about ThreadPool for any finite sets of workers and callers, any  *)
(* tasks and any size of the ring.                                          *)
(***************************************************************************)
EXTENDS ThreadPool, Integers, FiniteSetTheorems, SequenceTheorems, TLAPS

(* The ring.                                                                *)

\* Positions run on past the end of the ring, at most once around it.
LEMMA Wraps ==
    ASSUME NEW i \in 0 .. 2 * maxQueueSize - 1
    PROVE  /\ i % maxQueueSize = IF i < maxQueueSize THEN i ELSE i - maxQueueSize
           /\ i % maxQueueSize \in Slots
  BY ConstantsAssumption DEF Slots

\* The next slot, and from the last the first.
LEMMA AdvanceIs ==
    ASSUME NEW i \in Slots
    PROVE  /\ Advance(i) \in Slots
           /\ Advance(i) = IF i + 1 = maxQueueSize THEN 0 ELSE i + 1
  BY ConstantsAssumption DEF Slots, Advance

\* pthread_cond_signal wakes exactly one thread, if one waits.
LEMMA SignalWakes ==
    ASSUME NEW waiting, NEW rest \in Signalled(waiting)
    PROVE  /\ rest \subseteq waiting
           /\ rest # {} => \E thread \in waiting : rest = waiting \ {thread}
  BY DEF Signalled

-----------------------------------------------------------------------------
(* The inductive invariant.                                                 *)

\* tail is where the tasks from head on end, which tells full from empty.
RingShape == tail = (head + currentSize) % maxQueueSize

\* The slots from head on hold tasks.
SlotsHoldTasks == \A i \in 1..currentSize : Queue[i] \in Tasks

\* A worker has a task exactly while it executes it.
TaskIffExecuting == \A w \in Workers : task[w] # NoTask <=> worker[w] = "execute"

\* The inductive invariant.
IInv == TypeOK /\ RingShape /\ SlotsHoldTasks /\ TaskIffExecuting /\ NoSignalLost

\* What the types say of the ring.
LEMMA RingType ==
    ASSUME TypeOK
    PROVE  /\ head \in Slots /\ tail \in Slots
           /\ taskQueue \in [Slots -> Tasks \cup {NoTask}]
           /\ currentSize \in Nat /\ currentSize <= maxQueueSize
<1>1. /\ head \in Slots /\ tail \in Slots
      /\ taskQueue \in [Slots -> Tasks \cup {NoTask}]
      /\ currentSize \in 0..maxQueueSize
    BY Zenon DEF TypeOK
<1>2. currentSize \in Nat /\ currentSize <= maxQueueSize
    BY <1>1, ConstantsAssumption
<1> QED
    BY <1>1, <1>2

\* With the indices where they should be, the tests of run() and take() are
\* tests of the number of tasks.
LEMMA RingTests ==
    ASSUME TypeOK, RingShape
    PROVE  /\ IsEmpty <=> currentSize = 0
           /\ IsFull <=> currentSize = maxQueueSize
<1>1. /\ head \in Slots /\ tail \in Slots
      /\ currentSize \in Nat /\ currentSize <= maxQueueSize
    BY RingType
<1>2. /\ head \in Nat /\ head < maxQueueSize /\ maxQueueSize \in Nat \ {0}
      /\ head + currentSize \in 0 .. 2 * maxQueueSize - 1
    BY <1>1, ConstantsAssumption DEF Slots
<1>3. tail = IF head + currentSize < maxQueueSize
                THEN head + currentSize ELSE (head + currentSize) - maxQueueSize
    BY <1>2, Wraps, Zenon DEF RingShape
<1> QED
    BY <1>1, <1>2, <1>3 DEF IsEmpty, IsFull

-----------------------------------------------------------------------------
(* Types.                                                                   *)

\* run() stores into a slot of the ring.
LEMMA PutType ==
    ASSUME TypeOK, RingShape, NEW c \in Callers, Put(c)
    PROVE  TypeOK'
<1>1. currentSize # maxQueueSize
    BY RingTests DEF Put
<1>2. currentSize' \in 0..maxQueueSize
    BY <1>1, RingType, ConstantsAssumption DEF Put
<1>3. tail' \in Slots
    BY RingType, AdvanceIs DEF Put
<1>4. notEmpty' \subseteq notEmpty
    BY SignalWakes DEF Put
<1> QED
    BY <1>2, <1>3, <1>4 DEF Put, TypeOK

\* take() empties a slot of the ring.
LEMMA TakeType ==
    ASSUME TypeOK, RingShape, NEW w \in Workers, Take(w)
    PROVE  TypeOK'
<1>1. currentSize # 0
    BY RingTests DEF Take
<1>2. currentSize' \in 0..maxQueueSize
    BY <1>1, RingType, ConstantsAssumption DEF Take
<1>3. head' \in Slots
    BY RingType, AdvanceIs DEF Take
<1>4. notFull' \subseteq notFull
    BY SignalWakes DEF Take
<1> QED
    BY <1>2, <1>3, <1>4 DEF Take, TypeOK

\* Every step of a worker or a caller keeps the types.
LEMMA TypeStep == IInv /\ [Next]_vars => TypeOK'
<1> SUFFICES ASSUME IInv, [Next]_vars PROVE TypeOK'
    OBVIOUS
<1> USE ConstantsAssumption DEF TypeOK, ring
<1>0. TypeOK /\ RingShape
    BY DEF IInv
<1>1. ASSUME NEW c \in Callers, NEW t \in Tasks, Run(c, t) PROVE TypeOK'
    BY <1>0, <1>1 DEF Run
<1>2. ASSUME NEW c \in Callers, WaitNotFull(c) PROVE TypeOK'
    BY <1>0, <1>2 DEF WaitNotFull
<1>3. ASSUME NEW c \in Callers, Put(c) PROVE TypeOK'
    BY <1>0, <1>3, PutType
<1>4. ASSUME NEW w \in Workers, TestRunning(w) PROVE TypeOK'
    BY <1>0, <1>4 DEF TestRunning
<1>5. ASSUME NEW w \in Workers, WaitNotEmpty(w) PROVE TypeOK'
    BY <1>0, <1>5 DEF WaitNotEmpty
<1>6. ASSUME NEW w \in Workers, Take(w) PROVE TypeOK'
    BY <1>0, <1>6, TakeType
<1>7. ASSUME NEW w \in Workers, TakeNothing(w) PROVE TypeOK'
    BY <1>0, <1>7 DEF TakeNothing
<1>8. ASSUME NEW w \in Workers, Execute(w) PROVE TypeOK'
    BY <1>0, <1>8 DEF Execute
<1>9. CASE SpuriousWakeup
    BY <1>0, <1>9 DEF SpuriousWakeup
<1>10. CASE Stop
    BY <1>0, <1>10 DEF Stop
<1>11. CASE Joined
    BY <1>0, <1>11 DEF Joined
<1>12. CASE UNCHANGED vars
    BY <1>0, <1>12 DEF vars
<1> QED
    BY <1>1, <1>2, <1>3, <1>4, <1>5, <1>6, <1>7, <1>8, <1>9, <1>10, <1>11,
       <1>12 DEF Next, CallerStep, WorkerStep

-----------------------------------------------------------------------------
(* The ring is a queue.                                                     *)

\* What the ring holds, read from head on, is a sequence of currentSize tasks.
LEMMA QueueType ==
    ASSUME TypeOK, SlotsHoldTasks
    PROVE  Queue \in Seq(Tasks) /\ Len(Queue) = currentSize
<1>1. currentSize \in Nat
    BY RingType
<1>2. DOMAIN Queue = 1..currentSize /\ Queue \in [1..currentSize -> Tasks]
    BY DEF Queue, SlotsHoldTasks
<1> QED
    BY <1>1, <1>2

\* Storing at tail appends to the queue.
LEMMA PutAppends ==
    ASSUME IInv, NEW c \in Callers, Put(c)
    PROVE  Queue' = Append(Queue, calling[c]) /\ calling[c] \in Tasks
<1> USE ConstantsAssumption
<1>0. /\ TypeOK /\ RingShape /\ SlotsHoldTasks
      /\ head \in Slots /\ tail \in Slots /\ currentSize \in Nat
      /\ taskQueue \in [Slots -> Tasks \cup {NoTask}]
    BY RingType DEF IInv
<1>1. calling[c] \in Tasks
    BY <1>0 DEF Put, TypeOK
<1>2. currentSize < maxQueueSize
    BY <1>0, RingType, RingTests DEF Put
<1>3. /\ taskQueue' = [taskQueue EXCEPT ![tail] = calling[c]]
      /\ currentSize' = currentSize + 1 /\ head' = head
    BY DEF Put
<1>4. Queue \in Seq(Tasks) /\ Len(Queue) = currentSize
    BY <1>0, QueueType
<1>5. ASSUME NEW i \in 1..(currentSize + 1)
      PROVE  Queue'[i] = Append(Queue, calling[c])[i]
  <2> DEFINE x == head + i - 1
             slot == x % maxQueueSize
  <2>0. x \in 0 .. 2 * maxQueueSize - 1
      BY <1>0, <1>2 DEF Slots
  <2>a. /\ slot = IF x < maxQueueSize THEN x ELSE x - maxQueueSize
        /\ slot \in Slots
      BY <2>0, Wraps, Zenon
  <2>1. Queue'[i] = taskQueue'[slot]
      BY <1>3 DEF Queue
  <2>3. CASE i = currentSize + 1
    <3>1. slot = tail
        BY <1>0, <2>3 DEF RingShape
    <3> QED
        BY <1>0, <1>3, <1>4, <2>1, <2>3, <3>1
  <2>4. CASE i # currentSize + 1
    <3>1. i \in 1..currentSize
        BY <1>0, <2>4
    <3>2. slot # tail
      <4> DEFINE y == head + currentSize
      <4>1. y \in 0 .. 2 * maxQueueSize - 1
          BY <1>0, <1>2 DEF Slots
      <4>2. tail = IF y < maxQueueSize THEN y ELSE y - maxQueueSize
          BY <1>0, <4>1, Wraps, Zenon DEF RingShape
      <4> QED
          BY <1>0, <1>2, <2>a, <3>1, <4>2 DEF Slots
    <3>3. Queue[i] = taskQueue[slot]
        BY <3>1 DEF Queue
    <3> QED
        BY <1>0, <1>3, <1>4, <2>1, <2>a, <3>1, <3>2, <3>3
  <2> QED
      BY <2>3, <2>4
<1>6. DOMAIN Queue' = 1..(currentSize + 1)
    BY <1>3 DEF Queue
<1>7. Queue' = [i \in 1..(currentSize + 1) |-> Append(Queue, calling[c])[i]]
    BY <1>5, <1>6 DEF Queue
<1>8. /\ Append(Queue, calling[c]) \in Seq(Tasks)
      /\ Len(Append(Queue, calling[c])) = currentSize + 1
    BY <1>1, <1>4, AppendProperties
<1> QED
    BY <1>0, <1>1, <1>7, <1>8

\* Emptying the slot at head takes the first of the queue.
LEMMA TakeRemoves ==
    ASSUME IInv, NEW w \in Workers, Take(w)
    PROVE  /\ Queue # <<>> /\ Queue' = Tail(Queue)
           /\ taskQueue[head] = Head(Queue) /\ taskQueue[head] \in Tasks
<1> USE ConstantsAssumption
<1>0. /\ TypeOK /\ RingShape /\ SlotsHoldTasks
      /\ head \in Slots /\ tail \in Slots
      /\ currentSize \in Nat /\ currentSize <= maxQueueSize
      /\ taskQueue \in [Slots -> Tasks \cup {NoTask}]
    BY RingType DEF IInv
<1>1. currentSize > 0
    BY <1>0, RingType, RingTests DEF Take
<1>2. /\ taskQueue' = [taskQueue EXCEPT ![head] = NoTask]
      /\ currentSize' = currentSize - 1 /\ head' = Advance(head)
    BY DEF Take
<1>3. Queue \in Seq(Tasks) /\ Len(Queue) = currentSize
    BY <1>0, QueueType
<1>4. Queue[1] = taskQueue[head]
  <2>1. (head + 1 - 1) % maxQueueSize = head /\ 1 \in 1..currentSize
      BY <1>0, <1>1, Wraps DEF Slots
  <2> QED
      BY <2>1 DEF Queue
<1>5. Queue # <<>> /\ taskQueue[head] = Head(Queue) /\ taskQueue[head] \in Tasks
    BY <1>1, <1>3, <1>4
<1>6. ASSUME NEW i \in 1..(currentSize - 1)
      PROVE  Queue'[i] = Queue[i + 1]
  <2> DEFINE x == head + (i + 1) - 1
             y == head' + i - 1
             slot == x % maxQueueSize
  <2>0. head' = IF head + 1 = maxQueueSize THEN 0 ELSE head + 1
      BY <1>0, <1>2, AdvanceIs
  <2>a. x \in 0 .. 2 * maxQueueSize - 1 /\ y \in 0 .. 2 * maxQueueSize - 1
      BY <1>0, <2>0 DEF Slots
  <2>b. /\ slot = IF x < maxQueueSize THEN x ELSE x - maxQueueSize
        /\ y % maxQueueSize = IF y < maxQueueSize THEN y ELSE y - maxQueueSize
        /\ slot \in Slots
      BY <2>a, Wraps, Zenon
  <2>1. y % maxQueueSize = slot
      BY <1>0, <2>0, <2>b DEF Slots
  <2>2. Queue'[i] = taskQueue'[slot] /\ Queue[i + 1] = taskQueue[slot]
      BY <1>0, <1>2, <2>1 DEF Queue
  <2>3. slot # head
      BY <1>0, <2>b DEF Slots
  <2> QED
      BY <1>0, <1>2, <2>b, <2>2, <2>3
<1>7. Queue' \in Seq(Tasks) /\ Len(Queue') = currentSize - 1
  <2>1. Queue' = [i \in 1..(currentSize - 1) |-> Queue[i + 1]]
      BY <1>2, <1>6 DEF Queue
  <2>2. \A i \in 1..(currentSize - 1) : Queue[i + 1] \in Tasks
      BY <1>0 DEF SlotsHoldTasks
  <2>3. Queue' \in [1..(currentSize - 1) -> Tasks] /\ currentSize - 1 \in Nat
      BY <1>0, <1>1, <2>1, <2>2
  <2> QED
      BY <2>3
<1>8. /\ Tail(Queue) \in Seq(Tasks) /\ Len(Tail(Queue)) = currentSize - 1
      /\ \A i \in 1..(currentSize - 1) : Tail(Queue)[i] = Queue[i + 1]
    BY <1>3, <1>5, HeadTailProperties
<1>9. Queue' = Tail(Queue)
    BY <1>6, <1>7, <1>8, SeqEqual
<1> QED
    BY <1>5, <1>9

-----------------------------------------------------------------------------
(* The rest of the invariant, part by part.                                 *)

\* The actions that leave the ring and the tasks executed alone.
Idle ==
    \/ \E c \in Callers, t \in Tasks : Run(c, t)
    \/ \E c \in Callers : WaitNotFull(c)
    \/ \E w \in Workers : TestRunning(w) \/ WaitNotEmpty(w) \/ TakeNothing(w)
    \/ SpuriousWakeup \/ Stop \/ Joined \/ UNCHANGED vars

\* The steps that only wait, wake or run leave the ring alone.
LEMMA IdleLeaves == Idle => UNCHANGED <<ring, task>>
  BY DEF Idle, Run, WaitNotFull, TestRunning, WaitNotEmpty, TakeNothing,
         SpuriousWakeup, Stop, Joined, vars, ring

\* A step stores a task, takes one, finishes one, or leaves the ring alone.
LEMMA NextCases ==
    ASSUME [Next]_vars
    PROVE  \/ Idle
           \/ \E c \in Callers : Put(c)
           \/ \E w \in Workers : Take(w)
           \/ \E w \in Workers : Execute(w)
  BY DEF Next, CallerStep, WorkerStep, Idle

\* tail stays currentSize tasks ahead of head, modulo the ring.
LEMMA RingStep == IInv /\ [Next]_vars => RingShape'
<1> SUFFICES ASSUME IInv, [Next]_vars PROVE RingShape'
    OBVIOUS
<1>0. /\ TypeOK /\ RingShape
      /\ head \in Nat /\ head < maxQueueSize /\ head \in Slots /\ tail \in Slots
      /\ currentSize \in Nat /\ currentSize <= maxQueueSize
      /\ maxQueueSize \in Nat \ {0}
    BY RingType, ConstantsAssumption DEF IInv, Slots
<1> DEFINE y == head + currentSize
<1>y. /\ y \in 0 .. 2 * maxQueueSize - 1
      /\ tail = IF y < maxQueueSize THEN y ELSE y - maxQueueSize
  <2>1. y \in 0 .. 2 * maxQueueSize - 1
      BY <1>0
  <2> QED
      BY <1>0, <2>1, Wraps, Zenon DEF RingShape
<1>1. CASE Idle
    BY <1>0, <1>1, IdleLeaves DEF RingShape, ring
<1>2. ASSUME NEW c \in Callers, Put(c) PROVE RingShape'
  <2>1. currentSize # maxQueueSize
      BY <1>0, <1>2, RingTests DEF Put
  <2>2. tail' = IF tail + 1 = maxQueueSize THEN 0 ELSE tail + 1
      BY <1>0, <1>2, AdvanceIs DEF Put
  <2> DEFINE z == head + (currentSize + 1)
  <2>3. z \in 0 .. 2 * maxQueueSize - 1
      BY <1>0, <2>1
  <2>4. z % maxQueueSize = IF z < maxQueueSize THEN z ELSE z - maxQueueSize
      BY <2>3, Wraps, Zenon
  <2>5. tail' = z % maxQueueSize
      BY <1>0, <1>y, <2>1, <2>2, <2>4
  <2> QED
      BY <1>2, <2>5 DEF Put, RingShape
<1>3. ASSUME NEW w \in Workers, Take(w) PROVE RingShape'
  <2>1. currentSize # 0
      BY <1>0, <1>3, RingTests DEF Take
  <2>2. head' = IF head + 1 = maxQueueSize THEN 0 ELSE head + 1
      BY <1>0, <1>3, AdvanceIs DEF Take
  <2>3. currentSize' = currentSize - 1 /\ tail' = tail
      BY <1>3 DEF Take
  <2> DEFINE z == head' + currentSize'
  <2>4. z \in 0 .. 2 * maxQueueSize - 1
      BY <1>0, <2>1, <2>2, <2>3
  <2>5. z % maxQueueSize = IF z < maxQueueSize THEN z ELSE z - maxQueueSize
      BY <2>4, Wraps, Zenon
  <2>6. tail' = z % maxQueueSize
      BY <1>0, <1>y, <2>1, <2>2, <2>3, <2>5
  <2> QED
      BY <2>6 DEF RingShape
<1>4. ASSUME NEW w \in Workers, Execute(w) PROVE RingShape'
    BY <1>0, <1>4 DEF Execute, RingShape, ring
<1> QED
    BY <1>1, <1>2, <1>3, <1>4, NextCases

\* Only tasks get into the ring, and they come out as they went in.
LEMMA TasksStep == IInv /\ [Next]_vars => SlotsHoldTasks'
<1> SUFFICES ASSUME IInv, [Next]_vars PROVE SlotsHoldTasks'
    OBVIOUS
<1>0. /\ SlotsHoldTasks /\ currentSize \in Nat
      /\ Queue \in Seq(Tasks) /\ Len(Queue) = currentSize
    BY RingType, QueueType DEF IInv
<1>1. ASSUME UNCHANGED ring PROVE SlotsHoldTasks'
    BY <1>0, <1>1 DEF SlotsHoldTasks, Queue, ring
<1>2. ASSUME NEW c \in Callers, Put(c) PROVE SlotsHoldTasks'
  <2>1. Queue' = Append(Queue, calling[c]) /\ calling[c] \in Tasks
      BY <1>2, PutAppends
  <2>2. currentSize' = currentSize + 1
      BY <1>2 DEF Put
  <2>3. \A i \in 1..(currentSize + 1) : Append(Queue, calling[c])[i] \in Tasks
      BY <1>0, <2>1
  <2> QED
      BY <2>1, <2>2, <2>3 DEF SlotsHoldTasks
<1>3. ASSUME NEW w \in Workers, Take(w) PROVE SlotsHoldTasks'
  <2>1. Queue # <<>> /\ Queue' = Tail(Queue)
      BY <1>3, TakeRemoves
  <2>2. currentSize' = currentSize - 1
      BY <1>3 DEF Take
  <2>3. \A i \in 1..(currentSize - 1) : Tail(Queue)[i] \in Tasks
      BY <1>0, <2>1, HeadTailProperties
  <2> QED
      BY <2>1, <2>2, <2>3 DEF SlotsHoldTasks
<1>4. ASSUME NEW w \in Workers, Execute(w) PROVE SlotsHoldTasks'
    BY <1>1, <1>4 DEF Execute
<1> QED
    BY <1>1, <1>2, <1>3, <1>4, NextCases, IdleLeaves

\* take() gives the worker a task, and the worker forgets it when it is done.
LEMMA ExecutingStep == IInv /\ [Next]_vars => TaskIffExecuting'
<1> SUFFICES ASSUME IInv, [Next]_vars PROVE TaskIffExecuting'
    OBVIOUS
<1> USE DEF TaskIffExecuting
<1>0. /\ TaskIffExecuting
      /\ DOMAIN worker = Workers /\ DOMAIN task = Workers
    BY DEF IInv, TypeOK
<1>1. ASSUME NEW w \in Workers, TestRunning(w) PROVE TaskIffExecuting'
    BY <1>0, <1>1 DEF TestRunning
<1>2. ASSUME NEW w \in Workers, Take(w) PROVE TaskIffExecuting'
  <2>1. taskQueue[head] # NoTask
      BY <1>2, TakeRemoves, ConstantsAssumption
  <2> QED
      BY <1>0, <1>2, <2>1 DEF Take
<1>3. ASSUME NEW w \in Workers, TakeNothing(w) PROVE TaskIffExecuting'
    BY <1>0, <1>3 DEF TakeNothing
<1>4. ASSUME NEW w \in Workers, Execute(w) PROVE TaskIffExecuting'
    BY <1>0, <1>4 DEF Execute
<1>5. ASSUME \/ \E c \in Callers, t \in Tasks : Run(c, t)
             \/ \E c \in Callers : WaitNotFull(c) \/ Put(c)
             \/ \E w \in Workers : WaitNotEmpty(w)
             \/ SpuriousWakeup \/ Stop \/ Joined \/ UNCHANGED vars
      PROVE  TaskIffExecuting'
  <2>1. UNCHANGED <<worker, task>>
      BY <1>5 DEF Run, WaitNotFull, Put, WaitNotEmpty, SpuriousWakeup, Stop,
                  Joined, vars
  <2> QED
      BY <1>0, <2>1
<1> QED
    BY <1>1, <1>2, <1>3, <1>4, <1>5 DEF Next, CallerStep, WorkerStep

-----------------------------------------------------------------------------
(* Signals.                                                                 *)

\* The threads that are awake are finitely many: they can be counted.
LEMMA AwakeFinite ==
    ASSUME TypeOK
    PROVE  /\ IsFiniteSet(AwakeTakers) /\ Cardinality(AwakeTakers) \in Nat
           /\ IsFiniteSet(AwakeCallers) /\ Cardinality(AwakeCallers) \in Nat
<1>1. AwakeTakers \in SUBSET Workers /\ AwakeCallers \in SUBSET Callers
    BY DEF AwakeTakers, AwakeCallers
<1> QED
    BY <1>1, ConstantsAssumption, FS_Subset, FS_CardinalityType

\* More of them are not fewer of them.
LEMMA AtLeast ==
    ASSUME NEW S, NEW T, IsFiniteSet(T), S \subseteq T
    PROVE  /\ IsFiniteSet(S) /\ Cardinality(S) \in Nat /\ Cardinality(T) \in Nat
           /\ Cardinality(S) <= Cardinality(T)
  BY FS_Subset, FS_CardinalityType

\* Every task put into the queue while workers sleep wakes one of them, and a
\* worker goes to sleep only when there is no task.
LEMMA TakersStep == IInv /\ [Next]_vars => NoTaskUnattended'
<1> SUFFICES ASSUME IInv, [Next]_vars PROVE NoTaskUnattended'
    OBVIOUS
<1> DEFINE awake == Cardinality(AwakeTakers)
<1>0. /\ TypeOK /\ RingShape /\ (notEmpty # {} => currentSize <= awake)
      /\ currentSize \in Nat /\ awake \in Nat /\ IsFiniteSet(AwakeTakers)
    BY RingType, AwakeFinite DEF IInv, NoSignalLost, NoTaskUnattended
<1>f. IsFiniteSet(AwakeTakers') /\ Cardinality(AwakeTakers') \in Nat
  <2>1. AwakeTakers' \in SUBSET Workers
      BY DEF AwakeTakers
  <2> QED
      BY <2>1, ConstantsAssumption, FS_Subset, FS_CardinalityType
<1>t. DOMAIN worker = Workers /\ notEmpty \subseteq {w \in Workers : worker[w] = "take"}
    BY <1>0 DEF TypeOK
<1>1. ASSUME AwakeTakers \subseteq AwakeTakers', currentSize' = currentSize,
             notEmpty' \subseteq notEmpty
      PROVE  NoTaskUnattended'
  <2>1. awake <= Cardinality(AwakeTakers')
      BY <1>1, <1>f, AtLeast
  <2> QED
      BY <1>0, <1>1, <1>f, <2>1 DEF NoTaskUnattended
<1>2. ASSUME \/ \E c \in Callers, t \in Tasks : Run(c, t)
             \/ \E c \in Callers : WaitNotFull(c)
             \/ Joined \/ UNCHANGED vars
      PROVE  NoTaskUnattended'
  <2>1. UNCHANGED <<currentSize, notEmpty, worker>>
      BY <1>2 DEF Run, WaitNotFull, Joined, vars, ring
  <2> QED
      BY <1>1, <2>1 DEF AwakeTakers
<1>3. ASSUME NEW c \in Callers, Put(c) PROVE NoTaskUnattended'
  <2>1. /\ currentSize' = currentSize + 1 /\ worker' = worker
        /\ notEmpty' \in Signalled(notEmpty)
      BY <1>3 DEF Put
  <2>2. CASE notEmpty' = {}
      BY <2>2 DEF NoTaskUnattended
  <2>3. CASE notEmpty' # {}
    <3>1. PICK th \in notEmpty : notEmpty' = notEmpty \ {th}
        BY <2>1, <2>3, SignalWakes
    <3>2. AwakeTakers' = AwakeTakers \cup {th} /\ th \notin AwakeTakers
        BY <1>t, <2>1, <3>1 DEF AwakeTakers
    <3>3. Cardinality(AwakeTakers') = awake + 1
        BY <1>0, <3>2, FS_AddElement
    <3>4. currentSize <= awake
        BY <1>0, <3>1
    <3> QED
        BY <1>0, <2>1, <3>3, <3>4 DEF NoTaskUnattended
  <2> QED
      BY <2>2, <2>3
<1>4. ASSUME NEW w \in Workers, TestRunning(w) PROVE NoTaskUnattended'
  <2>1. /\ currentSize' = currentSize /\ notEmpty' = notEmpty
        /\ worker[w] = "test" /\ \A v \in Workers : v # w => worker'[v] = worker[v]
      BY <1>t, <1>4 DEF TestRunning, ring
  <2>2. AwakeTakers \subseteq AwakeTakers'
      BY <2>1 DEF AwakeTakers
  <2> QED
      BY <1>1, <2>1, <2>2
<1>5. ASSUME NEW w \in Workers, WaitNotEmpty(w) \/ TakeNothing(w)
      PROVE  NoTaskUnattended'
  <2>1. currentSize' = 0
      BY <1>0, <1>5, RingTests DEF WaitNotEmpty, TakeNothing, ring
  <2> QED
      BY <1>f, <2>1 DEF NoTaskUnattended
<1>6. ASSUME NEW w \in Workers, Take(w) PROVE NoTaskUnattended'
  <2>1. /\ currentSize' = currentSize - 1 /\ notEmpty' = notEmpty
        /\ worker[w] = "take" /\ w \notin notEmpty
        /\ worker' = [worker EXCEPT ![w] = "execute"]
      BY <1>6 DEF Take
  <2>2. AwakeTakers' = AwakeTakers \ {w} /\ w \in AwakeTakers
      BY <1>t, <2>1 DEF AwakeTakers
  <2>3. Cardinality(AwakeTakers') = awake - 1
      BY <1>0, <2>2, FS_RemoveElement
  <2> QED
      BY <1>0, <2>1, <2>3 DEF NoTaskUnattended
<1>7. ASSUME NEW w \in Workers, Execute(w) PROVE NoTaskUnattended'
  <2>1. /\ currentSize' = currentSize /\ notEmpty' = notEmpty
        /\ worker[w] = "execute" /\ \A v \in Workers : v # w => worker'[v] = worker[v]
      BY <1>t, <1>7 DEF Execute, ring
  <2>2. AwakeTakers \subseteq AwakeTakers'
      BY <2>1 DEF AwakeTakers
  <2> QED
      BY <1>1, <2>1, <2>2
<1>8. CASE SpuriousWakeup \/ Stop
  <2>1. /\ currentSize' = currentSize /\ worker' = worker /\ notEmpty' \subseteq notEmpty
      BY <1>8 DEF SpuriousWakeup, Stop, ring
  <2>2. AwakeTakers \subseteq AwakeTakers'
      BY <2>1 DEF AwakeTakers
  <2> QED
      BY <1>1, <2>1, <2>2
<1> QED
    BY <1>2, <1>3, <1>4, <1>5, <1>6, <1>7, <1>8 DEF Next, CallerStep, WorkerStep

\* Every slot that becomes free while callers sleep wakes one of them, and a
\* caller goes to sleep only when there is no slot.
LEMMA CallersStep == IInv /\ [Next]_vars => NoSlotUnattended'
<1> SUFFICES ASSUME IInv, [Next]_vars PROVE NoSlotUnattended'
    OBVIOUS
<1> DEFINE awake == Cardinality(AwakeCallers)
<1>0. /\ TypeOK /\ RingShape
      /\ (notFull # {} => maxQueueSize - currentSize <= awake)
      /\ currentSize \in Nat /\ maxQueueSize \in Nat
      /\ awake \in Nat /\ IsFiniteSet(AwakeCallers)
    BY RingType, AwakeFinite, ConstantsAssumption
       DEF IInv, NoSignalLost, NoSlotUnattended
<1>f. IsFiniteSet(AwakeCallers') /\ Cardinality(AwakeCallers') \in Nat
  <2>1. AwakeCallers' \in SUBSET Callers
      BY DEF AwakeCallers
  <2> QED
      BY <2>1, ConstantsAssumption, FS_Subset, FS_CardinalityType
<1>t. DOMAIN calling = Callers /\ notFull \subseteq {c \in Callers : calling[c] # NoTask}
    BY <1>0 DEF TypeOK
<1>1. ASSUME AwakeCallers \subseteq AwakeCallers', currentSize' = currentSize,
             notFull' \subseteq notFull
      PROVE  NoSlotUnattended'
  <2>1. awake <= Cardinality(AwakeCallers')
      BY <1>1, <1>f, AtLeast
  <2> QED
      BY <1>0, <1>1, <1>f, <2>1 DEF NoSlotUnattended
<1>2. ASSUME NEW c \in Callers, NEW t \in Tasks, Run(c, t) PROVE NoSlotUnattended'
  <2>1. /\ currentSize' = currentSize /\ notFull' = notFull /\ calling[c] = NoTask
        /\ \A d \in Callers : d # c => calling'[d] = calling[d]
      BY <1>t, <1>2 DEF Run, ring
  <2>2. AwakeCallers \subseteq AwakeCallers'
      BY <2>1 DEF AwakeCallers
  <2> QED
      BY <1>1, <2>1, <2>2
<1>3. ASSUME NEW c \in Callers, WaitNotFull(c) PROVE NoSlotUnattended'
  <2>1. currentSize' = maxQueueSize
      BY <1>0, <1>3, RingTests DEF WaitNotFull, ring
  <2> QED
      BY <1>0, <1>f, <2>1 DEF NoSlotUnattended
<1>4. ASSUME NEW c \in Callers, Put(c) PROVE NoSlotUnattended'
  <2>1. /\ currentSize' = currentSize + 1 /\ notFull' = notFull
        /\ calling[c] # NoTask /\ c \notin notFull
        /\ calling' = [calling EXCEPT ![c] = NoTask]
      BY <1>4 DEF Put
  <2>2. AwakeCallers' = AwakeCallers \ {c} /\ c \in AwakeCallers
      BY <1>t, <2>1 DEF AwakeCallers
  <2>3. Cardinality(AwakeCallers') = awake - 1
      BY <1>0, <2>2, FS_RemoveElement
  <2> QED
      BY <1>0, <2>1, <2>3 DEF NoSlotUnattended
<1>5. ASSUME NEW w \in Workers, Take(w) PROVE NoSlotUnattended'
  <2>1. /\ currentSize' = currentSize - 1 /\ calling' = calling
        /\ notFull' \in Signalled(notFull)
      BY <1>5 DEF Take
  <2>2. CASE notFull' = {}
      BY <2>2 DEF NoSlotUnattended
  <2>3. CASE notFull' # {}
    <3>1. PICK th \in notFull : notFull' = notFull \ {th}
        BY <2>1, <2>3, SignalWakes
    <3>2. AwakeCallers' = AwakeCallers \cup {th} /\ th \notin AwakeCallers
        BY <1>t, <2>1, <3>1 DEF AwakeCallers
    <3>3. Cardinality(AwakeCallers') = awake + 1
        BY <1>0, <3>2, FS_AddElement
    <3>4. maxQueueSize - currentSize <= awake
        BY <1>0, <3>1
    <3> QED
        BY <1>0, <2>1, <3>3, <3>4 DEF NoSlotUnattended
  <2> QED
      BY <2>2, <2>3
<1>6. ASSUME \/ \E w \in Workers : \/ TestRunning(w) \/ WaitNotEmpty(w)
                                   \/ TakeNothing(w) \/ Execute(w)
             \/ SpuriousWakeup \/ Stop \/ Joined \/ UNCHANGED vars
      PROVE  NoSlotUnattended'
  <2>1. /\ currentSize' = currentSize /\ calling' = calling /\ notFull' \subseteq notFull
      BY <1>6 DEF TestRunning, WaitNotEmpty, TakeNothing, Execute, SpuriousWakeup,
                  Stop, Joined, vars, ring
  <2>2. AwakeCallers \subseteq AwakeCallers'
      BY <2>1 DEF AwakeCallers
  <2> QED
      BY <1>1, <2>1, <2>2
<1> QED
    BY <1>2, <1>3, <1>4, <1>5, <1>6 DEF Next, CallerStep, WorkerStep

-----------------------------------------------------------------------------

\* start() leaves an empty ring and workers that are awake.
LEMMA InitIInv == Init => IInv
<1> SUFFICES ASSUME Init PROVE IInv
    OBVIOUS
<1>0. /\ head = 0 /\ tail = 0 /\ currentSize = 0
      /\ notEmpty = {} /\ notFull = {}
    BY Zenon DEF Init
<1>1. TypeOK
  <2>1. 0 \in Slots /\ currentSize \in 0..maxQueueSize
      BY <1>0, ConstantsAssumption DEF Slots
  <2> QED
      BY <1>0, <2>1, Zenon DEF Init, TypeOK
<1>2. RingShape
    BY <1>0, ConstantsAssumption DEF RingShape
<1>3. SlotsHoldTasks /\ NoSignalLost
    BY <1>0 DEF SlotsHoldTasks, NoSignalLost, NoTaskUnattended, NoSlotUnattended
<1>4. TaskIffExecuting
    BY DEF Init, TaskIffExecuting
<1> QED
    BY <1>1, <1>2, <1>3, <1>4 DEF IInv

\* The inductive invariant holds in every state the pool reaches.
LEMMA PoolInvariant == SafeSpec => []IInv
<1>1. IInv /\ [Next]_vars => IInv'
    BY TypeStep, RingStep, TasksStep, ExecutingStep, TakersStep, CallersStep
       DEF IInv, NoSignalLost
<1> QED
    BY InitIInv, <1>1, PTL DEF SafeSpec

\* The indices stay in the ring, and only who is inside take() or run() sleeps.
THEOREM PoolTypes == SafeSpec => []TypeOK
<1>1. IInv => TypeOK
    BY DEF IInv
<1> QED
    BY PoolInvariant, <1>1, PTL

\* No signal is lost: while a worker sleeps, every task in the queue has a
\* worker that is awake and will take it, and likewise callers and slots.
THEOREM PoolLosesNoSignal == SafeSpec => []NoSignalLost
<1>1. IInv => NoSignalLost
    BY DEF IInv
<1> QED
    BY PoolInvariant, <1>1, PTL

-----------------------------------------------------------------------------
(* The ring implements a bounded queue.                                     *)

\* Every step gives, starts or finishes a task, or does nothing to them.
LEMMA QueueStep == IInv /\ [Next]_vars => [Fifo!Next]_Fifo!vars
<1> SUFFICES ASSUME IInv, [Next]_vars PROVE [Fifo!Next]_Fifo!vars
    OBVIOUS
<1>0. /\ TypeOK /\ RingShape /\ TaskIffExecuting
      /\ currentSize \in Nat /\ currentSize <= maxQueueSize
      /\ Len(Queue) = currentSize
    BY RingType, QueueType DEF IInv
<1>1. CASE Idle
  <2>1. UNCHANGED <<Queue, task>>
      BY <1>1, IdleLeaves DEF ring, Queue
  <2> QED
      BY <2>1 DEF Fifo!vars
<1>2. ASSUME NEW c \in Callers, Put(c) PROVE Fifo!Next
  <2>1. Queue' = Append(Queue, calling[c]) /\ calling[c] \in Tasks
      BY <1>2, PutAppends
  <2>2. currentSize < maxQueueSize
    <3>1. currentSize # maxQueueSize
        BY <1>0, <1>2, RingTests DEF Put
    <3> QED
        BY <1>0, <3>1, ConstantsAssumption
  <2>3. Fifo!Give(calling[c])
      BY <1>0, <1>2, <2>1, <2>2 DEF Put, Fifo!Give
  <2> QED
      BY <2>1, <2>3 DEF Fifo!Next
<1>3. ASSUME NEW w \in Workers, Take(w) PROVE Fifo!Next
  <2>1. /\ Queue # <<>> /\ Queue' = Tail(Queue) /\ taskQueue[head] = Head(Queue)
      BY <1>3, TakeRemoves
  <2>2. task[w] = NoTask
      BY <1>0, <1>3 DEF Take, TaskIffExecuting
  <2>3. Fifo!Start(w)
      BY <1>3, <2>1, <2>2 DEF Take, Fifo!Start
  <2> QED
      BY <2>3 DEF Fifo!Next
<1>4. ASSUME NEW w \in Workers, Execute(w) PROVE Fifo!Next
  <2>1. task[w] # NoTask
      BY <1>0, <1>4 DEF Execute, TaskIffExecuting
  <2>2. Queue' = Queue
      BY <1>4 DEF Execute, ring, Queue
  <2>3. Fifo!Finish(w)
      BY <1>4, <2>1, <2>2 DEF Execute, Fifo!Finish
  <2> QED
      BY <2>3 DEF Fifo!Next
<1> QED
    BY <1>1, <1>2, <1>3, <1>4, NextCases

\* Tasks wait in a queue of maxQueueSize_ and are started in the order run()
\* got the mutex for them, each once, however head and tail wrap around.
THEOREM PoolIsTaskQueue == SafeSpec => ImplementsQueue
<1>1. Init => Fifo!Init
  <2> SUFFICES ASSUME Init PROVE Fifo!Init
      OBVIOUS
  <2>1. Queue = <<>>
    <3>1. currentSize = 0
        BY Zenon DEF Init
    <3> QED
        BY <3>1 DEF Queue
  <2> QED
      BY <2>1 DEF Init, Fifo!Init
<1> QED
    BY <1>1, QueueStep, PoolInvariant, PTL DEF SafeSpec, Fifo!Spec, ImplementsQueue
=============================================================================
