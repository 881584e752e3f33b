----------------------------- MODULE ThreadPool -----------------------------
(***************************************************************************)
(* The pool of computing threads (src/webserver/base/ThreadPool.cc): a ring *)
(* of tasks under one mutex, the condition variables notEmpty_ and          *)
(* notFull_, and stop().                                                    *)
(*                                                                         *)
(* What is done under the mutex is one action; waiting on a condition ends *)
(* the action, a thread that was signalled tests again.  A thread is asleep *)
(* while it is in the set of the condition it waits on.                     *)
(***************************************************************************)
EXTENDS Naturals, FiniteSets, Sequences

CONSTANTS
    Workers,        \* the threads start() creates
    Callers,        \* the threads that call run()
    Tasks,
    NoTask,         \* an empty Task
    maxQueueSize    \* maxQueueSize_

\* With 0 the ring has no slot, and index and modulus are undefined.
ASSUME ConstantsAssumption ==
    /\ maxQueueSize \in Nat \ {0}
    /\ NoTask \notin Tasks
    /\ IsFiniteSet(Workers) /\ IsFiniteSet(Callers)

VARIABLES
    taskQueue,      \* the ring
    head, tail,
    currentSize,
    notEmpty,       \* workers asleep in notEmpty_.wait()
    notFull,        \* callers asleep in notFull_.wait()
    running,        \* running_
    worker,         \* where a worker is: its test of running_, take(), the task
    task,           \* the task a worker is executing
    calling,        \* the task a caller inside run() brings, or NoTask
    stop            \* the thread that calls stop()

ring == <<taskQueue, head, tail, currentSize>>
vars == <<ring, notEmpty, notFull, running, worker, task, calling, stop>>

Slots == 0 .. maxQueueSize - 1

\* start() has returned.
Init ==
    /\ taskQueue = [i \in Slots |-> NoTask]
    /\ head = 0 /\ tail = 0 /\ currentSize = 0
    /\ notEmpty = {} /\ notFull = {}
    /\ running = TRUE
    /\ worker = [w \in Workers |-> "test"]
    /\ task = [w \in Workers |-> NoTask]
    /\ calling = [c \in Callers |-> NoTask]
    /\ stop = "not called"

IsFull == head = tail /\ currentSize = maxQueueSize
IsEmpty == head = tail /\ currentSize = 0

\* Past the end of the ring.
Advance_NoModulo(i) == i + 1

Advance(i) == (i + 1) % maxQueueSize

\* pthread_cond_signal wakes one of the waiting threads, if there is one.
Signalled(waiting) ==
    IF waiting = {} THEN {{}} ELSE {waiting \ {thread} : thread \in waiting}

-----------------------------------------------------------------------------
(* run().                                                                   *)

Run(c, t) ==
    /\ calling[c] = NoTask
    /\ calling' = [calling EXCEPT ![c] = t]
    /\ UNCHANGED <<ring, notEmpty, notFull, running, worker, task, stop>>

WaitNotFull(c) ==
    /\ calling[c] # NoTask /\ c \notin notFull
    /\ IsFull
    /\ notFull' = notFull \cup {c}
    /\ UNCHANGED <<ring, notEmpty, running, worker, task, calling, stop>>

\* The signal is given only when the queue was empty.
Put_SignalsFirst(c) ==
    /\ calling[c] # NoTask /\ c \notin notFull
    /\ ~IsFull
    /\ taskQueue' = [taskQueue EXCEPT ![tail] = calling[c]]
    /\ tail' = Advance(tail)
    /\ currentSize' = currentSize + 1
    /\ IF IsEmpty THEN notEmpty' \in Signalled(notEmpty) ELSE UNCHANGED notEmpty
    /\ calling' = [calling EXCEPT ![c] = NoTask]
    /\ UNCHANGED <<head, notFull, running, worker, task, stop>>

Put(c) ==
    /\ calling[c] # NoTask /\ c \notin notFull
    /\ ~IsFull
    /\ taskQueue' = [taskQueue EXCEPT ![tail] = calling[c]]
    /\ tail' = Advance(tail)
    /\ currentSize' = currentSize + 1
    /\ notEmpty' \in Signalled(notEmpty)
    /\ calling' = [calling EXCEPT ![c] = NoTask]
    /\ UNCHANGED <<head, notFull, running, worker, task, stop>>

-----------------------------------------------------------------------------
(* runInThread() and take().                                                *)

TestRunning(w) ==
    /\ worker[w] = "test"
    /\ worker' = [worker EXCEPT ![w] = IF running THEN "take" ELSE "exited"]
    /\ UNCHANGED <<ring, notEmpty, notFull, running, task, calling, stop>>

WaitNotEmpty(w) ==
    /\ worker[w] = "take" /\ w \notin notEmpty
    /\ IsEmpty /\ running
    /\ notEmpty' = notEmpty \cup {w}
    /\ UNCHANGED <<ring, notFull, running, worker, task, calling, stop>>

\* head_ is not advanced.
Take_HeadStays(w) ==
    /\ worker[w] = "take" /\ w \notin notEmpty
    /\ ~IsEmpty
    /\ task' = [task EXCEPT ![w] = taskQueue[head]]
    /\ currentSize' = currentSize - 1
    /\ notFull' \in Signalled(notFull)
    /\ worker' = [worker EXCEPT ![w] = "execute"]
    /\ UNCHANGED <<taskQueue, head, tail, notEmpty, running, calling, stop>>

Take(w) ==
    /\ worker[w] = "take" /\ w \notin notEmpty
    /\ ~IsEmpty
    /\ task' = [task EXCEPT ![w] = taskQueue[head]]
    /\ taskQueue' = [taskQueue EXCEPT ![head] = NoTask]
    /\ head' = Advance(head)
    /\ currentSize' = currentSize - 1
    /\ notFull' \in Signalled(notFull)
    /\ worker' = [worker EXCEPT ![w] = "execute"]
    /\ UNCHANGED <<tail, notEmpty, running, calling, stop>>

\* take() returns an empty Task: the pool has been stopped.
TakeNothing(w) ==
    /\ worker[w] = "take" /\ w \notin notEmpty
    /\ IsEmpty /\ ~running
    /\ worker' = [worker EXCEPT ![w] = "test"]
    /\ UNCHANGED <<ring, notEmpty, notFull, running, task, calling, stop>>

Execute(w) ==
    /\ worker[w] = "execute"
    /\ task' = [task EXCEPT ![w] = NoTask]
    /\ worker' = [worker EXCEPT ![w] = "test"]
    /\ UNCHANGED <<ring, notEmpty, notFull, running, calling, stop>>

\* pthread_cond_wait may return without a signal.
SpuriousWakeup ==
    /\ \/ \E w \in notEmpty : notEmpty' = notEmpty \ {w} /\ UNCHANGED notFull
       \/ \E c \in notFull : notFull' = notFull \ {c} /\ UNCHANGED notEmpty
    /\ UNCHANGED <<ring, running, worker, task, calling, stop>>

-----------------------------------------------------------------------------
(* stop().                                                                  *)

\* notifyAll() forgotten.
Stop_NotAnnounced ==
    /\ stop = "not called"
    /\ running' = FALSE
    /\ stop' = "joining"
    /\ UNCHANGED <<ring, notEmpty, notFull, worker, task, calling>>

Stop ==
    /\ stop = "not called"
    /\ running' = FALSE
    /\ notEmpty' = {}
    /\ stop' = "joining"
    /\ UNCHANGED <<ring, notFull, worker, task, calling>>

Joined ==
    /\ stop = "joining"
    /\ \A w \in Workers : worker[w] = "exited"
    /\ stop' = "returned"
    /\ UNCHANGED <<ring, notEmpty, notFull, running, worker, task, calling>>

-----------------------------------------------------------------------------

CallerStep(c) == WaitNotFull(c) \/ Put(c)

WorkerStep(w) ==
    TestRunning(w) \/ WaitNotEmpty(w) \/ Take(w) \/ TakeNothing(w) \/ Execute(w)

Next ==
    \/ \E c \in Callers, t \in Tasks : Run(c, t)
    \/ \E c \in Callers : CallerStep(c)
    \/ \E w \in Workers : WorkerStep(w)
    \/ SpuriousWakeup
    \/ Stop
    \/ Joined

SafeSpec == Init /\ [][Next]_vars

(* Fairness.  A thread that is not asleep gets the processor and the mutex   *)
(* in the end, and tasks return.  Nobody has to call run() or stop().        *)
Spec ==
    /\ SafeSpec
    /\ \A c \in Callers : WF_vars(CallerStep(c))
    /\ \A w \in Workers : WF_vars(WorkerStep(w))
    /\ WF_vars(Joined)

-----------------------------------------------------------------------------

\* The variables have their types; only who is inside take() or run() sleeps.
TypeOK ==
    /\ taskQueue \in [Slots -> Tasks \cup {NoTask}]
    /\ head \in Slots /\ tail \in Slots
    /\ currentSize \in 0..maxQueueSize
    /\ running \in BOOLEAN
    /\ worker \in [Workers -> {"test", "take", "execute", "exited"}]
    /\ task \in [Workers -> Tasks \cup {NoTask}]
    /\ calling \in [Callers -> Tasks \cup {NoTask}]
    /\ stop \in {"not called", "joining", "returned"}
    /\ notEmpty \in SUBSET {w \in Workers : worker[w] = "take"}
    /\ notFull \in SUBSET {c \in Callers : calling[c] # NoTask}

AwakeTakers == {w \in Workers : worker[w] = "take"} \ notEmpty
AwakeCallers == {c \in Callers : calling[c] # NoTask} \ notFull

\* While a worker sleeps, for every task in the queue a worker has been woken
\* or has not yet gone to sleep.
NoTaskUnattended == notEmpty # {} => currentSize <= Cardinality(AwakeTakers)

\* While a caller sleeps in run(), for every free slot a caller has been
\* woken or has not yet gone to sleep.
NoSlotUnattended ==
    notFull # {} => maxQueueSize - currentSize <= Cardinality(AwakeCallers)

\* No signal of either condition variable is lost, whoever takes the mutex
\* before the thread that was woken.
NoSignalLost == NoTaskUnattended /\ NoSlotUnattended

\* The tasks in the ring, oldest first.
Queue == [i \in 1..currentSize |-> taskQueue[(head + i - 1) % maxQueueSize]]

\* The ring is a bounded queue: tasks are started in the order run() got the
\* mutex for them, each once, however head and tail wrap around.
Fifo == INSTANCE TaskQueue WITH
            queue <- Queue, executing <- task, Capacity <- maxQueueSize
ImplementsQueue == Fifo!Spec

\* A queued task moves on until it is started, unless the pool is stopped.
TasksStart ==
    \A t \in Tasks, i \in 1..maxQueueSize :
        (i <= currentSize /\ Queue[i] = t) ~>
            (~running \/ \E w \in Workers : task[w] = t)

\* stop() returns: no worker is left asleep by it, whatever it was doing when
\* running_ changed (ThreadPool.cc:47-51).
StopReturns == (stop = "joining") ~> (stop = "returned")

\* What the pool owes its callers in the end.
PoolServes == TasksStart /\ StopReturns
=============================================================================
