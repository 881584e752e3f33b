----------------------------- MODULE TimerQueue -----------------------------
(***************************************************************************)
(* TimerQueue (src/webserver/TimerQueue.cc, Timer.h): timers on one         *)
(* timerfd, added and cancelled by the loop thread at once and by other     *)
(* threads through the functor queue of the loop (EventLoop.tla).           *)
(*                                                                         *)
(* Timer objects live on a heap whose addresses are used again, so a        *)
(* TimerId is an address and a sequence number.  Time is counted in ticks;  *)
(* a fraction of a second is a tick less than TicksPerSecond.               *)
(***************************************************************************)
EXTENDS Integers, Sequences, FiniteSets

CONSTANTS
    Threads,        \* the threads other than the loop thread
    Addrs,          \* where Timer objects can be allocated; std::set orders
                    \* entries of equal time by address
    Delays,         \* the delays asked for, in ticks
    Intervals,      \* the intervals asked for, 0 for a timer that runs once
    TicksPerSecond,
    MaxSequence,    \* bound: timers created
    MaxTime,        \* bound: the clock stops there
    MaxFunctors     \* bound: functors queued at a time

ASSUME ConstantsAssumption ==
    /\ Addrs \subseteq Nat \ {0}
    /\ Delays \subseteq Nat
    /\ Intervals \subseteq Nat
    /\ TicksPerSecond \in Nat \ {0}
    /\ MaxSequence \in Nat /\ MaxTime \in Nat /\ MaxFunctors \in Nat

VARIABLES
    now,                    \* Timestamp::now()
    created,                \* Timer::sqe_numCreated_
    timer,                  \* the Timer object at each address, or Freed
    timers,                 \* timers_
    activeTimers,           \* activeTimers_
    cancelingTimers,        \* cancelingTimers_
    callingExpiredTimers,   \* callingExpiredTimers_
    expired,                \* handleRead: the entries taken from timers_
    toRun,                  \* handleRead: those not run yet
    readTime,               \* handleRead: its local variable now
    running,                \* the sequence of the timer whose callback runs
    timerfd,                \* when timerfd_ becomes readable, or Disarmed
    pendingFunctors,        \* add and cancel functors of other threads
    adding,                 \* per thread: the TimerId addTimer has still to read
    ids,                    \* the TimerIds given to callers
    ran,                    \* history: addresses whose Timer has been run
    cancelled               \* history: timers cancelled while in the batch

setVars == <<timers, activeTimers>>
batchVars == <<callingExpiredTimers, expired, toRun, readTime, running>>
threadVars == <<pendingFunctors, adding>>
vars == <<now, created, timer, setVars, cancelingTimers, batchVars, timerfd,
          threadVars, ids, ran, cancelled>>

Time == Nat
Disarmed == -1
NoId == <<0, 0>>

\* What a freed object reads as: the allocator writes over sequence_, the
\* first member, with a value that is no timer's sequence number.
Freed == [sequence |-> 0, repeat |-> FALSE, interval |-> 0, expiration |-> 0]

Init ==
    /\ now = 0
    /\ created = 0
    /\ timer = [a \in Addrs |-> Freed]
    /\ timers = {}
    /\ activeTimers = {}
    /\ cancelingTimers = {}
    /\ callingExpiredTimers = FALSE
    /\ expired = {}
    /\ toRun = {}
    /\ readTime = 0
    /\ running = 0
    /\ timerfd = Disarmed
    /\ pendingFunctors = <<>>
    /\ adding = [th \in Threads |-> NoId]
    /\ ids = {}
    /\ ran = {}
    /\ cancelled = {}

Allocated == {a \in Addrs : timer[a] # Freed}

\* The order of std::set<std::pair<Timestamp, Timer *>>.
Before(e, f) == e[1] < f[1] \/ (e[1] = f[1] /\ e[2] <= f[2])

Earliest(entries) == CHOOSE e \in entries : \A f \in entries : Before(e, f)

Later(a, b) == IF a < b THEN b ELSE a

-----------------------------------------------------------------------------
(* Steps of several operations.                                             *)

\* Timer::Timer.  repeat_ is taken from the interval before interval_, an
\* int, cuts it to whole seconds.
NewTimer(delay, interval) ==
    [sequence   |-> created + 1,
     repeat     |-> interval > 0,
     interval   |-> (interval \div TicksPerSecond) * TicksPerSecond,
     expiration |-> now + delay]

\* resetTimerfd: a time that has passed makes the timerfd readable at once.
FireTime(expiration) == Later(expiration, now)

EarliestChanged(t) == \A e \in timers : t.expiration < e[1]

\* insert, and what addTimerInLoop does with its result.
Insert(a, t) ==
    /\ timers' = timers \cup {<<t.expiration, a>>}
    /\ activeTimers' = activeTimers \cup {<<a, t.sequence>>}
    /\ timerfd' = IF EarliestChanged(t) THEN FireTime(t.expiration)
                    ELSE timerfd

\* activeTimers_.erase forgotten.
CancelActive_StaysActive(id) ==
    /\ id \in activeTimers
    /\ timers' = timers \ {<<timer[id[1]].expiration, id[1]>>}
    /\ timer' = [timer EXCEPT ![id[1]] = Freed]
    /\ ran' = ran \ {id[1]}
    /\ UNCHANGED <<activeTimers, cancelingTimers, cancelled>>

\* The timers of the batch that reset() will not insert again need a mark:
\* they are in neither set while their callbacks run.
InBatch(id) == \E e \in expired : e[2] = id[1] /\ timer[e[2]].sequence = id[2]

CancelActive(id) ==
    /\ id \in activeTimers
    /\ timers' = timers \ {<<timer[id[1]].expiration, id[1]>>}
    /\ activeTimers' = activeTimers \ {id}
    /\ timer' = [timer EXCEPT ![id[1]] = Freed]
    /\ ran' = ran \ {id[1]}
    /\ UNCHANGED <<cancelingTimers, cancelled>>

CancelInactive(id) ==
    /\ id \notin activeTimers
    /\ cancelingTimers' = cancelingTimers
                             \cup {c \in {id} : callingExpiredTimers}
    /\ cancelled' = cancelled \cup {c \in {id} : InBatch(c)}
    /\ UNCHANGED <<timer, setVars, ran>>

CancelInLoop(id) == CancelActive(id) \/ CancelInactive(id)

-----------------------------------------------------------------------------
(* The loop thread calls addTimer and cancel from an io handler, a functor  *)
(* or a timer callback: runInLoop then runs the functor in place.           *)

MayCall == callingExpiredTimers => running # 0

LoopAddTimer(a, delay, interval) ==
    /\ MayCall
    /\ created < MaxSequence
    /\ a \notin Allocated
    /\ LET t == NewTimer(delay, interval) IN
         /\ timer' = [timer EXCEPT ![a] = t]
         /\ Insert(a, t)
         /\ ids' = ids \cup {<<a, t.sequence>>}
    /\ created' = created + 1
    /\ UNCHANGED <<now, cancelingTimers, batchVars, threadVars, ran, cancelled>>

LoopCancel(id) ==
    /\ MayCall
    /\ id \in ids
    /\ CancelInLoop(id)
    /\ UNCHANGED <<now, created, batchVars, timerfd, threadVars, ids>>

-----------------------------------------------------------------------------
(* Another thread's addTimer queues the functor first and reads the Timer   *)
(* it gave away afterwards.                                                 *)

AddTimer(th, a, delay, interval) ==
    /\ adding[th] = NoId
    /\ created < MaxSequence
    /\ a \notin Allocated
    /\ Len(pendingFunctors) < MaxFunctors
    /\ timer' = [timer EXCEPT ![a] = NewTimer(delay, interval)]
    /\ created' = created + 1
    /\ pendingFunctors' =
         Append(pendingFunctors, [op |-> "add", id |-> <<a, created + 1>>])
    /\ adding' = [adding EXCEPT ![th] = <<a, created + 1>>]
    /\ UNCHANGED <<now, setVars, cancelingTimers, batchVars, timerfd, ids,
                   ran, cancelled>>

\* return TimerId(timer, timer->sequence()) after runInLoop.
AddTimerReturns(th) ==
    /\ adding[th] # NoId
    /\ LET a == adding[th][1] IN ids' = ids \cup {<<a, timer[a].sequence>>}
    /\ adding' = [adding EXCEPT ![th] = NoId]
    /\ UNCHANGED <<now, created, timer, setVars, cancelingTimers, batchVars,
                   timerfd, pendingFunctors, ran, cancelled>>

Cancel(th, id) ==
    /\ adding[th] = NoId
    /\ id \in ids
    /\ Len(pendingFunctors) < MaxFunctors
    /\ pendingFunctors' = Append(pendingFunctors, [op |-> "cancel", id |-> id])
    /\ UNCHANGED <<now, created, timer, setVars, cancelingTimers, batchVars,
                   timerfd, adding, ids, ran, cancelled>>

-----------------------------------------------------------------------------
(* The functors, run by doPendingFunctors between two rounds of handlers.   *)

AddTimerInLoop ==
    /\ ~callingExpiredTimers
    /\ pendingFunctors # <<>> /\ Head(pendingFunctors).op = "add"
    /\ LET a == Head(pendingFunctors).id[1] IN Insert(a, timer[a])
    /\ pendingFunctors' = Tail(pendingFunctors)
    /\ UNCHANGED <<now, created, timer, cancelingTimers, batchVars, adding, ids,
                   ran, cancelled>>

CancelFunctor ==
    /\ ~callingExpiredTimers
    /\ pendingFunctors # <<>> /\ Head(pendingFunctors).op = "cancel"
    /\ CancelInLoop(Head(pendingFunctors).id)
    /\ pendingFunctors' = Tail(pendingFunctors)
    /\ UNCHANGED <<now, created, batchVars, timerfd, adding, ids>>

-----------------------------------------------------------------------------
(* handleRead, the handler of timerfd_.                                     *)

\* callingExpiredTimers_ = true forgotten.
HandleRead_NoFlag ==
    /\ ~callingExpiredTimers
    /\ timerfd # Disarmed /\ timerfd <= now
    /\ timerfd' = Disarmed
    /\ readTime' = now
    /\ expired' = {e \in timers : e[1] <= now}
    /\ toRun' = expired'
    /\ timers' = timers \ expired'
    /\ activeTimers' = activeTimers
                         \ {<<e[2], timer[e[2]].sequence>> : e \in expired'}
    /\ cancelingTimers' = {}
    /\ cancelled' = {}
    /\ UNCHANGED <<now, created, timer, callingExpiredTimers, running,
                   threadVars, ids, ran>>

\* lower_bound of a later sentry.
Due_Early(e) == e[1] <= now + 1

Due(e) == e[1] <= now

\* readTimerfd and getExpired.
HandleRead ==
    /\ ~callingExpiredTimers
    /\ timerfd # Disarmed /\ timerfd <= now
    /\ timerfd' = Disarmed
    /\ readTime' = now
    /\ expired' = {e \in timers : Due(e)}
    /\ toRun' = expired'
    /\ timers' = timers \ expired'
    /\ activeTimers' = activeTimers
                         \ {<<e[2], timer[e[2]].sequence>> : e \in expired'}
    /\ callingExpiredTimers' = TRUE
    /\ cancelingTimers' = {}
    /\ cancelled' = {}
    /\ UNCHANGED <<now, created, timer, running, threadVars, ids, ran>>

RunTimer ==
    /\ callingExpiredTimers /\ running = 0
    /\ toRun # {}
    /\ LET e == Earliest(toRun) IN
         /\ toRun' = toRun \ {e}
         /\ running' = timer[e[2]].sequence
         /\ ran' = ran \cup {e[2]}
    /\ UNCHANGED <<now, created, timer, setVars, cancelingTimers,
                   callingExpiredTimers, expired, readTime, timerfd, threadVars,
                   ids, cancelled>>

CallbackReturns ==
    /\ running # 0
    /\ running' = 0
    /\ UNCHANGED <<now, created, timer, setVars, cancelingTimers,
                   callingExpiredTimers, expired, toRun, readTime, timerfd,
                   threadVars, ids, ran, cancelled>>

\* reset() without the test of cancelingTimers_, and without that of repeat().
Restarts_Cancelled(a) == timer[a].repeat

Restarts(a) ==
    timer[a].repeat /\ <<a, timer[a].sequence>> \notin cancelingTimers

\* The addresses of the batch that reset() inserts again.
Restarted == {a \in Addrs : Restarts(a) /\ \E e \in expired : e[2] = a}

\* reset() leaves the timerfd to the next insert.
AlarmAfterReset_None(ts) == timerfd

AlarmAfterReset(ts) == IF ts = {} THEN timerfd ELSE FireTime(Earliest(ts)[1])

Reset ==
    /\ callingExpiredTimers /\ running = 0
    /\ toRun = {}
    /\ callingExpiredTimers' = FALSE
    /\ expired' = {}
    /\ timer' = [a \in Addrs |->
         IF a \in Restarted
           THEN [timer[a] EXCEPT !.expiration = readTime + timer[a].interval]
         ELSE IF \E e \in expired : e[2] = a THEN Freed
         ELSE timer[a]]
    /\ timers' = timers \cup {<<timer'[a].expiration, a>> : a \in Restarted}
    /\ activeTimers' = activeTimers
                         \cup {<<a, timer[a].sequence>> : a \in Restarted}
    /\ ran' = {a \in ran : timer'[a] # Freed}
    /\ timerfd' = AlarmAfterReset(timers')
    /\ UNCHANGED <<now, created, cancelingTimers, toRun, readTime, running,
                   threadVars, ids, cancelled>>

-----------------------------------------------------------------------------

Tick ==
    /\ now < MaxTime
    /\ now' = now + 1
    /\ UNCHANGED <<created, timer, setVars, cancelingTimers, batchVars, timerfd,
                   threadVars, ids, ran, cancelled>>

LoopStep ==
    \/ AddTimerInLoop
    \/ CancelFunctor
    \/ HandleRead
    \/ RunTimer
    \/ CallbackReturns
    \/ Reset

Next ==
    \/ \E a \in Addrs, d \in Delays, i \in Intervals : LoopAddTimer(a, d, i)
    \/ \E id \in ids : LoopCancel(id)
    \/ \E th \in Threads, a \in Addrs, d \in Delays, i \in Intervals :
          AddTimer(th, a, d, i)
    \/ \E th \in Threads : AddTimerReturns(th)
    \/ \E th \in Threads, id \in ids : Cancel(th, id)
    \/ LoopStep
    \/ Tick

SafeSpec == Init /\ [][Next]_vars

(* Fairness.  Time passes, the loop handles a readable timerfd and runs its *)
(* functors (EventLoop.tla), callbacks return.                              *)
Spec ==
    /\ SafeSpec
    /\ WF_vars(Tick)
    /\ WF_vars(AddTimerInLoop \/ CancelFunctor)
    /\ WF_vars(HandleRead)
    /\ WF_vars(RunTimer \/ CallbackReturns \/ Reset)

-----------------------------------------------------------------------------

Sequences == 0..MaxSequence
TimerIds == (Addrs \cup {0}) \X Sequences
TimerObjects == [sequence : Sequences, repeat : BOOLEAN, interval : Time,
                 expiration : Time]
Entries == Time \X Addrs

\* The variables have their types; a batch exists only inside handleRead.
TypeOK ==
    /\ now \in Time /\ readTime \in Time
    /\ created \in Sequences
    /\ timer \in [Addrs -> TimerObjects]
    /\ timers \in SUBSET Entries
    /\ activeTimers \in SUBSET (Addrs \X Sequences)
    /\ cancelingTimers \in SUBSET TimerIds
    /\ callingExpiredTimers \in BOOLEAN
    /\ expired \in SUBSET Entries
    /\ toRun \in SUBSET expired
    /\ ~callingExpiredTimers => expired = {} /\ running = 0
    /\ running \in Sequences
    /\ timerfd \in Time \cup {Disarmed}
    /\ pendingFunctors \in Seq([op : {"add", "cancel"}, id : TimerIds])
    /\ adding \in [Threads -> TimerIds]
    /\ ids \in SUBSET TimerIds
    /\ ran \in SUBSET Addrs
    /\ cancelled \in SUBSET TimerIds

\* Where the loop holds a Timer pointer it will dereference.
Adds == {i \in DOMAIN pendingFunctors : pendingFunctors[i].op = "add"}
Queued(a) == {i \in Adds : pendingFunctors[i].id[1] = a}
Scheduled(a) == {e \in timers : e[2] = a}
Batched(a) == {e \in expired : e[2] = a}

\* Each Timer has exactly one owner: the functor that will insert it, its
\* entry in timers_, or the batch handleRead works on.  None is deleted twice
\* or used after its deletion by the loop, none is leaked.
OneOwner ==
    \A a \in Addrs :
        Cardinality(Queued(a)) + Cardinality(Scheduled(a))
          + Cardinality(Batched(a)) = (IF a \in Allocated THEN 1 ELSE 0)

\* timers_ and activeTimers_ hold the same timers, at their expirations
\* (TimerQueue.cc:69, 77, 84, 136, 139, 149, 152, 158, 169, 174, 177).
SetsAgree ==
    /\ \A e \in timers : timer[e[2]].expiration = e[1]
    /\ activeTimers = {<<e[2], timer[e[2]].sequence>> : e \in timers}

\* The loop is never left without an alarm: between two handlers the timerfd
\* is set for the earliest timer, or for a time that has passed.
AlarmSet ==
    ~callingExpiredTimers /\ timers # {} =>
        /\ timerfd # Disarmed
        /\ timerfd <= Later(Earliest(timers)[1], now)

\* The sets, the Timers they point to and the alarm stay consistent through every
\* order of insertions, cancellations and batches, also when addresses are used
\* again.
TimersConsistent == OneOwner /\ SetsAgree /\ AlarmSet

\* A timer cancelled while it was in the batch, by its own callback or by
\* another one, is not inserted again.
CancelledStaysOut == cancelled \cap activeTimers = {}

\* No timer runs before its expiration, one that does not repeat runs once,
\* and those that are due run in the order of their expirations.
RunsInTime ==
    [][RunTimer =>
         \E e \in toRun : /\ e[1] <= now
                          /\ timer[e[2]].sequence = running'
                          /\ e[2] \in ran => timer[e[2]].repeat
                          /\ \A f \in toRun \cup timers : e[1] <= f[1]]_vars

\* A timer the queue holds is taken out of it again, run or cancelled, when
\* its time comes before the clock stops.
TimersFire ==
    \A a \in Addrs, s \in 1..MaxSequence :
        (/\ <<a, s>> \in activeTimers
         /\ timer[a].expiration <= MaxTime) ~> <<a, s>> \notin activeTimers
=============================================================================
