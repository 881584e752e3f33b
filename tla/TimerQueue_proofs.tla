-------------------------- MODULE TimerQueue_proofs --------------------------
(* Proofs about TimerQueue for any threads, addresses, delays, intervals    *)
(* and bounds: the two sets, the Timers and the alarm stay consistent.      *)
EXTENDS TimerQueue, SequenceTheorems, FiniteSetTheorems,
        WellFoundedInduction, TLAPS

\* Where a Timer can be held: by a functor, by timers_, by the batch.
Target(i) == pendingFunctors[i].id[1]
IsQueued(a) == \E i \in Adds : Target(i) = a
IsScheduled(a) == \E e \in timers : e[2] = a
IsBatched(a) == \E e \in expired : e[2] = a

\* A live Timer has been numbered; add functors and threads inside addTimer
\* name a Timer object that was allocated.
Numbered ==
    /\ \A a \in Addrs : a \in Allocated => timer[a].sequence \in 1..created
    /\ \A th \in Threads : adding[th] = NoId \/ adding[th][1] \in Addrs
    /\ \A i \in Adds : Target(i) \in Addrs

\* A Timer is held iff it has not been deleted, ...
Held ==
    \A a \in Addrs : a \in Allocated <=> IsQueued(a) \/ IsScheduled(a) \/ IsBatched(a)

\* ... in one place only, ...
OnePlace ==
    \A a \in Addrs : /\ ~(IsQueued(a) /\ IsScheduled(a))
                     /\ ~(IsQueued(a) /\ IsBatched(a))
                     /\ ~(IsScheduled(a) /\ IsBatched(a))

\* ... and once there: entries carry the expiration of their Timer, and one
\* functor is queued for each.
OneFunctor ==
    \A i, j \in Adds : Target(i) = Target(j) => i = j
BatchAgrees == \A e \in expired : timer[e[2]].expiration = e[1]

\* The alarm is not after any timer that is still to come.
AlarmBefore ==
    ~callingExpiredTimers =>
        \A e \in timers : timerfd # Disarmed /\ timerfd <= Later(e[1], now)

\* A batch holds what was due when handleRead read the clock; all else is later.
BatchDue ==
    /\ readTime <= now
    /\ \A e \in expired : e[1] <= readTime
    /\ callingExpiredTimers => \A e \in timers : readTime <= e[1]

\* A Timer that has run repeats, or waits in the batch to be deleted.
RunOnce ==
    \A a \in ran : /\ a \in Allocated
                   /\ timer[a].repeat \/ \E e \in expired \ toRun : e[2] = a

\* A Timer cancelled in its batch carries the mark that reset() looks for.
Marked ==
    /\ cancelled \subseteq cancelingTimers
    /\ \A id \in cancelled : id[1] \in Addrs /\ id[2] \in 1..created
    /\ \A id \in cancelled : timer[id[1]].sequence = id[2] => IsBatched(id[1])

\* The inductive invariant.
IInv ==
    /\ TypeOK
    /\ Numbered
    /\ SetsAgree /\ BatchAgrees
    /\ Held /\ OnePlace /\ OneFunctor
    /\ AlarmBefore
    /\ BatchDue /\ RunOnce
    /\ Marked

-----------------------------------------------------------------------------
(* Lemmas about the operators of the model.                                 *)

\* A set of numbers that is not empty has a least one.
LEMMA LeastNumber ==
    ASSUME NEW S \in SUBSET Nat, S # {}
    PROVE  \E x \in S : \A y \in S : x <= y
<1> DEFINE Less == OpToRel(<, Nat)
<1>1. \E x \in S : \A y \in S : <<y, x>> \notin Less
  <2>1. IsWellFoundedOn(Less, Nat)
      BY NatLessThanWellFounded
  <2> HIDE DEF Less
  <2> QED
      BY <2>1, WFMin, Zenon
<1>2. \A x, y \in Nat : <<y, x>> \notin Less => x <= y
    BY DEF OpToRel
<1> HIDE DEF Less
<1> QED
    BY <1>1, <1>2

\* begin() is an entry of the set, and no entry is before it.
LEMMA EarliestIs ==
    ASSUME NEW S \in SUBSET (Nat \X Nat), S # {}
    PROVE  Earliest(S) \in S /\ \A f \in S : Before(Earliest(S), f)
<1> DEFINE T == {e[1] : e \in S}
<1>1. PICK t \in T : \A u \in T : t <= u
  <2>1. T \in SUBSET Nat /\ T # {}
      OBVIOUS
  <2> HIDE DEF T
  <2> QED
      BY <2>1, LeastNumber
<1> DEFINE A == {e[2] : e \in {f \in S : f[1] = t}}
<1>2. PICK a \in A : \A b \in A : a <= b
  <2>1. A \in SUBSET Nat /\ A # {}
      OBVIOUS
  <2> HIDE DEF A
  <2> QED
      BY <2>1, LeastNumber
<1>3. PICK e \in S : e[1] = t /\ e[2] = a
    OBVIOUS
<1>4. \A f \in S : Before(e, f)
    BY <1>1, <1>2, <1>3 DEF Before
<1> QED
    BY <1>4, Zenon DEF Earliest

\* Entries are times and addresses, which are numbers.
LEMMA EntriesAreNumbers ==
    ASSUME NEW S \in SUBSET Entries
    PROVE  S \in SUBSET (Nat \X Nat)
  BY ConstantsAssumption DEF Entries, Time

\* A new Timer is a Timer object, numbered with the next number, and no freed one.
LEMMA NewTimerType ==
    ASSUME TypeOK, created < MaxSequence,
           NEW d \in Delays, NEW i \in Intervals
    PROVE  /\ NewTimer(d, i) \in TimerObjects
           /\ NewTimer(d, i).sequence = created + 1
           /\ NewTimer(d, i).expiration \in Nat
           /\ now <= NewTimer(d, i).expiration
           /\ NewTimer(d, i) # Freed
           /\ created + 1 \in Sequences
<1>1. now \in Nat /\ created \in 0..MaxSequence
    BY Zenon DEF TypeOK, Time, Sequences
<1>2. d \in Nat /\ i \in Nat /\ TicksPerSecond \in Nat \ {0} /\ MaxSequence \in Nat
    BY ConstantsAssumption
<1>3. i \div TicksPerSecond \in Nat
    BY <1>2
<1>4. (i \div TicksPerSecond) * TicksPerSecond \in Nat
    BY <1>2, <1>3
<1>5. created + 1 \in Sequences /\ created + 1 # 0
    BY <1>1, <1>2 DEF Sequences
<1> QED
    BY <1>1, <1>2, <1>4, <1>5 DEF NewTimer, TimerObjects, Time, Freed

-----------------------------------------------------------------------------
(* Types.                                                                   *)

\* Insertion keeps the types of the sets and of the alarm.
LEMMA InsertType ==
    ASSUME TypeOK, NEW a \in Addrs, NEW t \in TimerObjects, Insert(a, t)
    PROVE  /\ timers' \in SUBSET Entries
           /\ activeTimers' \in SUBSET (Addrs \X Sequences)
           /\ timerfd' \in Time \cup {Disarmed}
<1>1. /\ now \in Nat /\ t.expiration \in Nat /\ t.sequence \in Sequences
      /\ timers \in SUBSET Entries /\ activeTimers \in SUBSET (Addrs \X Sequences)
      /\ timerfd \in Time \cup {Disarmed}
    BY Zenon DEF TypeOK, TimerObjects, Time
<1>2. FireTime(t.expiration) \in Time
    BY <1>1 DEF FireTime, Later, Time
<1> QED
    BY <1>1, <1>2 DEF Insert, Entries, Time

\* Cancelling keeps the types.
LEMMA CancelType ==
    ASSUME TypeOK, NEW id \in TimerIds, CancelInLoop(id)
    PROVE  /\ timer' \in [Addrs -> TimerObjects]
           /\ timers' \in SUBSET Entries
           /\ activeTimers' \in SUBSET (Addrs \X Sequences)
           /\ cancelingTimers' \in SUBSET TimerIds
           /\ cancelled' \in SUBSET TimerIds
           /\ ran' \in SUBSET Addrs
<1>1. Freed \in TimerObjects
    BY ConstantsAssumption DEF Freed, TimerObjects, Sequences, Time
<1> QED
    BY <1>1 DEF TypeOK, CancelInLoop, CancelActive, CancelInactive, setVars

\* reset() keeps the types: the next expiration is a time again.
LEMMA ResetType ==
    ASSUME TypeOK, Reset
    PROVE  /\ timer' \in [Addrs -> TimerObjects]
           /\ timers' \in SUBSET Entries
           /\ activeTimers' \in SUBSET (Addrs \X Sequences)
           /\ timerfd' \in Time \cup {Disarmed}
           /\ ran' \in SUBSET Addrs
<1>0. /\ timer \in [Addrs -> TimerObjects] /\ readTime \in Nat /\ now \in Nat
      /\ timers \in SUBSET Entries /\ activeTimers \in SUBSET (Addrs \X Sequences)
      /\ ran \in SUBSET Addrs /\ timerfd \in Time \cup {Disarmed}
    BY Zenon DEF TypeOK, Time
<1>1. timer' \in [Addrs -> TimerObjects]
  <2>1. Freed \in TimerObjects
      BY ConstantsAssumption DEF Freed, TimerObjects, Sequences, Time
  <2>2. ASSUME NEW a \in Addrs
        PROVE  [timer[a] EXCEPT !.expiration = readTime + timer[a].interval]
                 \in TimerObjects
      BY <1>0 DEF TimerObjects, Time
  <2> QED
      BY <1>0, <2>1, <2>2 DEF Reset
<1>2. \A a \in Addrs : timer[a].sequence \in Sequences /\ timer'[a].expiration \in Nat
    BY <1>0, <1>1 DEF TimerObjects, Time
<1>3. Restarted \in SUBSET Addrs
    BY DEF Restarted
<1>4. timers' \in SUBSET Entries
  <2>1. timers' = timers \cup {<<timer'[a].expiration, a>> : a \in Restarted}
      BY Zenon DEF Reset
  <2>2. \A a \in Restarted : <<timer'[a].expiration, a>> \in Entries
      BY <1>2, <1>3 DEF Entries, Time
  <2> QED
      BY <1>0, <2>1, <2>2
<1>5. activeTimers' \in SUBSET (Addrs \X Sequences)
    BY <1>0, <1>2, <1>3 DEF Reset
<1>6. timerfd' \in Time \cup {Disarmed}
  <2>1. CASE timers' = {}
      BY <1>0, <2>1 DEF Reset, AlarmAfterReset
  <2>2. CASE timers' # {}
    <3>1. Earliest(timers') \in Entries
        BY <1>4, <2>2, EntriesAreNumbers, EarliestIs
    <3>2. FireTime(Earliest(timers')[1]) \in Time
        BY <1>0, <3>1 DEF FireTime, Later, Entries, Time
    <3> QED
        BY <2>2, <3>2, Zenon DEF Reset, AlarmAfterReset
  <2> QED
      BY <2>1, <2>2
<1>7. ran' \in SUBSET Addrs
    BY <1>0 DEF Reset
<1> QED
    BY <1>1, <1>4, <1>5, <1>6, <1>7

\* Every step of the loop thread, of other threads and of the clock keeps the
\* types.
LEMMA TypeStep == IInv /\ [Next]_vars => TypeOK'
<1> SUFFICES ASSUME IInv, [Next]_vars PROVE TypeOK'
    OBVIOUS
<1>0. TypeOK /\ Numbered
    BY Zenon DEF IInv
<1> USE DEF setVars, batchVars, threadVars
<1>1. ASSUME NEW a \in Addrs, NEW d \in Delays, NEW i \in Intervals,
             LoopAddTimer(a, d, i)
      PROVE  TypeOK'
  <2> DEFINE t == NewTimer(d, i)
  <2>1. /\ t \in TimerObjects /\ t.sequence = created + 1 /\ created + 1 \in Sequences
      BY <1>0, <1>1, NewTimerType DEF LoopAddTimer
  <2>2. Insert(a, t)
      BY <1>1 DEF LoopAddTimer
  <2> HIDE DEF t
  <2>3. /\ timers' \in SUBSET Entries
        /\ activeTimers' \in SUBSET (Addrs \X Sequences)
        /\ timerfd' \in Time \cup {Disarmed}
      BY <1>0, <2>1, <2>2, InsertType
  <2>4. timer' \in [Addrs -> TimerObjects] /\ ids' \in SUBSET TimerIds
      BY <1>0, <1>1, <2>1 DEF LoopAddTimer, TypeOK, TimerIds, t
  <2> QED
      BY <1>0, <1>1, <2>1, <2>3, <2>4 DEF LoopAddTimer, TypeOK
<1>2. ASSUME NEW id \in ids, LoopCancel(id) PROVE TypeOK'
  <2>1. id \in TimerIds
      BY <1>0, <1>2 DEF TypeOK
  <2> QED
      BY <1>0, <1>2, <2>1, CancelType DEF LoopCancel, TypeOK
<1>3. ASSUME NEW th \in Threads, NEW a \in Addrs, NEW d \in Delays,
             NEW i \in Intervals, AddTimer(th, a, d, i)
      PROVE  TypeOK'
  <2>1. NewTimer(d, i) \in TimerObjects /\ created + 1 \in Sequences
      BY <1>0, <1>3, NewTimerType DEF AddTimer
  <2>2. <<a, created + 1>> \in TimerIds
      BY <2>1 DEF TimerIds
  <2> QED
      BY <1>0, <1>3, <2>1, <2>2 DEF AddTimer, TypeOK
<1>4. ASSUME NEW th \in Threads, AddTimerReturns(th) PROVE TypeOK'
  <2>1. adding[th][1] \in Addrs
      BY <1>0, <1>4 DEF Numbered, AddTimerReturns
  <2>2. <<adding[th][1], timer[adding[th][1]].sequence>> \in TimerIds
      BY <1>0, <2>1 DEF TypeOK, TimerIds, TimerObjects
  <2>3. NoId \in TimerIds
      BY ConstantsAssumption DEF NoId, TimerIds, Sequences
  <2> QED
      BY <1>0, <1>4, <2>2, <2>3 DEF AddTimerReturns, TypeOK
<1>5. ASSUME NEW th \in Threads, NEW id \in ids, Cancel(th, id) PROVE TypeOK'
  <2>1. id \in TimerIds
      BY <1>0, <1>5 DEF TypeOK
  <2> QED
      BY <1>0, <1>5, <2>1 DEF Cancel, TypeOK
<1>6. CASE AddTimerInLoop
  <2> DEFINE a == Head(pendingFunctors).id[1]
  <2>1. 1 \in Adds /\ a = pendingFunctors[1].id[1]
      BY <1>0, <1>6 DEF AddTimerInLoop, TypeOK, Adds
  <2>2. a \in Addrs
      BY <1>0, <2>1, Zenon DEF Numbered, Target
  <2>3. timer[a] \in TimerObjects /\ Insert(a, timer[a])
      BY <1>0, <1>6, <2>2 DEF AddTimerInLoop, TypeOK
  <2>4. /\ timers' \in SUBSET Entries
        /\ activeTimers' \in SUBSET (Addrs \X Sequences)
        /\ timerfd' \in Time \cup {Disarmed}
      BY <1>0, <2>2, <2>3, InsertType, Zenon
  <2>5. pendingFunctors' \in Seq([op : {"add", "cancel"}, id : TimerIds])
      BY <1>0, <1>6, HeadTailProperties DEF AddTimerInLoop, TypeOK
  <2> QED
      BY <1>0, <1>6, <2>4, <2>5 DEF AddTimerInLoop, TypeOK
<1>7. CASE CancelFunctor
  <2>1. /\ pendingFunctors' \in Seq([op : {"add", "cancel"}, id : TimerIds])
        /\ Head(pendingFunctors).id \in TimerIds
    <3> DEFINE F == [op : {"add", "cancel"}, id : TimerIds]
    <3>1. pendingFunctors \in Seq(F)
        BY <1>0, Zenon DEF TypeOK
    <3>2. pendingFunctors # <<>> /\ pendingFunctors' = Tail(pendingFunctors)
        BY <1>7, Zenon DEF CancelFunctor
    <3>3. \A f \in F : f.id \in TimerIds
        OBVIOUS
    <3> HIDE DEF F
    <3>4. Head(pendingFunctors) \in F /\ pendingFunctors' \in Seq(F)
        BY <3>1, <3>2, HeadTailProperties
    <3> QED
        BY <3>3, <3>4, Zenon DEF F
  <2>2. /\ timer' \in [Addrs -> TimerObjects]
        /\ timers' \in SUBSET Entries
        /\ activeTimers' \in SUBSET (Addrs \X Sequences)
        /\ cancelingTimers' \in SUBSET TimerIds
        /\ cancelled' \in SUBSET TimerIds
        /\ ran' \in SUBSET Addrs
      BY <1>0, <1>7, <2>1, CancelType DEF CancelFunctor
  <2> QED
      BY <1>0, <1>7, <2>1, <2>2 DEF CancelFunctor, TypeOK
<1>8. CASE HandleRead
    BY <1>0, <1>8 DEF HandleRead, TypeOK, Due
<1>9. CASE RunTimer
  <2> DEFINE e == Earliest(toRun)
  <2>1. e \in toRun /\ e \in Entries
    <3>1. toRun # {} /\ toRun \in SUBSET Entries
        BY <1>0, <1>9 DEF RunTimer, TypeOK
    <3> QED
        BY <3>1, EntriesAreNumbers, EarliestIs
  <2>2. e[2] \in Addrs /\ timer[e[2]].sequence \in Sequences
      BY <1>0, <2>1 DEF TypeOK, Entries, TimerObjects
  <2>3. running' \in Sequences /\ ran' \in SUBSET Addrs /\ toRun' \in SUBSET expired
      BY <1>0, <1>9, <2>2 DEF RunTimer, TypeOK
  <2> QED
      BY <1>0, <1>9, <2>3 DEF RunTimer, TypeOK
<1>10. CASE CallbackReturns
    BY <1>0, <1>10, ConstantsAssumption DEF CallbackReturns, TypeOK, Sequences
<1>11. CASE Reset
    BY <1>0, <1>11, ResetType DEF Reset, TypeOK
<1>12. CASE Tick
    BY <1>0, <1>12 DEF Tick, TypeOK, Time
<1>13. CASE UNCHANGED vars
    BY <1>0, <1>13 DEF vars, TypeOK
<1> QED
    BY <1>1, <1>2, <1>3, <1>4, <1>5, <1>6, <1>7, <1>8, <1>9, <1>10, <1>11,
       <1>12, <1>13 DEF Next, LoopStep

-----------------------------------------------------------------------------
(* The functor queue.                                                       *)

\* The queue of functors has a length.
LEMMA QueueLength == TypeOK => \E n \in Nat : n = Len(pendingFunctors) + 1
<1> SUFFICES ASSUME TypeOK PROVE Len(pendingFunctors) \in Nat
    OBVIOUS
<1>1. PICK F : pendingFunctors \in Seq(F)
    BY Zenon DEF TypeOK
<1> QED
    BY <1>1

\* queueInLoop puts a functor behind the others.
LEMMA Pushed ==
    ASSUME TypeOK, NEW f, pendingFunctors' = Append(pendingFunctors, f),
           NEW n \in Nat, n = Len(pendingFunctors) + 1
    PROVE  /\ \A i \in Adds : i # n /\ i \in Adds' /\ Target(i)' = Target(i)
           /\ \A i \in Adds' : i \in Adds \/ i = n
           /\ n \in Adds' <=> f.op = "add"
           /\ Target(n)' = f.id[1]
<1>1. PICK F : pendingFunctors \in Seq(F)
    BY Zenon DEF TypeOK
<1>2. /\ DOMAIN pendingFunctors = 1..(n - 1)
      /\ DOMAIN pendingFunctors' = 1..n
      /\ \A i \in 1..(n - 1) : pendingFunctors'[i] = pendingFunctors[i]
      /\ pendingFunctors'[n] = f
  <2>1. pendingFunctors \in Seq(F \cup {f}) /\ f \in F \cup {f}
      BY <1>1
  <2> QED
      BY <2>1, AppendProperties
<1>3. \A i \in 1..n : i \in 1..(n - 1) \/ i = n
    OBVIOUS
<1>4. n \in 1..n /\ n \notin 1..(n - 1) /\ 1..(n - 1) \subseteq 1..n
  <2>1. n # 0
      BY <1>1
  <2> QED
      BY <2>1
<1> QED
    BY <1>2, <1>3, <1>4 DEF Adds, Target

\* doPendingFunctors takes the first.
LEMMA Popped ==
    ASSUME TypeOK, pendingFunctors # <<>>, pendingFunctors' = Tail(pendingFunctors)
    PROVE  /\ \A i \in Adds : i \in Nat /\ (i # 1 => i - 1 \in Adds')
           /\ \A i \in Adds' : /\ i \in Nat /\ i + 1 # 1 /\ i + 1 \in Adds
                               /\ Target(i)' = Target(i + 1)
           /\ 1 \in Adds <=> Head(pendingFunctors).op = "add"
           /\ Head(pendingFunctors).id[1] = Target(1)
<1>1. PICK F : pendingFunctors \in Seq(F)
    BY Zenon DEF TypeOK
<1> QED
    BY <1>1 DEF Adds, Target

\* The functors and the ids threads hold name Timer objects, and no two add
\* functors the same one.
FunctorsOk ==
    /\ OneFunctor
    /\ \A i \in Adds : Target(i) \in Addrs

\* A functor that adds a Timer no other one adds.
LEMMA AddPushed ==
    ASSUME TypeOK, FunctorsOk, NEW a \in Addrs, ~IsQueued(a), NEW s,
           pendingFunctors' = Append(pendingFunctors, [op |-> "add", id |-> <<a, s>>])
    PROVE  FunctorsOk' /\ \A b \in Addrs : IsQueued(b)' <=> IsQueued(b) \/ b = a
<1>1. PICK n \in Nat : n = Len(pendingFunctors) + 1
    BY QueueLength
<1>2. /\ \A i \in Adds : i # n /\ i \in Adds' /\ Target(i)' = Target(i)
      /\ \A i \in Adds' : i \in Adds \/ i = n
      /\ n \in Adds' /\ Target(n)' = a
    BY <1>1, Pushed
<1> QED
    BY <1>2 DEF FunctorsOk, OneFunctor, IsQueued

\* A functor that cancels.
LEMMA CancelPushed ==
    ASSUME TypeOK, FunctorsOk, NEW id,
           pendingFunctors' = Append(pendingFunctors, [op |-> "cancel", id |-> id])
    PROVE  FunctorsOk' /\ \A b \in Addrs : IsQueued(b)' <=> IsQueued(b)
<1>1. PICK n \in Nat : n = Len(pendingFunctors) + 1
    BY QueueLength
<1>2. /\ \A i \in Adds : i # n /\ i \in Adds' /\ Target(i)' = Target(i)
      /\ \A i \in Adds' : i \in Adds \/ i = n
      /\ n \notin Adds'
    BY <1>1, Pushed
<1> QED
    BY <1>2 DEF FunctorsOk, OneFunctor, IsQueued

\* The loop takes a functor that adds: its Timer is no longer queued.
LEMMA AddPopped ==
    ASSUME TypeOK, FunctorsOk, pendingFunctors # <<>>,
           Head(pendingFunctors).op = "add", pendingFunctors' = Tail(pendingFunctors)
    PROVE  LET a == Head(pendingFunctors).id[1] IN
             /\ a \in Addrs /\ IsQueued(a) /\ FunctorsOk'
             /\ \A b \in Addrs : IsQueued(b)' <=> IsQueued(b) /\ b # a
<1> DEFINE a == Head(pendingFunctors).id[1]
<1>1. 1 \in Adds /\ a = Target(1)
    BY Popped
<1> HIDE DEF a
<1>2. /\ \A i \in Adds : i \in Nat /\ (i # 1 => i - 1 \in Adds')
      /\ \A i \in Adds' : /\ i \in Nat /\ i + 1 # 1 /\ i + 1 \in Adds
                          /\ Target(i)' = Target(i + 1)
    BY Popped
<1>3. ASSUME NEW b \in Addrs
      PROVE  IsQueued(b)' <=> IsQueued(b) /\ b # a
  <2>1. ASSUME IsQueued(b)' PROVE IsQueued(b) /\ b # a
      BY <1>1, <1>2, <2>1 DEF IsQueued, FunctorsOk, OneFunctor
  <2>2. ASSUME IsQueued(b), b # a PROVE IsQueued(b)'
    <3>1. PICK i \in Adds : Target(i) = b
        BY <2>2 DEF IsQueued
    <3>2. i # 1 /\ i - 1 \in Adds' /\ (i - 1) + 1 = i
        BY <1>1, <1>2, <2>2, <3>1
    <3>3. Target(i - 1)' = Target(i)
        BY <1>2, <3>2
    <3> QED
        BY <3>1, <3>2, <3>3 DEF IsQueued
  <2> QED
      BY <2>1, <2>2
<1>4. \A i, j \in Adds' : i \in Nat /\ j \in Nat /\ (i + 1 = j + 1 => i = j)
    BY <1>2
<1>5. FunctorsOk'
    BY <1>2, <1>4 DEF FunctorsOk, OneFunctor
<1> QED
    BY <1>1, <1>3, <1>5 DEF IsQueued, FunctorsOk, a

\* The loop takes a functor that cancels.
LEMMA CancelPopped ==
    ASSUME TypeOK, FunctorsOk, pendingFunctors # <<>>,
           Head(pendingFunctors).op = "cancel", pendingFunctors' = Tail(pendingFunctors)
    PROVE  FunctorsOk' /\ \A b \in Addrs : IsQueued(b)' <=> IsQueued(b)
<1>2. /\ \A i \in Adds : i \in Nat /\ (i # 1 => i - 1 \in Adds')
      /\ \A i \in Adds' : /\ i \in Nat /\ i + 1 # 1 /\ i + 1 \in Adds
                          /\ Target(i)' = Target(i + 1)
      /\ 1 \notin Adds
    BY Popped
<1>3. ASSUME NEW b \in Addrs
      PROVE  IsQueued(b)' <=> IsQueued(b)
  <2>1. ASSUME IsQueued(b)' PROVE IsQueued(b)
      BY <1>2, <2>1 DEF IsQueued
  <2>2. ASSUME IsQueued(b) PROVE IsQueued(b)'
    <3>1. PICK i \in Adds : Target(i) = b
        BY <2>2 DEF IsQueued
    <3>2. i # 1 /\ i - 1 \in Adds' /\ (i - 1) + 1 = i
        BY <1>2, <3>1
    <3>3. Target(i - 1)' = Target(i)
        BY <1>2, <3>2
    <3> QED
        BY <3>1, <3>2, <3>3 DEF IsQueued
  <2> QED
      BY <2>1, <2>2
<1>4. \A i, j \in Adds' : i \in Nat /\ j \in Nat /\ (i + 1 = j + 1 => i = j)
    BY <1>2
<1>5. FunctorsOk'
    BY <1>2, <1>4 DEF FunctorsOk, OneFunctor
<1> QED
    BY <1>3, <1>5

\* Who does not touch the queue leaves the Timers in it.
LEMMA SameQueue ==
    ASSUME UNCHANGED pendingFunctors
    PROVE  (FunctorsOk => FunctorsOk') /\ \A b \in Addrs : IsQueued(b)' <=> IsQueued(b)
<1>1. Adds' = Adds /\ \A i : Target(i)' = Target(i)
    BY DEF Adds, Target
<1> QED
    BY <1>1 DEF FunctorsOk, OneFunctor, IsQueued

-----------------------------------------------------------------------------
(* The two sets and the batch.                                              *)

\* insert() puts a Timer that is not scheduled into both sets.
LEMMA Inserted ==
    ASSUME TypeOK, SetsAgree, NEW a \in Addrs, NEW t, Insert(a, t), ~IsScheduled(a),
           timer'[a] = t, \A b \in Addrs : b # a => timer'[b] = timer[b]
    PROVE  SetsAgree' /\ \A b \in Addrs : IsScheduled(b)' <=> IsScheduled(b) \/ b = a
<1>1. timers \in SUBSET Entries
    BY Zenon DEF TypeOK
<1>2. \A e \in timers : e[2] \in Addrs /\ e[2] # a /\ timer'[e[2]] = timer[e[2]]
    BY <1>1 DEF Entries, IsScheduled
<1>3. timers' = timers \cup {<<t.expiration, a>>}
    BY Zenon DEF Insert
<1>4. activeTimers' = activeTimers \cup {<<a, t.sequence>>}
    BY Zenon DEF Insert
<1>5. \A e \in timers' : timer'[e[2]].expiration = e[1]
    BY <1>2, <1>3 DEF SetsAgree
<1>6. activeTimers' = {<<e[2], timer'[e[2]].sequence>> : e \in timers'}
  <2> DEFINE N(e) == <<e[2], timer'[e[2]].sequence>>
  <2>1. \A e \in timers : <<e[2], timer[e[2]].sequence>> = N(e)
      BY <1>2
  <2>2. N(<<t.expiration, a>>) = <<a, t.sequence>>
      OBVIOUS
  <2>3. activeTimers = {N(e) : e \in timers}
      BY <2>1 DEF SetsAgree
  <2> HIDE DEF N
  <2>4. activeTimers' = {N(e) : e \in timers'}
      BY <1>3, <1>4, <2>2, <2>3
  <2> QED
      BY <2>4 DEF N
<1>7. ASSUME NEW b \in Addrs
      PROVE  IsScheduled(b)' <=> IsScheduled(b) \/ b = a
  <2>1. <<t.expiration, a>>[2] = a
      OBVIOUS
  <2> QED
      BY <1>3, <2>1 DEF IsScheduled
<1> QED
    BY <1>5, <1>6, <1>7 DEF SetsAgree

\* cancelInLoop takes a Timer it finds out of both sets.
LEMMA TakenOut ==
    ASSUME TypeOK, SetsAgree, NEW id, CancelActive(id)
    PROVE  /\ id[1] \in Addrs /\ IsScheduled(id[1])
           /\ SetsAgree'
           /\ \A b \in Addrs : IsScheduled(b)' <=> IsScheduled(b) /\ b # id[1]
           /\ timer'[id[1]] = Freed
           /\ \A b \in Addrs : b # id[1] => timer'[b] = timer[b]
<1>1. timers \in SUBSET Entries /\ timer \in [Addrs -> TimerObjects]
    BY Zenon DEF TypeOK
<1>2. PICK e \in timers : id = <<e[2], timer[e[2]].sequence>>
    BY DEF CancelActive, SetsAgree
<1> DEFINE a == e[2]
<1>3. a \in Addrs /\ id[1] = a /\ e = <<timer[a].expiration, a>> /\ IsScheduled(a)
    BY <1>1, <1>2 DEF Entries, SetsAgree, IsScheduled
<1>4. \A f \in timers : f[2] = a => f = e
    BY <1>1, <1>3 DEF Entries, SetsAgree
<1>5. timers' = timers \ {e} /\ activeTimers' = activeTimers \ {id}
    BY <1>3 DEF CancelActive
<1>6. timer'[a] = Freed /\ \A b \in Addrs : b # a => timer'[b] = timer[b]
    BY <1>1, <1>3 DEF CancelActive
<1> HIDE DEF a
<1>7. \A f \in timers' : f[2] \in Addrs /\ f[2] # a /\ timer'[f[2]] = timer[f[2]]
    BY <1>1, <1>4, <1>5, <1>6 DEF Entries
<1>8. \A f \in timers' : timer'[f[2]].expiration = f[1]
    BY <1>5, <1>7 DEF SetsAgree
<1>9. activeTimers' = {<<f[2], timer'[f[2]].sequence>> : f \in timers'}
  <2>1. activeTimers' = {<<f[2], timer[f[2]].sequence>> : f \in timers'}
      BY <1>2, <1>3, <1>4, <1>5 DEF SetsAgree, a
  <2> QED
      BY <2>1, <1>7
<1>10. ASSUME NEW b \in Addrs
       PROVE  IsScheduled(b)' <=> IsScheduled(b) /\ b # a
    BY <1>3, <1>4, <1>5, <1>7 DEF IsScheduled
<1> QED
    BY <1>3, <1>6, <1>8, <1>9, <1>10 DEF SetsAgree

\* getExpired moves the Timers that are due from both sets to the batch.
LEMMA Expired ==
    ASSUME TypeOK, SetsAgree, HandleRead
    PROVE  /\ SetsAgree' /\ BatchAgrees'
           /\ \A b \in Addrs : ~IsBatched(b)
           /\ \A b \in Addrs : /\ IsScheduled(b)' \/ IsBatched(b)' <=> IsScheduled(b)
                               /\ ~(IsScheduled(b)' /\ IsBatched(b)')
<1>1. timers \in SUBSET Entries /\ expired = {}
    BY Zenon DEF TypeOK, HandleRead
<1>2. expired' \in SUBSET timers /\ timers' = timers \ expired' /\ timer' = timer
    BY DEF HandleRead
<1>3. activeTimers' = activeTimers \ {<<e[2], timer[e[2]].sequence>> : e \in expired'}
    BY Zenon DEF HandleRead
<1>4. \A e, f \in timers : e[2] = f[2] => e = f
    BY <1>1 DEF Entries, SetsAgree
<1>5. activeTimers' = {<<e[2], timer'[e[2]].sequence>> : e \in timers'}
    BY <1>2, <1>3, <1>4 DEF SetsAgree
<1>6. SetsAgree' /\ BatchAgrees'
    BY <1>2, <1>5 DEF SetsAgree, BatchAgrees
<1> QED
    BY <1>1, <1>2, <1>4, <1>6 DEF IsScheduled, IsBatched

\* reset() inserts the Timers that go on into both sets and deletes the others.
LEMMA PutBack ==
    ASSUME TypeOK, SetsAgree, OnePlace, Reset
    PROVE  /\ SetsAgree' /\ BatchAgrees'
           /\ \A b \in Addrs : ~IsBatched(b)'
           /\ \A b \in Addrs : Restarts(b) /\ IsBatched(b) =>
                /\ IsScheduled(b)' /\ timer'[b] # Freed
                /\ timer'[b].sequence = timer[b].sequence
           /\ \A b \in Addrs : ~Restarts(b) /\ IsBatched(b) =>
                ~IsScheduled(b)' /\ timer'[b] = Freed
           /\ \A b \in Addrs : ~IsBatched(b) =>
                (IsScheduled(b)' <=> IsScheduled(b)) /\ timer'[b] = timer[b]
<1>1. timers \in SUBSET Entries /\ timer \in [Addrs -> TimerObjects]
    BY Zenon DEF TypeOK
<1>2. ASSUME NEW b \in Addrs
      PROVE  b \in Restarted <=> Restarts(b) /\ IsBatched(b)
    BY DEF Restarted, IsBatched
<1>3. ASSUME NEW b \in Addrs
      PROVE  /\ b \in Restarted =>
                  timer'[b] = [timer[b] EXCEPT !.expiration = readTime + timer[b].interval]
             /\ b \notin Restarted /\ IsBatched(b) => timer'[b] = Freed
             /\ ~IsBatched(b) => timer'[b] = timer[b]
  <2>1. timer' = [a \in Addrs |->
         IF a \in Restarted
           THEN [timer[a] EXCEPT !.expiration = readTime + timer[a].interval]
         ELSE IF IsBatched(a) THEN Freed
         ELSE timer[a]]
      BY Zenon DEF Reset, IsBatched
  <2> QED
      BY <1>2, <2>1
<1>4. ASSUME NEW b \in Addrs, b \in Restarted
      PROVE  timer'[b].sequence = timer[b].sequence /\ timer'[b] # Freed
  <2>1. /\ timer[b] \in TimerObjects /\ timer[b].repeat
        /\ timer'[b] = [timer[b] EXCEPT !.expiration = readTime + timer[b].interval]
      BY <1>1, <1>2, <1>3, <1>4 DEF Restarts
  <2>2. /\ timer'[b].sequence = timer[b].sequence /\ timer'[b].repeat
      BY <2>1 DEF TimerObjects
  <2> QED
      BY <2>2 DEF Freed
<1>5. timers' = timers \cup {<<timer'[a].expiration, a>> : a \in Restarted}
    BY Zenon DEF Reset
<1>6. activeTimers' = activeTimers \cup {<<a, timer[a].sequence>> : a \in Restarted}
    BY Zenon DEF Reset
<1>7. Restarted \in SUBSET Addrs /\ expired' = {}
    BY DEF Restarted, Reset
<1>8. \A e \in timers : e[2] \in Addrs /\ timer'[e[2]] = timer[e[2]]
    BY <1>1, <1>3 DEF Entries, OnePlace, IsScheduled
<1>9. \A e \in timers' : timer'[e[2]].expiration = e[1]
    BY <1>5, <1>8 DEF SetsAgree
<1>10. activeTimers' = {<<e[2], timer'[e[2]].sequence>> : e \in timers'}
  <2> DEFINE N(e) == <<e[2], timer'[e[2]].sequence>>
  <2>1. \A e \in timers : <<e[2], timer[e[2]].sequence>> = N(e)
      BY <1>8
  <2>2. \A a \in Restarted : N(<<timer'[a].expiration, a>>) = <<a, timer[a].sequence>>
      BY <1>4, <1>7
  <2>3. activeTimers = {N(e) : e \in timers}
      BY <2>1 DEF SetsAgree
  <2> HIDE DEF N
  <2>4. {<<a, timer[a].sequence>> : a \in Restarted}
          = {N(e) : e \in {<<timer'[a].expiration, a>> : a \in Restarted}}
      BY <2>2
  <2>5. activeTimers' = {N(e) : e \in timers'}
      BY <1>5, <1>6, <2>3, <2>4
  <2> QED
      BY <2>5 DEF N
<1>11. ASSUME NEW b \in Addrs
       PROVE  IsScheduled(b)' <=> IsScheduled(b) \/ b \in Restarted
  <2>1. \A a : <<timer'[a].expiration, a>>[2] = a
      OBVIOUS
  <2>2. \A e \in timers' : e \in timers \/ e[2] \in Restarted
      BY <1>5, <2>1
  <2>3. \A a \in Restarted : \E e \in timers' : e[2] = a
      BY <1>5, <2>1
  <2>4. timers \subseteq timers'
      BY <1>5
  <2> QED
      BY <2>2, <2>3, <2>4 DEF IsScheduled
<1>12. SetsAgree' /\ BatchAgrees' /\ \A b \in Addrs : ~IsBatched(b)'
    BY <1>7, <1>9, <1>10 DEF SetsAgree, BatchAgrees, IsBatched
<1> QED
    BY <1>2, <1>3, <1>4, <1>11, <1>12 DEF OnePlace

-----------------------------------------------------------------------------
(* Each Timer is in one place.                                              *)

\* The parts of the invariant that say where Timers are.
Places == SetsAgree /\ BatchAgrees /\ Held /\ OnePlace /\ FunctorsOk

\* Who leaves the sets, the batch and the Timers alone leaves them in place.
LEMMA SamePlaces ==
    ASSUME Places, UNCHANGED <<timer, setVars, expired>>, FunctorsOk',
           \A b \in Addrs : IsQueued(b)' <=> IsQueued(b)
    PROVE  Places'
<1> USE DEF setVars
<1>1. SetsAgree' /\ BatchAgrees'
    BY DEF Places, SetsAgree, BatchAgrees
<1>2. \A b \in Addrs : /\ IsScheduled(b)' <=> IsScheduled(b)
                       /\ IsBatched(b)' <=> IsBatched(b)
                       /\ (b \in Allocated)' <=> b \in Allocated
    BY DEF IsScheduled, IsBatched, Allocated
<1> QED
    BY <1>1, <1>2 DEF Places, Held, OnePlace

\* Allocating a Timer and inserting it at once, or queueing it.
LEMMA NewPlace ==
    ASSUME TypeOK, Places, NEW a \in Addrs, a \notin Allocated,
           timer'[a] # Freed, \A b \in Addrs : b # a => timer'[b] = timer[b],
           UNCHANGED expired, SetsAgree', FunctorsOk',
           \/ /\ \A b \in Addrs : IsQueued(b)' <=> IsQueued(b) \/ b = a
              /\ \A b \in Addrs : IsScheduled(b)' <=> IsScheduled(b)
           \/ /\ \A b \in Addrs : IsQueued(b)' <=> IsQueued(b)
              /\ \A b \in Addrs : IsScheduled(b)' <=> IsScheduled(b) \/ b = a
    PROVE  Places'
<1>1. ~IsQueued(a) /\ ~IsScheduled(a) /\ ~IsBatched(a)
    BY DEF Places, Held
<1>2. \A b \in Addrs : IsBatched(b)' <=> IsBatched(b)
    BY DEF IsBatched
<1>3. \A b \in Addrs : (b \in Allocated)' <=> b \in Allocated \/ b = a
    BY DEF Allocated
<1>4. BatchAgrees'
  <2>1. expired \in SUBSET Entries
      BY Zenon DEF TypeOK
  <2> QED
      BY <1>1, <2>1 DEF Places, BatchAgrees, IsBatched, Entries
<1>5. Held' /\ OnePlace'
    BY <1>1, <1>2, <1>3 DEF Places, Held, OnePlace
<1> QED
    BY <1>4, <1>5 DEF Places

\* Cancelling a Timer deletes it where it is scheduled, and moves no other.
LEMMA CancelPlace ==
    ASSUME TypeOK, Places, NEW id, CancelInLoop(id), UNCHANGED expired, FunctorsOk',
           \A b \in Addrs : IsQueued(b)' <=> IsQueued(b)
    PROVE  Places'
<1>1. CASE CancelActive(id)
  <2>1. /\ id[1] \in Addrs /\ IsScheduled(id[1])
        /\ SetsAgree'
        /\ \A b \in Addrs : IsScheduled(b)' <=> IsScheduled(b) /\ b # id[1]
        /\ timer'[id[1]] = Freed
        /\ \A b \in Addrs : b # id[1] => timer'[b] = timer[b]
      BY <1>1, TakenOut DEF Places
  <2>2. \A b \in Addrs : IsBatched(b)' <=> IsBatched(b)
      BY DEF IsBatched
  <2>3. \A b \in Addrs : (b \in Allocated)' <=> b \in Allocated /\ b # id[1]
      BY <2>1 DEF Allocated
  <2>4. ~IsQueued(id[1]) /\ ~IsBatched(id[1])
      BY <2>1 DEF Places, OnePlace
  <2>5. BatchAgrees'
    <3>1. expired \in SUBSET Entries
        BY Zenon DEF TypeOK
    <3> QED
        BY <2>1, <2>4, <3>1 DEF Places, BatchAgrees, IsBatched, Entries
  <2>6. Held' /\ OnePlace'
      BY <2>1, <2>2, <2>3, <2>4 DEF Places, Held, OnePlace
  <2> QED
      BY <2>1, <2>5, <2>6 DEF Places
<1>2. CASE CancelInactive(id)
  <2>1. UNCHANGED <<timer, setVars, expired>>
      BY <1>2 DEF CancelInactive
  <2> QED
      BY <2>1, SamePlaces
<1> QED
    BY <1>1, <1>2 DEF CancelInLoop

\* Every Timer stays in one place, or moves to the next.
LEMMA PlaceStep == IInv /\ [Next]_vars => Places'
<1> SUFFICES ASSUME IInv, [Next]_vars PROVE Places'
    OBVIOUS
<1>0. TypeOK /\ Places
    BY Zenon DEF IInv, Places, FunctorsOk, Numbered
<1> USE DEF setVars, batchVars, threadVars
<1>1. ASSUME NEW a \in Addrs, NEW d \in Delays, NEW i \in Intervals,
             LoopAddTimer(a, d, i)
      PROVE  Places'
  <2> DEFINE t == NewTimer(d, i)
  <2>1. t # Freed /\ timer' = [timer EXCEPT ![a] = t] /\ Insert(a, t)
      BY <1>0, <1>1, NewTimerType DEF LoopAddTimer
  <2> HIDE DEF t
  <2>2. a \notin Allocated /\ UNCHANGED <<expired, pendingFunctors>>
      BY <1>1 DEF LoopAddTimer
  <2>3. ~IsScheduled(a)
      BY <1>0, <2>2 DEF Places, Held
  <2>4. timer'[a] = t /\ \A b \in Addrs : b # a => timer'[b] = timer[b]
      BY <1>0, <2>1 DEF TypeOK
  <2>5. SetsAgree' /\ \A b \in Addrs : IsScheduled(b)' <=> IsScheduled(b) \/ b = a
    <3>1. SetsAgree
        BY <1>0 DEF Places
    <3> QED
        BY <1>0, <2>1, <2>3, <2>4, <3>1, Inserted
  <2>6. FunctorsOk' /\ \A b \in Addrs : IsQueued(b)' <=> IsQueued(b)
      BY <1>0, <2>2, SameQueue DEF Places
  <2> QED
      BY <1>0, <2>1, <2>2, <2>4, <2>5, <2>6, NewPlace
<1>2. ASSUME NEW id \in ids, LoopCancel(id) PROVE Places'
  <2>1. CancelInLoop(id) /\ UNCHANGED <<expired, pendingFunctors>>
      BY <1>2 DEF LoopCancel
  <2>2. FunctorsOk' /\ \A b \in Addrs : IsQueued(b)' <=> IsQueued(b)
      BY <1>0, <2>1, SameQueue DEF Places
  <2> QED
      BY <1>0, <2>1, <2>2, CancelPlace
<1>3. ASSUME NEW th \in Threads, NEW a \in Addrs, NEW d \in Delays,
             NEW i \in Intervals, AddTimer(th, a, d, i)
      PROVE  Places'
  <2> DEFINE t == NewTimer(d, i)
  <2>1. t # Freed /\ timer' = [timer EXCEPT ![a] = t]
      BY <1>0, <1>3, NewTimerType DEF AddTimer
  <2> HIDE DEF t
  <2>2. a \notin Allocated /\ UNCHANGED <<expired, timers, activeTimers>>
      BY <1>3 DEF AddTimer
  <2>3. ~IsScheduled(a) /\ ~IsQueued(a)
      BY <1>0, <2>2 DEF Places, Held
  <2>4. timer'[a] = t /\ \A b \in Addrs : b # a => timer'[b] = timer[b]
      BY <1>0, <2>1 DEF TypeOK
  <2>5. /\ SetsAgree'
        /\ \A b \in Addrs : IsScheduled(b)' <=> IsScheduled(b)
    <3>1. \A e \in timers : e[2] \in Addrs /\ timer'[e[2]] = timer[e[2]]
      <4>1. timers \in SUBSET Entries
          BY <1>0, Zenon DEF TypeOK
      <4> QED
          BY <2>3, <2>4, <4>1 DEF Entries, IsScheduled
    <3>2. {<<e[2], timer[e[2]].sequence>> : e \in timers}
            = {<<e[2], timer'[e[2]].sequence>> : e \in timers}
        BY <3>1
    <3> QED
        BY <1>0, <2>2, <3>1, <3>2 DEF Places, SetsAgree, IsScheduled
  <2>6. FunctorsOk' /\ \A b \in Addrs : IsQueued(b)' <=> IsQueued(b) \/ b = a
    <3>1. pendingFunctors' =
            Append(pendingFunctors, [op |-> "add", id |-> <<a, created + 1>>])
        BY <1>3 DEF AddTimer
    <3> QED
        BY <1>0, <2>3, <3>1, AddPushed DEF Places
  <2> QED
      BY <1>0, <2>1, <2>2, <2>4, <2>5, <2>6, NewPlace
<1>4. ASSUME NEW th \in Threads, NEW id \in ids, Cancel(th, id) PROVE Places'
  <2>1. /\ UNCHANGED <<timer, setVars, expired>>
        /\ pendingFunctors' = Append(pendingFunctors, [op |-> "cancel", id |-> id])
      BY <1>4 DEF Cancel
  <2>2. FunctorsOk' /\ \A b \in Addrs : IsQueued(b)' <=> IsQueued(b)
      BY <1>0, <2>1, CancelPushed DEF Places
  <2> QED
      BY <1>0, <2>1, <2>2, SamePlaces
\* Inserted by the functor: no longer queued, now scheduled.
<1>5. CASE AddTimerInLoop
  <2> DEFINE a == Head(pendingFunctors).id[1]
  <2>1. /\ pendingFunctors # <<>> /\ Head(pendingFunctors).op = "add"
        /\ pendingFunctors' = Tail(pendingFunctors)
        /\ Insert(a, timer[a]) /\ UNCHANGED <<timer, expired>>
      BY <1>5 DEF AddTimerInLoop
  <2>2. PICK x \in Addrs : x = a
      BY <1>0, <2>1, AddPopped DEF Places
  <2>3. /\ IsQueued(x) /\ FunctorsOk'
        /\ \A b \in Addrs : IsQueued(b)' <=> IsQueued(b) /\ b # x
      BY <1>0, <2>1, <2>2, AddPopped DEF Places
  <2>4. ~IsScheduled(x) /\ Insert(x, timer[x])
      BY <1>0, <2>1, <2>2, <2>3 DEF Places, OnePlace
  <2>5. SetsAgree' /\ \A b \in Addrs : IsScheduled(b)' <=> IsScheduled(b) \/ b = x
    <3>1. SetsAgree
        BY <1>0 DEF Places
    <3> QED
        BY <1>0, <2>1, <2>4, <3>1, Inserted
  <2>6. \A b \in Addrs : /\ IsBatched(b)' <=> IsBatched(b)
                         /\ (b \in Allocated)' <=> b \in Allocated
      BY <2>1 DEF IsBatched, Allocated
  <2>7. BatchAgrees'
      BY <1>0, <2>1 DEF Places, BatchAgrees
  <2>8. Held' /\ OnePlace'
      BY <1>0, <2>3, <2>5, <2>6 DEF Places, Held, OnePlace
  <2> QED
      BY <2>3, <2>5, <2>7, <2>8 DEF Places
<1>6. CASE CancelFunctor
  <2>1. /\ pendingFunctors # <<>> /\ Head(pendingFunctors).op = "cancel"
        /\ pendingFunctors' = Tail(pendingFunctors)
        /\ CancelInLoop(Head(pendingFunctors).id) /\ UNCHANGED expired
      BY <1>6 DEF CancelFunctor
  <2>2. FunctorsOk' /\ \A b \in Addrs : IsQueued(b)' <=> IsQueued(b)
      BY <1>0, <2>1, CancelPopped DEF Places
  <2> QED
      BY <1>0, <2>1, <2>2, CancelPlace
\* From the sets to the batch.
<1>7. CASE HandleRead
  <2>1. /\ SetsAgree' /\ BatchAgrees'
        /\ \A b \in Addrs : ~IsBatched(b)
        /\ \A b \in Addrs : /\ IsScheduled(b)' \/ IsBatched(b)' <=> IsScheduled(b)
                            /\ ~(IsScheduled(b)' /\ IsBatched(b)')
      BY <1>0, <1>7, Expired DEF Places
  <2>2. FunctorsOk' /\ \A b \in Addrs : IsQueued(b)' <=> IsQueued(b)
      BY <1>0, <1>7, SameQueue DEF Places, HandleRead
  <2>3. \A b \in Addrs : (b \in Allocated)' <=> b \in Allocated
      BY <1>7 DEF Allocated, HandleRead
  <2>4. Held' /\ OnePlace'
      BY <1>0, <2>1, <2>2, <2>3 DEF Places, Held, OnePlace
  <2> QED
      BY <2>1, <2>2, <2>4 DEF Places
\* From the batch back to the sets, or deleted.
<1>8. CASE Reset
  <2>1. /\ SetsAgree' /\ BatchAgrees'
        /\ \A b \in Addrs : ~IsBatched(b)'
        /\ \A b \in Addrs : Restarts(b) /\ IsBatched(b) =>
             IsScheduled(b)' /\ timer'[b] # Freed
        /\ \A b \in Addrs : ~Restarts(b) /\ IsBatched(b) =>
             ~IsScheduled(b)' /\ timer'[b] = Freed
        /\ \A b \in Addrs : ~IsBatched(b) =>
             (IsScheduled(b)' <=> IsScheduled(b)) /\ timer'[b] = timer[b]
      BY <1>0, <1>8, PutBack DEF Places
  <2>2. FunctorsOk' /\ \A b \in Addrs : IsQueued(b)' <=> IsQueued(b)
      BY <1>0, <1>8, SameQueue DEF Places, Reset
  <2>3. \A b \in Addrs : /\ (b \in Allocated)' <=> timer'[b] # Freed
                         /\ b \in Allocated <=> timer[b] # Freed
      BY DEF Allocated
  <2>4. Held' /\ OnePlace'
      BY <1>0, <2>1, <2>2, <2>3 DEF Places, Held, OnePlace
  <2> QED
      BY <2>1, <2>2, <2>4 DEF Places
<1>9. ASSUME \/ \E th \in Threads : AddTimerReturns(th)
             \/ RunTimer \/ CallbackReturns \/ Tick \/ UNCHANGED vars
      PROVE  Places'
  <2>1. UNCHANGED <<timer, setVars, expired, pendingFunctors>>
      BY <1>9 DEF AddTimerReturns, RunTimer, CallbackReturns, Tick, vars
  <2>2. FunctorsOk' /\ \A b \in Addrs : IsQueued(b)' <=> IsQueued(b)
      BY <1>0, <2>1, SameQueue DEF Places
  <2> QED
      BY <1>0, <2>1, <2>2, SamePlaces
<1> QED
    BY <1>1, <1>2, <1>3, <1>4, <1>5, <1>6, <1>7, <1>8, <1>9 DEF Next, LoopStep

-----------------------------------------------------------------------------
(* Numbers, the alarm, the batch and the marks.                             *)

\* What each step that changes Timer objects does to those that stay.
LEMMA TimersKept ==
    ASSUME IInv, [Next]_vars, NEW a \in Addrs
    PROVE  \/ timer'[a] = timer[a]
           \/ timer'[a] = Freed
           \/ /\ timer[a] # Freed /\ timer'[a] # Freed
              /\ timer'[a].sequence = timer[a].sequence
              /\ IsBatched(a) /\ Restarts(a) /\ Reset
           \/ /\ timer[a] = Freed /\ timer'[a].sequence = created + 1
              /\ created' = created + 1
<1>0. TypeOK /\ SetsAgree /\ OnePlace /\ timer \in [Addrs -> TimerObjects]
    BY Zenon DEF IInv, TypeOK
<1>1. ASSUME NEW b \in Addrs, NEW d \in Delays, NEW i \in Intervals,
             LoopAddTimer(b, d, i) \/ \E th \in Threads : AddTimer(th, b, d, i)
      PROVE  \/ timer'[a] = timer[a]
             \/ /\ timer[a] = Freed /\ timer'[a].sequence = created + 1
                /\ created' = created + 1
  <2>1. /\ NewTimer(d, i).sequence = created + 1 /\ b \notin Allocated
        /\ timer' = [timer EXCEPT ![b] = NewTimer(d, i)] /\ created' = created + 1
      BY <1>0, <1>1, NewTimerType DEF LoopAddTimer, AddTimer
  <2> QED
      BY <1>0, <2>1 DEF Allocated
<1>2. ASSUME NEW id, CancelInLoop(id)
      PROVE  timer'[a] = timer[a] \/ timer'[a] = Freed
    BY <1>0, <1>2 DEF CancelInLoop, CancelActive, CancelInactive
<1>3. CASE Reset
  <2>1. CASE IsBatched(a) /\ Restarts(a)
    <3>1. timer[a] # Freed
        BY <2>1 DEF Restarts, Freed
    <3> QED
        BY <1>0, <1>3, <2>1, <3>1, PutBack
  <2>2. CASE IsBatched(a) /\ ~Restarts(a)
      BY <1>0, <1>3, <2>2, PutBack
  <2>3. CASE ~IsBatched(a)
      BY <1>0, <1>3, <2>3, PutBack
  <2> QED
      BY <2>1, <2>2, <2>3
<1> QED
    BY <1>1, <1>2, <1>3 DEF Next, LoopStep, LoopCancel, AddTimerReturns, Cancel,
       AddTimerInLoop, CancelFunctor, HandleRead, RunTimer, CallbackReturns, Tick,
       vars

\* Numbers are given out in order and stay.
LEMMA NumberStep == IInv /\ [Next]_vars => Numbered'
<1> SUFFICES ASSUME IInv, [Next]_vars PROVE Numbered'
    OBVIOUS
<1>0. TypeOK /\ Numbered /\ created \in Nat /\ adding \in [Threads -> TimerIds]
  <2>1. /\ TypeOK /\ Numbered /\ created \in 0..MaxSequence
        /\ adding \in [Threads -> TimerIds]
      BY Zenon DEF IInv, TypeOK, Sequences
  <2> QED
      BY <2>1, ConstantsAssumption
<1>1. created' = created \/ created' = created + 1
    BY DEF Next, LoopStep, LoopAddTimer, LoopCancel, AddTimer, AddTimerReturns,
       Cancel, AddTimerInLoop, CancelFunctor, HandleRead, RunTimer,
       CallbackReturns, Reset, Tick, vars
<1>2. ASSUME NEW a \in Addrs, timer'[a] # Freed
      PROVE  timer'[a].sequence \in 1..created'
  <2>1. timer[a] # Freed => timer[a].sequence \in 1..created
      BY <1>0 DEF Numbered, Allocated
  <2> QED
      BY <1>0, <1>1, <1>2, <2>1, TimersKept
<1>3. ASSUME NEW th \in Threads
      PROVE  adding'[th] = NoId \/ adding'[th][1] \in Addrs
  <2>1. adding[th] = NoId \/ adding[th][1] \in Addrs
      BY <1>0 DEF Numbered
  <2>2. \/ adding'[th] = adding[th] \/ adding'[th] = NoId
        \/ \E a \in Addrs : adding'[th] = <<a, created + 1>>
      BY <1>0 DEF Next, LoopStep, LoopAddTimer, LoopCancel, AddTimer,
         AddTimerReturns, Cancel, AddTimerInLoop, CancelFunctor, HandleRead,
         RunTimer, CallbackReturns, Reset, Tick, vars, threadVars
  <2> QED
      BY <2>1, <2>2
<1>4. (\A i \in Adds : Target(i) \in Addrs)'
    BY PlaceStep DEF Places, FunctorsOk
<1>5. \A a \in Addrs : (a \in Allocated)' => timer'[a] # Freed
    BY DEF Allocated
<1> QED
    BY <1>2, <1>3, <1>4, <1>5 DEF Numbered

\* Who inserts a Timer moves the alarm when it comes before all others.
LEMMA InsertAlarm ==
    ASSUME TypeOK, AlarmBefore, NEW a \in Addrs, NEW t \in TimerObjects,
           Insert(a, t), UNCHANGED <<now, callingExpiredTimers>>
    PROVE  AlarmBefore'
<1>1. /\ now \in Nat /\ t.expiration \in Nat /\ timers \in SUBSET Entries
      /\ timerfd \in Time \cup {Disarmed}
    BY Zenon DEF TypeOK, TimerObjects, Time
<1>2. \A e \in timers : e[1] \in Nat
    BY <1>1 DEF Entries, Time
<1>3. timers' = timers \cup {<<t.expiration, a>>}
    BY Zenon DEF Insert
<1>4. ASSUME ~callingExpiredTimers, NEW e \in timers'
      PROVE  timerfd' # Disarmed /\ timerfd' <= Later(e[1], now)
  <2>1. CASE EarliestChanged(t)
    <3>1. timerfd' = FireTime(t.expiration)
        BY <2>1, Zenon DEF Insert
    <3>2. e[1] \in Nat /\ t.expiration <= e[1]
        BY <1>1, <1>2, <1>3, <2>1 DEF EarliestChanged
    <3> QED
        BY <1>1, <3>1, <3>2 DEF FireTime, Later, Disarmed
  <2>2. CASE ~EarliestChanged(t)
    <3>1. timerfd' = timerfd
        BY <2>2, Zenon DEF Insert
    <3>2. PICK f \in timers : f[1] <= t.expiration
        BY <1>1, <1>2, <2>2 DEF EarliestChanged
    <3>3. \A g \in timers : timerfd # Disarmed /\ timerfd <= Later(g[1], now)
        BY <1>4 DEF AlarmBefore
    <3>4. CASE e \in timers
        BY <3>1, <3>3, <3>4
    <3>5. CASE e[1] = t.expiration
        BY <1>1, <1>2, <3>1, <3>2, <3>3, <3>5 DEF Later, Time, Disarmed
    <3> QED
        BY <1>3, <3>4, <3>5
  <2> QED
      BY <2>1, <2>2
<1> QED
    BY <1>4 DEF AlarmBefore

\* No step leaves the loop without an alarm for a Timer that is to come.
LEMMA AlarmStep == IInv /\ [Next]_vars => AlarmBefore'
<1> SUFFICES ASSUME IInv, [Next]_vars PROVE AlarmBefore'
    OBVIOUS
<1>0. TypeOK /\ AlarmBefore /\ Places
    BY Zenon DEF IInv, Places, FunctorsOk, Numbered
<1>a. /\ now \in Nat /\ timers \in SUBSET Entries
      /\ timerfd \in Time \cup {Disarmed} /\ timer \in [Addrs -> TimerObjects]
    BY <1>0, Zenon DEF TypeOK, Time
<1> USE DEF setVars, batchVars, threadVars
<1>1. ASSUME NEW a \in Addrs, NEW d \in Delays, NEW i \in Intervals,
             LoopAddTimer(a, d, i)
      PROVE  AlarmBefore'
    BY <1>0, <1>1, NewTimerType, InsertAlarm DEF LoopAddTimer
<1>2. CASE AddTimerInLoop
  <2>1. PICK a \in Addrs : a = Head(pendingFunctors).id[1]
      BY <1>0, <1>2, AddPopped DEF AddTimerInLoop, Places
  <2> QED
      BY <1>0, <1>a, <1>2, <2>1, InsertAlarm DEF AddTimerInLoop
<1>3. ASSUME NEW id, CancelInLoop(id), UNCHANGED <<now, callingExpiredTimers, timerfd>>
      PROVE  AlarmBefore'
  <2>1. timers' \subseteq timers
      BY <1>3 DEF CancelInLoop, CancelActive, CancelInactive
  <2> QED
      BY <1>0, <1>3, <2>1 DEF AlarmBefore
<1>4. CASE HandleRead
    BY <1>4 DEF HandleRead, AlarmBefore
<1>5. CASE Reset
  <2>1. timers' \in SUBSET Entries /\ now' = now
      BY <1>0, <1>5, ResetType DEF Reset
  <2>2. ASSUME NEW e \in timers'
        PROVE  timerfd' # Disarmed /\ timerfd' <= Later(e[1], now)
    <3>1. timerfd' = FireTime(Earliest(timers')[1])
        BY <1>5, <2>2, Zenon DEF Reset, AlarmAfterReset
    <3>2. Earliest(timers') \in Entries /\ Before(Earliest(timers'), e)
        BY <2>1, <2>2, EntriesAreNumbers, EarliestIs
    <3>3. Earliest(timers')[1] \in Nat /\ e[1] \in Nat /\ Earliest(timers')[1] <= e[1]
        BY <2>1, <2>2, <3>2 DEF Entries, Time, Before
    <3> QED
        BY <1>a, <3>1, <3>3 DEF FireTime, Later, Disarmed
  <2> QED
      BY <2>1, <2>2 DEF AlarmBefore
<1>6. CASE Tick
  <2>1. /\ now' = now + 1
        /\ UNCHANGED <<timers, timerfd, callingExpiredTimers>>
      BY <1>6 DEF Tick
  <2>2. \A e \in timers : e[1] \in Nat
      BY <1>a DEF Entries, Time
  <2> QED
      BY <1>0, <1>a, <2>1, <2>2 DEF AlarmBefore, Later, Time, Disarmed
<1>7. CASE UNCHANGED <<now, timers, timerfd, callingExpiredTimers>>
    BY <1>0, <1>7 DEF AlarmBefore
<1> QED
    BY <1>1, <1>2, <1>3, <1>4, <1>5, <1>6, <1>7 DEF Next, LoopStep, LoopCancel,
       AddTimer, AddTimerReturns, Cancel, CancelFunctor, RunTimer,
       CallbackReturns, vars

\* The batch holds what was due when handleRead read the clock; a Timer that
\* is scheduled meanwhile comes later.
LEMMA DueStep == IInv /\ [Next]_vars => BatchDue'
<1> SUFFICES ASSUME IInv, [Next]_vars PROVE BatchDue'
    OBVIOUS
<1>0. TypeOK /\ BatchDue
    BY Zenon DEF IInv
<1>a. /\ now \in Nat /\ readTime \in Nat /\ timers \in SUBSET Entries
      /\ expired \in SUBSET Entries
      /\ ~callingExpiredTimers => expired = {}
    BY <1>0, Zenon DEF TypeOK, Time
<1>b. \A e \in timers : e[1] \in Nat
    BY <1>a DEF Entries, Time
<1> USE DEF setVars, batchVars, threadVars
<1>1. ASSUME NEW a \in Addrs, NEW d \in Delays, NEW i \in Intervals,
             LoopAddTimer(a, d, i)
      PROVE  BatchDue'
  <2>1. PICK x : x \in Nat /\ now <= x /\ timers' = timers \cup {<<x, a>>}
      BY <1>0, <1>1, NewTimerType DEF LoopAddTimer, Insert
  <2>2. UNCHANGED <<now, readTime, expired, callingExpiredTimers>>
      BY <1>1 DEF LoopAddTimer
  <2> QED
      BY <1>0, <1>a, <1>b, <2>1, <2>2 DEF BatchDue
<1>2. CASE AddTimerInLoop
    BY <1>0, <1>a, <1>2 DEF BatchDue, AddTimerInLoop
<1>3. ASSUME NEW id, CancelInLoop(id), UNCHANGED <<now, batchVars>>
      PROVE  BatchDue'
  <2>1. timers' \subseteq timers
      BY <1>3 DEF CancelInLoop, CancelActive, CancelInactive
  <2> QED
      BY <1>0, <1>3, <2>1 DEF BatchDue
<1>4. CASE HandleRead
  <2>1. /\ readTime' = now /\ now' = now
        /\ expired' = {e \in timers : e[1] <= now}
        /\ timers' = timers \ expired'
      BY <1>4 DEF HandleRead, Due
  <2> QED
      BY <1>a, <1>b, <2>1 DEF BatchDue
<1>5. CASE Reset
    BY <1>0, <1>5 DEF BatchDue, Reset
<1>6. CASE Tick
  <2>1. now' = now + 1 /\ UNCHANGED <<timers, expired, readTime, callingExpiredTimers>>
      BY <1>6 DEF Tick
  <2> QED
      BY <1>0, <1>a, <2>1 DEF BatchDue
<1>7. CASE UNCHANGED <<now, timers, expired, readTime, callingExpiredTimers>>
    BY <1>0, <1>7 DEF BatchDue
<1> QED
    BY <1>1, <1>2, <1>3, <1>4, <1>5, <1>6, <1>7 DEF Next, LoopStep, LoopCancel,
       AddTimer, AddTimerReturns, Cancel, CancelFunctor, RunTimer,
       CallbackReturns, vars

\* A Timer that has run is not freed while it is known to have run, and runs
\* again only when it repeats.
LEMMA RunStep == IInv /\ [Next]_vars => RunOnce'
<1> SUFFICES ASSUME IInv, [Next]_vars PROVE RunOnce'
    OBVIOUS
<1>0. TypeOK /\ RunOnce /\ Places
    BY Zenon DEF IInv, Places, FunctorsOk, Numbered
<1>a. /\ timer \in [Addrs -> TimerObjects] /\ ran \in SUBSET Addrs
      /\ expired \in SUBSET Entries /\ toRun \in SUBSET expired
      /\ ~callingExpiredTimers => expired = {}
    BY <1>0, Zenon DEF TypeOK
<1> USE DEF setVars, batchVars, threadVars
<1>1. ASSUME NEW a \in Addrs, NEW d \in Delays, NEW i \in Intervals,
             LoopAddTimer(a, d, i) \/ \E th \in Threads : AddTimer(th, a, d, i)
      PROVE  RunOnce'
  <2>1. /\ timer[a] = Freed /\ timer' = [timer EXCEPT ![a] = NewTimer(d, i)]
        /\ UNCHANGED <<expired, toRun, ran>>
      BY <1>1 DEF LoopAddTimer, AddTimer, Allocated
  <2>2. \A b \in ran : timer'[b] = timer[b]
      BY <1>0, <1>a, <2>1 DEF RunOnce, Allocated
  <2> QED
      BY <1>0, <1>a, <2>1, <2>2 DEF RunOnce, Allocated
<1>2. ASSUME NEW id, CancelInLoop(id), UNCHANGED batchVars
      PROVE  RunOnce'
  <2>1. \/ UNCHANGED <<timer, ran>>
        \/ timer' = [timer EXCEPT ![id[1]] = Freed] /\ ran' = ran \ {id[1]}
      BY <1>2 DEF CancelInLoop, CancelActive, CancelInactive
  <2>2. ran' \subseteq ran /\ \A b \in ran' : timer'[b] = timer[b]
      BY <1>a, <2>1
  <2> QED
      BY <1>0, <1>a, <1>2, <2>2 DEF RunOnce, Allocated
<1>3. CASE HandleRead
  <2>1. /\ expired = {} /\ UNCHANGED <<timer, ran>>
      BY <1>a, <1>3 DEF HandleRead
  <2> QED
      BY <1>0, <1>a, <2>1 DEF RunOnce, Allocated
\* The entry that runs leaves those still to run, and its Timer is live.
<1>4. CASE RunTimer
  <2> DEFINE e == Earliest(toRun)
  <2>1. e \in toRun
    <3>1. toRun # {} /\ toRun \in SUBSET Entries
        BY <1>a, <1>4 DEF RunTimer
    <3> QED
        BY <3>1, EntriesAreNumbers, EarliestIs
  <2>2. /\ toRun' = toRun \ {e} /\ ran' = ran \cup {e[2]}
        /\ UNCHANGED <<timer, expired>>
      BY <1>4 DEF RunTimer
  <2> HIDE DEF e
  <2>3. e \in expired /\ e[2] \in Allocated
      BY <1>0, <1>a, <2>1 DEF Places, Held, IsBatched, Entries
  <2> QED
      BY <1>0, <2>2, <2>3 DEF RunOnce, Allocated
<1>5. CASE Reset
  <2>1. toRun = {} /\ ran' = {a \in ran : timer'[a] # Freed}
      BY <1>5 DEF Reset
  <2>2. /\ \A b \in Addrs : ~Restarts(b) /\ IsBatched(b) => timer'[b] = Freed
        /\ \A b \in Addrs : ~IsBatched(b) => timer'[b] = timer[b]
      BY <1>0, <1>5, PutBack DEF Places
  <2>3. ASSUME NEW a \in ran, timer'[a] # Freed PROVE timer'[a].repeat
    <3>1. CASE IsBatched(a)
      <4>1. timer[a].repeat /\ a \in Restarted
          BY <1>a, <2>2, <2>3, <3>1 DEF Restarts, Restarted, IsBatched
      <4>2. timer' = [b \in Addrs |->
             IF b \in Restarted
               THEN [timer[b] EXCEPT !.expiration = readTime + timer[b].interval]
             ELSE IF IsBatched(b) THEN Freed
             ELSE timer[b]]
          BY <1>5, Zenon DEF Reset, IsBatched
      <4>3. timer'[a] = [timer[a] EXCEPT !.expiration = readTime + timer[a].interval]
          BY <1>a, <4>1, <4>2
      <4>4. timer[a] \in TimerObjects
          BY <1>a
      <4> QED
          BY <4>1, <4>3, <4>4 DEF TimerObjects
    <3>2. CASE ~IsBatched(a)
        BY <1>0, <1>a, <2>2, <3>2 DEF RunOnce, IsBatched
    <3> QED
        BY <3>1, <3>2
  <2> QED
      BY <1>a, <2>1, <2>3 DEF RunOnce, Allocated
<1>6. CASE UNCHANGED <<timer, ran, expired, toRun>>
    BY <1>0, <1>6 DEF RunOnce, Allocated
<1> QED
    BY <1>1, <1>2, <1>3, <1>4, <1>5, <1>6 DEF Next, LoopStep, LoopCancel,
       AddTimerReturns, Cancel, AddTimerInLoop, CancelFunctor,
       CallbackReturns, Tick, vars

\* A Timer cancelled in its batch keeps its mark until handleRead is entered
\* again, and no other Timer gets its number.
LEMMA MarkStep == IInv /\ [Next]_vars => Marked'
<1> SUFFICES ASSUME IInv, [Next]_vars PROVE Marked'
    OBVIOUS
<1>0. TypeOK /\ Marked /\ Places /\ Numbered
    BY Zenon DEF IInv, Places, FunctorsOk, Numbered
<1>a. /\ created \in 0..MaxSequence /\ cancelled \in SUBSET TimerIds
      /\ ~callingExpiredTimers => expired = {}
      /\ expired \in SUBSET Entries /\ timer \in [Addrs -> TimerObjects]
    BY <1>0, Zenon DEF TypeOK, Sequences
<1>b. created \in Nat
    BY <1>a, ConstantsAssumption
<1> USE DEF setVars, batchVars, threadVars
<1>1. ASSUME NEW id, CancelInLoop(id), UNCHANGED <<created, batchVars>>
      PROVE  Marked'
  <2>1. CASE CancelActive(id)
    <3>1. UNCHANGED <<cancelled, cancelingTimers, created, expired>>
        BY <1>1, <2>1 DEF CancelActive
    <3>2. \A b \in Addrs : timer'[b] = timer[b] \/ timer'[b].sequence = 0
        BY <1>a, <2>1 DEF CancelActive, Freed
    <3>3. \A c \in cancelled : c[1] \in Addrs /\ c[2] # 0
        BY <1>0, <1>b DEF Marked
    <3> QED
        BY <1>0, <3>1, <3>2, <3>3 DEF Marked, IsBatched
  <2>2. CASE CancelInactive(id) /\ ~InBatch(id)
      BY <1>0, <1>1, <2>2 DEF CancelInactive, Marked, IsBatched
  <2>3. CASE CancelInactive(id) /\ InBatch(id)
    <3>1. /\ cancelled' = cancelled \cup {id} /\ callingExpiredTimers
          /\ cancelingTimers' = cancelingTimers \cup {id}
          /\ UNCHANGED <<timer, expired, created>>
        BY <1>a, <1>1, <2>3 DEF CancelInactive, InBatch
    <3>2. id[1] \in Addrs /\ IsBatched(id[1]) /\ timer[id[1]].sequence = id[2]
        BY <1>a, <2>3 DEF InBatch, IsBatched, Entries
    <3>3. id[2] \in 1..created
        BY <1>0, <3>2 DEF Places, Held, Numbered
    <3> QED
        BY <1>0, <3>1, <3>2, <3>3 DEF Marked, IsBatched
  <2> QED
      BY <1>1, <2>1, <2>2, <2>3 DEF CancelInLoop
<1>2. CASE HandleRead
    BY <1>2 DEF HandleRead, Marked
<1>3. ASSUME UNCHANGED <<cancelled, cancelingTimers>>, expired' = expired \/ Reset,
             created' = created \/ created' = created + 1
      PROVE  Marked'
  <2>1. ASSUME NEW id \in cancelled, timer'[id[1]].sequence = id[2]
        PROVE  IsBatched(id[1])'
    <3> DEFINE a == id[1]
    <3>1. a \in Addrs /\ id[2] \in 1..created /\ id \in cancelingTimers
        BY <1>0 DEF Marked
    <3>2. id = <<a, id[2]>>
        BY <1>a DEF TimerIds
    <3>3. CASE timer'[a] = timer[a]
      <4>1. IsBatched(a)
          BY <1>0, <2>1, <3>3 DEF Marked
      <4>2. CASE Reset
        <5>1. timer[a] # Freed
            BY <1>0, <3>1, <4>1 DEF Places, Held, Allocated
        <5>2. Restarts(a)
            BY <1>0, <3>1, <3>3, <4>1, <4>2, <5>1, PutBack DEF Places
        <5> QED
            BY <2>1, <3>1, <3>2, <3>3, <5>2 DEF Restarts
      <4> QED
          BY <1>3, <4>1, <4>2 DEF IsBatched
    <3>4. CASE timer'[a] = Freed
        BY <1>b, <2>1, <3>1, <3>4 DEF Freed
    <3>5. CASE /\ timer'[a].sequence = timer[a].sequence
               /\ Restarts(a)
        BY <2>1, <3>1, <3>2, <3>5 DEF Restarts
    <3>6. CASE timer'[a].sequence = created + 1
        BY <1>b, <2>1, <3>1, <3>6
    <3> QED
        BY <3>1, <3>3, <3>4, <3>5, <3>6, TimersKept
  <2>2. \A id \in cancelled : id[1] \in Addrs /\ id[2] \in 1..created'
      BY <1>0, <1>b, <1>3 DEF Marked
  <2> QED
      BY <1>0, <1>3, <2>1, <2>2 DEF Marked
<1> QED
    BY <1>1, <1>2, <1>3 DEF Next, LoopStep, LoopAddTimer, LoopCancel, AddTimer,
       AddTimerReturns, Cancel, AddTimerInLoop, CancelFunctor, RunTimer,
       CallbackReturns, Reset, Tick, vars

-----------------------------------------------------------------------------
(* The theorems.                                                            *)

\* A TimerQueue that has been constructed holds no Timer.
LEMMA InitIInv == Init => IInv
<1> SUFFICES ASSUME Init PROVE IInv
    OBVIOUS
<1>1. TypeOK
  <2>1. /\ Freed \in TimerObjects /\ 0 \in Sequences /\ NoId \in TimerIds
      BY ConstantsAssumption DEF Freed, TimerObjects, Sequences, Time, NoId, TimerIds
  <2>2. /\ timer \in [Addrs -> TimerObjects] /\ created \in Sequences
        /\ running \in Sequences /\ adding \in [Threads -> TimerIds]
      BY <2>1, Zenon DEF Init
  <2>3. /\ now \in Time /\ readTime \in Time
        /\ timerfd \in Time \cup {Disarmed}
        /\ pendingFunctors \in Seq([op : {"add", "cancel"}, id : TimerIds])
      BY DEF Init, Time
  <2>4. /\ timers = {} /\ activeTimers = {} /\ cancelingTimers = {}
        /\ callingExpiredTimers = FALSE /\ expired = {} /\ toRun = {}
        /\ running = 0 /\ ids = {} /\ ran = {} /\ cancelled = {}
      BY Zenon DEF Init
  <2> QED
      BY <2>2, <2>3, <2>4 DEF TypeOK
<1>2. pendingFunctors = <<>> /\ Adds = {}
    BY DEF Init, Adds
<1>3. Numbered
    BY <1>2 DEF Init, Numbered, Allocated
<1>4. SetsAgree /\ BatchAgrees
    BY DEF Init, SetsAgree, BatchAgrees
<1>5. Held /\ OnePlace /\ OneFunctor
    BY <1>2 DEF Init, Held, OnePlace, OneFunctor, IsQueued, IsScheduled, IsBatched,
       Allocated
<1>6. AlarmBefore /\ BatchDue /\ RunOnce /\ Marked
    BY DEF Init, AlarmBefore, BatchDue, RunOnce, Marked
<1> QED
    BY <1>1, <1>3, <1>4, <1>5, <1>6 DEF IInv

\* The inductive invariant holds in every state the queue reaches.
LEMMA QueueInvariant == SafeSpec => []IInv
<1>1. IInv /\ [Next]_vars => IInv'
    BY TypeStep, NumberStep, PlaceStep, AlarmStep, DueStep, RunStep, MarkStep
       DEF IInv, Places, FunctorsOk
<1> QED
    BY InitIInv, <1>1, PTL DEF SafeSpec

\* The variables of TimerQueue have their types, and a batch exists only inside
\* handleRead.
THEOREM TimersTyped == SafeSpec => []TypeOK
<1>1. IInv => TypeOK
    BY DEF IInv
<1> QED
    BY QueueInvariant, <1>1, PTL

\* A set whose elements are all the same has none or one.
LEMMA NoneOrOne ==
    ASSUME NEW S, \A x, y \in S : x = y
    PROVE  Cardinality(S) = IF \E x : x \in S THEN 1 ELSE 0
<1>1. CASE S = {}
    BY <1>1, FS_EmptySet
<1>2. ASSUME NEW x \in S PROVE Cardinality(S) = 1
  <2>1. S = {x}
      OBVIOUS
  <2> QED
      BY <2>1, FS_Singleton
<1> QED
    BY <1>1, <1>2

\* A live Timer has one owner, a freed one none.
LEMMA OwnerOnce == IInv => OneOwner
<1> SUFFICES ASSUME IInv, NEW a \in Addrs
             PROVE  Cardinality(Queued(a)) + Cardinality(Scheduled(a))
                      + Cardinality(Batched(a)) = (IF a \in Allocated THEN 1 ELSE 0)
    BY DEF OneOwner
<1>0. /\ timers \in SUBSET Entries /\ expired \in SUBSET Entries
      /\ SetsAgree /\ BatchAgrees /\ Held /\ OnePlace /\ OneFunctor
    BY Zenon DEF IInv, TypeOK
<1>1. Cardinality(Queued(a)) = IF IsQueued(a) THEN 1 ELSE 0
  <2>1. /\ \A i, j \in Queued(a) : i = j
        /\ IsQueued(a) <=> \E i : i \in Queued(a)
      BY <1>0 DEF Queued, OneFunctor, Target, IsQueued
  <2> QED
      BY <2>1, NoneOrOne
<1>2. Cardinality(Scheduled(a)) = IF IsScheduled(a) THEN 1 ELSE 0
  <2>1. /\ \A e, f \in Scheduled(a) : e = f
        /\ IsScheduled(a) <=> \E e : e \in Scheduled(a)
      BY <1>0 DEF Scheduled, SetsAgree, Entries, IsScheduled
  <2> QED
      BY <2>1, NoneOrOne
<1>3. Cardinality(Batched(a)) = IF IsBatched(a) THEN 1 ELSE 0
  <2>1. /\ \A e, f \in Batched(a) : e = f
        /\ IsBatched(a) <=> \E e : e \in Batched(a)
      BY <1>0 DEF Batched, BatchAgrees, Entries, IsBatched
  <2> QED
      BY <2>1, NoneOrOne
<1> QED
    BY <1>0, <1>1, <1>2, <1>3 DEF Held, OnePlace

\* timers_ and activeTimers_ hold the same Timers, each Timer has exactly one
\* owner, so none leaks and none is deleted twice, and the loop is never left
\* without an alarm for the earliest of them.
THEOREM TimersStayConsistent == SafeSpec => []TimersConsistent
<1>1. IInv => AlarmSet
  <2> SUFFICES ASSUME IInv, ~callingExpiredTimers, timers # {}
               PROVE  timerfd # Disarmed /\ timerfd <= Later(Earliest(timers)[1], now)
      BY DEF AlarmSet
  <2>1. timers \in SUBSET Entries /\ AlarmBefore
      BY Zenon DEF IInv, TypeOK
  <2>2. Earliest(timers) \in timers
      BY <2>1, EntriesAreNumbers, EarliestIs
  <2> QED
      BY <2>1, <2>2 DEF AlarmBefore
<1>2. IInv => TimersConsistent
    BY <1>1, OwnerOnce DEF IInv, TimersConsistent
<1> QED
    BY QueueInvariant, <1>2, PTL

\* reset() does not insert a Timer again that was cancelled while it was in the
\* batch, and no Timer made at its address afterwards is taken for it.
THEOREM CancelledStay == SafeSpec => []CancelledStaysOut
<1>1. IInv => CancelledStaysOut
  <2> SUFFICES ASSUME IInv, NEW id \in cancelled, id \in activeTimers PROVE FALSE
      BY DEF CancelledStaysOut
  <2>1. timers \in SUBSET Entries /\ SetsAgree /\ OnePlace /\ Marked
      BY Zenon DEF IInv, TypeOK
  <2>2. PICK e \in timers : id = <<e[2], timer[e[2]].sequence>>
      BY <2>1 DEF SetsAgree
  <2>3. e[2] \in Addrs /\ IsScheduled(e[2]) /\ IsBatched(e[2])
      BY <2>1, <2>2 DEF Marked, IsScheduled, Entries
  <2> QED
      BY <2>1, <2>3 DEF OnePlace
<1> QED
    BY QueueInvariant, <1>1, PTL

\* No Timer runs before its expiration, one that does not repeat runs once, and
\* those of a batch run in the order of their expirations, ahead of all others.
THEOREM TimersRunInTime == SafeSpec => RunsInTime
<1> DEFINE InTime ==
      RunTimer =>
         \E e \in toRun : /\ e[1] <= now
                          /\ timer[e[2]].sequence = running'
                          /\ e[2] \in ran => timer[e[2]].repeat
                          /\ \A f \in toRun \cup timers : e[1] <= f[1]
<1>1. IInv => InTime
  <2> SUFFICES ASSUME IInv, RunTimer PROVE InTime
      OBVIOUS
  <2>1. /\ timers \in SUBSET Entries /\ expired \in SUBSET Entries
        /\ toRun \in SUBSET expired /\ readTime \in Time /\ now \in Time
        /\ BatchDue /\ RunOnce /\ BatchAgrees
      BY Zenon DEF IInv, TypeOK
  <2> DEFINE e == Earliest(toRun)
  <2>2. toRun # {} /\ callingExpiredTimers /\ running' = timer[e[2]].sequence
      BY DEF RunTimer
  <2>3. e \in toRun /\ \A f \in toRun : Before(e, f)
    <3>1. toRun \in SUBSET Entries
        BY <2>1
    <3> QED
        BY <2>2, <3>1, EntriesAreNumbers, EarliestIs
  <2> HIDE DEF e
  <2>4. /\ \A f \in toRun \cup timers : f \in Entries /\ f[1] \in Nat
        /\ e[1] <= readTime /\ readTime <= now /\ readTime \in Nat /\ now \in Nat
      BY <2>1, <2>3 DEF BatchDue, Entries, Time
  <2>5. \A f \in toRun \cup timers : e[1] <= f[1]
      BY <2>1, <2>2, <2>3, <2>4 DEF BatchDue, Before
  <2>6. e[2] \in ran => timer[e[2]].repeat
    <3>1. \A f \in expired : f[2] = e[2] => f = e
        BY <2>1, <2>3 DEF BatchAgrees, Entries
    <3> QED
        BY <2>1, <2>3, <3>1 DEF RunOnce
  <2> QED
      BY <2>2, <2>3, <2>4, <2>5, <2>6
<1>2. IInv /\ [Next]_vars => [InTime]_vars
    BY <1>1
<1> QED
    BY QueueInvariant, <1>1, <1>2, PTL DEF SafeSpec, RunsInTime
=============================================================================
