--------------------------- MODULE EventLoop_proofs ---------------------------
(* Proofs about EventLoop for any set of threads, functors and channels.    *)
EXTENDS EventLoop, SequenceTheorems, TLAPS

\* Appending to the second of two concatenated queues appends to the whole.
LEMMA ConcatAppend ==
    ASSUME NEW S, NEW s \in Seq(S), NEW t \in Seq(S), NEW x \in S
    PROVE  s \o Append(t, x) = Append(s \o t, x)
  OBVIOUS

\* Taking the head of a nonempty first queue takes it from the whole.
LEMMA ConcatHeadTail ==
    ASSUME NEW S, NEW s \in Seq(S), NEW t \in Seq(S), s # <<>>
    PROVE  /\ s \o t # <<>>
           /\ Head(s \o t) = Head(s)
           /\ Tail(s \o t) = Tail(s) \o t
  OBVIOUS

-----------------------------------------------------------------------------

\* Every action of the loop thread and of the other threads keeps the types.
LEMMA TypeStep == TypeOK /\ [Next]_vars => TypeOK'
<1> SUFFICES ASSUME TypeOK, [Next]_vars PROVE TypeOK'
    OBVIOUS
<1> USE ConstantsAssumption DEF TypeOK, loopVars, Phases
<1>1. ASSUME NEW th \in Threads, NEW f \in Functors, QueueInLoop(th, f)
      PROVE  TypeOK'
    BY <1>1 DEF QueueInLoop
<1>2. ASSUME NEW th \in Threads, Quit(th) PROVE TypeOK'
    BY <1>2 DEF Quit
<1>3. ASSUME NEW th \in Threads, Wakeup(th) PROVE TypeOK'
    BY <1>3 DEF Wakeup
<1>4. ASSUME NEW f \in Functors, CallQueueInLoop(f) PROVE TypeOK'
    BY <1>4 DEF CallQueueInLoop, Announces
<1>5. CASE CallQuit
    BY <1>5 DEF CallQuit
<1>6. CASE Poll
    BY <1>6 DEF Poll, Ready
<1>7. CASE Loop
    BY <1>7 DEF Loop
<1>8. CASE LoopTop
    BY <1>8 DEF LoopTop
<1>9. CASE HandleRead
    BY <1>9 DEF HandleRead
<1>10. ASSUME NEW c \in Channels, HandleEvent(c) PROVE TypeOK'
    BY <1>10 DEF HandleEvent
<1>11. CASE DoPendingFunctors
    BY <1>11 DEF DoPendingFunctors
<1>12. CASE RunFunctor
    BY <1>12, HeadTailProperties DEF RunFunctor
<1>13. CASE EndPendingFunctors
    BY <1>13 DEF EndPendingFunctors
<1>14. CASE Return
    BY <1>14 DEF Return
<1>15. CASE UNCHANGED vars
    BY <1>15 DEF vars
<1> QED
    BY <1>1, <1>2, <1>3, <1>4, <1>5, <1>6, <1>7, <1>8, <1>9, <1>10, <1>11,
       <1>12, <1>13, <1>14, <1>15 DEF Next, ThreadStep, LoopStep

\* A loop that has just been constructed has well-typed state.
LEMMA TypeInit == Init => TypeOK
<1> SUFFICES ASSUME Init PROVE TypeOK
    OBVIOUS
<1>1. callingPendingFunctors = (phase = "calling")
    BY Zenon DEF Init
<1>2. /\ quit \in BOOLEAN
      /\ wakeupFd \in BOOLEAN
      /\ phase \in Phases
    BY DEF Init, Phases
<1>3. /\ pendingFunctors \in Seq(Functors)
      /\ functors \in Seq(Functors)
      /\ pc \in [Threads -> {"idle", "wakeup"}]
    BY DEF Init
<1> QED
    BY <1>1, <1>2, <1>3 DEF Init, TypeOK

\* The variables of EventLoop always have their types.
THEOREM TypeCorrect == SafeSpec => []TypeOK
    BY TypeInit, TypeStep, PTL DEF SafeSpec

-----------------------------------------------------------------------------

\* Nothing a thread does withdraws an announcement; only reading the eventfd
\* does, while the loop is still ahead of the swap.
LEMMA IInvStep == IInv /\ [Next]_vars => IInv'
<1> SUFFICES ASSUME IInv, [Next]_vars PROVE IInv'
    OBVIOUS
<1>0. TypeOK' /\ TypeOK
    BY TypeStep DEF IInv
<1> USE DEF IInv, MissedSwapAnnounced, MissedQuitAnnounced, WakeupComing, loopVars
<1> SUFFICES (MissedSwapAnnounced /\ MissedQuitAnnounced)'
    BY <1>0
\* The caller itself is the thread about to write.
<1>1. ASSUME NEW th \in Threads, NEW f \in Functors, QueueInLoop(th, f)
      PROVE  WakeupComing'
    BY <1>0, <1>1 DEF QueueInLoop, TypeOK
<1>2. ASSUME NEW th \in Threads, Quit(th) PROVE WakeupComing'
    BY <1>0, <1>2 DEF Quit, TypeOK
<1>3. ASSUME NEW th \in Threads, Wakeup(th) PROVE WakeupComing'
    BY <1>3 DEF Wakeup
\* Inside a callback: a functor writes to the eventfd itself, a handler runs
\* before the swap.
<1>4. ASSUME NEW f \in Functors, CallQueueInLoop(f)
      PROVE  (MissedSwapAnnounced /\ MissedQuitAnnounced)'
  <2>1. CASE phase = "calling"
      BY <1>0, <1>4, <2>1 DEF CallQueueInLoop, Announces, TypeOK
  <2>2. CASE phase = "handle"
      BY <1>4, <2>2 DEF CallQueueInLoop
  <2> QED
      BY <1>0, <1>4, <2>1, <2>2 DEF CallQueueInLoop, TypeOK
<1>5. CASE CallQuit
    BY <1>0, <1>5 DEF CallQuit, TypeOK
<1>6. CASE Poll
    BY <1>6 DEF Poll
<1>7. CASE Loop
    BY <1>0, <1>7 DEF Loop, TypeOK
<1>8. CASE LoopTop
    BY <1>8 DEF LoopTop
\* Reading the eventfd is safe: the swap of this iteration is still to come.
<1>9. CASE HandleRead
    BY <1>9 DEF HandleRead
<1>10. ASSUME NEW c \in Channels, HandleEvent(c)
       PROVE  (MissedSwapAnnounced /\ MissedQuitAnnounced)'
    BY <1>10 DEF HandleEvent
<1>11. CASE DoPendingFunctors
    BY <1>11 DEF DoPendingFunctors
<1>12. CASE RunFunctor
    BY <1>12 DEF RunFunctor
<1>13. CASE EndPendingFunctors
    BY <1>13 DEF EndPendingFunctors
<1>14. CASE Return
    BY <1>14 DEF Return
<1>15. CASE UNCHANGED vars
    BY <1>15 DEF vars
<1> QED
    BY <1>1, <1>2, <1>3, <1>4, <1>5, <1>6, <1>7, <1>8, <1>9, <1>10, <1>11,
       <1>12, <1>13, <1>14, <1>15 DEF Next, ThreadStep, LoopStep

\* No lost wakeup: whatever the interleaving, the loop thread does not block
\* in epoll_wait while a functor is pending or after quit() was called.
THEOREM NoLostWakeup == SafeSpec => []NeverSleepsOnWork
<1>1. Init => IInv
  <2> SUFFICES ASSUME Init PROVE IInv
      OBVIOUS
  <2>1. MissedSwapAnnounced /\ MissedQuitAnnounced
      BY DEF Init, MissedSwapAnnounced, MissedQuitAnnounced
  <2> QED
      BY <2>1, TypeInit DEF IInv
<1>2. IInv => NeverSleepsOnWork
    BY DEF IInv, MissedSwapAnnounced, MissedQuitAnnounced, NeverSleepsOnWork
<1> QED
    BY <1>1, <1>2, IInvStep, PTL DEF SafeSpec

-----------------------------------------------------------------------------

\* Each step of EventLoop is a step of the serial executor it implements, or
\* leaves the executor's state alone.
LEMMA ExecutorStep == TypeOK /\ [Next]_vars => [Executor!Next]_(Executor!vars)
<1> SUFFICES ASSUME TypeOK, [Next]_vars
             PROVE  Executor!Next \/ UNCHANGED Executor!vars
    OBVIOUS
<1> USE ConstantsAssumption DEF loopVars, queued, Executor!vars
<1>1. ASSUME NEW f \in Functors,
             f \notin Range(queued),
             pendingFunctors' = Append(pendingFunctors, f),
             UNCHANGED loopVars
      PROVE  Executor!Submit(f)
  <2>1. queued' = Append(queued, f)
      BY <1>1, ConcatAppend DEF TypeOK
  <2> QED
      BY <1>1, <2>1 DEF Executor!Submit, Range, Executor!Range
<1>2. ASSUME NEW th \in Threads, NEW f \in Functors, QueueInLoop(th, f)
      PROVE  Executor!Next
    BY <1>1, <1>2 DEF QueueInLoop, Executor!Next
<1>3. ASSUME NEW f \in Functors, CallQueueInLoop(f) PROVE Executor!Next
    BY <1>1, <1>3 DEF CallQueueInLoop, Executor!Next
<1>4. CASE RunFunctor
  <2>1. queued # <<>> /\ current' = Head(queued) /\ queued' = Tail(queued)
      BY <1>4, ConcatHeadTail DEF RunFunctor, TypeOK
  <2> QED
      BY <1>4, <2>1 DEF RunFunctor, Executor!Start, Executor!Next
<1>5. CASE DoPendingFunctors
  <2>1. queued = pendingFunctors /\ queued' = pendingFunctors
      BY <1>5, ConcatEmptySeq DEF DoPendingFunctors, TypeOK
  <2> QED
      BY <1>5, <2>1 DEF DoPendingFunctors
<1>6. CASE Return
  <2>1. CASE phase = "calling"
      BY <1>6, <2>1 DEF Return, Executor!Finish, Executor!Next
  <2>2. CASE phase # "calling"
      BY <1>6, <2>2 DEF Return
  <2> QED
      BY <2>1, <2>2
<1>7. CASE LoopTop
  <2>1. CASE quit
      BY <1>7, <2>1 DEF LoopTop, Executor!Stop, Executor!Next
  <2>2. CASE ~quit
      BY <1>7, <2>2 DEF LoopTop
  <2> QED
      BY <2>1, <2>2
<1>8. ASSUME NEW th \in Threads, Quit(th) \/ Wakeup(th)
      PROVE  UNCHANGED Executor!vars
    BY <1>8 DEF Quit, Wakeup
<1>9. CASE CallQuit
    BY <1>9 DEF CallQuit
<1>10. CASE Poll \/ Loop \/ HandleRead
    BY <1>10 DEF Poll, Loop, HandleRead
<1>11. ASSUME NEW c \in Channels, HandleEvent(c)
       PROVE  UNCHANGED Executor!vars
    BY <1>11 DEF HandleEvent
<1>12. CASE EndPendingFunctors
    BY <1>12 DEF EndPendingFunctors
<1>13. CASE UNCHANGED vars
    BY <1>13 DEF vars
<1> QED
    BY <1>2, <1>3, <1>4, <1>5, <1>6, <1>7, <1>8, <1>9, <1>10, <1>11, <1>12,
       <1>13 DEF Next, ThreadStep, LoopStep

\* The safety half of the refinement: functors start in the order in which
\* they were queued, one at a time, each once, and none after loop() returned.
THEOREM LoopImplementsExecutor == SafeSpec => Executor!SafeSpec
<1>1. Init => Executor!Init
  <2> SUFFICES ASSUME Init PROVE Executor!Init
      OBVIOUS
  <2>1. queued = <<>>
      BY DEF Init, queued
  <2> QED
      BY <2>1 DEF Init, Executor!Init
<1> QED
    BY <1>1, ExecutorStep, TypeCorrect, PTL DEF SafeSpec, Executor!SafeSpec
=============================================================================
