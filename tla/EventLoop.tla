------------------------------ MODULE EventLoop ------------------------------
(***************************************************************************)
(* EventLoop (src/webserver/EventLoop.cc): the loop thread that polls,     *)
(* handles the active channels and then runs the functors other threads    *)
(* and its own callbacks queued for it, together with the threads that     *)
(* call queueInLoop and quit.                                              *)
(*                                                                         *)
(* The member variables keep their names without the trailing underscore.  *)
(* A handler or a functor is a stretch of loop thread code between the     *)
(* action that calls it and Return; in between it may call queueInLoop and *)
(* quit any number of times.  runInLoop is queueInLoop for another thread  *)
(* and a plain call for the loop thread, hence part of such a stretch.     *)
(***************************************************************************)
EXTENDS Sequences, Functions

CONSTANTS
    Threads,        \* the threads other than the loop thread
    Functors,       \* the closures that can be queued
    Channels,       \* the channels the loop watches besides wakeupChannel
    wakeupChannel,  \* the channel of wakeupFd_
    None            \* no handler and no functor is running

ASSUME ConstantsAssumption ==
    /\ None \notin Functors \cup Channels
    /\ wakeupChannel \notin Channels

VARIABLES
    quit,                   \* quit_
    callingPendingFunctors, \* callingPendingFunctors_
    pendingFunctors,        \* pendingFunctors_, guarded by mutex_
    functors,               \* what is left of doPendingFunctors' local batch
    activeChannels,         \* what is left of activeChannels_
    wakeupFd,               \* is the counter of the eventfd above zero?
    phase,                  \* where the loop thread is in loop()
    current,                \* the handler or functor it is inside of
    pc                      \* where each other thread is

loopVars == <<callingPendingFunctors, functors, activeChannels, phase, current>>
vars == <<loopVars, quit, pendingFunctors, wakeupFd, pc>>

Phases == {"init", "check", "poll", "handle", "calling", "exited"}

Init ==
    /\ quit = FALSE
    /\ callingPendingFunctors = FALSE
    /\ pendingFunctors = <<>>
    /\ functors = <<>>
    /\ activeChannels = {}
    /\ wakeupFd = FALSE
    /\ phase = "init"
    /\ current = None
    /\ pc = [th \in Threads |-> "idle"]

\* The functors that have been queued and have not been started.
queued == functors \o pendingFunctors

-----------------------------------------------------------------------------
(* Mutants: what a plausible bug would make of an action below.             *)

\* queueInLoop of a functor relies on the current iteration to run it.
Announces_Never == FALSE

\* One loop over pendingFunctors_ itself: what it pushes joins the batch.
CallQueueInLoop_SameBatch(f) ==
    /\ current # None
    /\ f \notin Range(queued)
    /\ IF callingPendingFunctors
          THEN functors' = Append(functors, f) /\ UNCHANGED pendingFunctors
          ELSE pendingFunctors' = Append(pendingFunctors, f) /\ UNCHANGED functors
    /\ UNCHANGED <<callingPendingFunctors, activeChannels, phase, current,
                   quit, wakeupFd, pc>>

\* A copy in place of the swap.
DoPendingFunctors_Copy ==
    /\ phase = "handle" /\ current = None
    /\ activeChannels = {}
    /\ callingPendingFunctors' = TRUE
    /\ functors' = pendingFunctors
    /\ phase' = "calling"
    /\ UNCHANGED <<pendingFunctors, activeChannels, current, quit, wakeupFd, pc>>

\* The flag is not cleared.
EndPendingFunctors_FlagStays ==
    /\ phase = "calling" /\ current = None
    /\ functors = <<>>
    /\ phase' = "check"
    /\ UNCHANGED <<callingPendingFunctors, functors, activeChannels, current,
                   quit, pendingFunctors, wakeupFd, pc>>

-----------------------------------------------------------------------------
(* Other threads.  Both calls end in wakeup(), a step of its own: between   *)
(* the store and the write to the eventfd the loop thread can go anywhere.  *)

QueueInLoop(th, f) ==
    /\ pc[th] = "idle"
    /\ f \notin Range(queued)
    /\ pendingFunctors' = Append(pendingFunctors, f)
    /\ pc' = [pc EXCEPT ![th] = "wakeup"]
    /\ UNCHANGED <<loopVars, quit, wakeupFd>>

Quit(th) ==
    /\ pc[th] = "idle"
    /\ quit' = TRUE
    /\ pc' = [pc EXCEPT ![th] = "wakeup"]
    /\ UNCHANGED <<loopVars, pendingFunctors, wakeupFd>>

Wakeup(th) ==
    /\ pc[th] = "wakeup"
    /\ wakeupFd' = TRUE
    /\ pc' = [pc EXCEPT ![th] = "idle"]
    /\ UNCHANGED <<loopVars, quit, pendingFunctors>>

-----------------------------------------------------------------------------
(* Calls the loop thread makes from inside a handler or a functor.          *)

\* isInLoopThread() holds here, so only this flag decides about wakeup().
Announces == callingPendingFunctors

CallQueueInLoop(f) ==
    /\ current # None
    /\ f \notin Range(queued)
    /\ pendingFunctors' = Append(pendingFunctors, f)
    /\ wakeupFd' = (wakeupFd \/ Announces)
    /\ UNCHANGED <<loopVars, quit, pc>>

CallQuit ==
    /\ current # None
    /\ quit' = TRUE
    /\ UNCHANGED <<loopVars, pendingFunctors, wakeupFd, pc>>

Return ==
    /\ current # None
    /\ current' = None
    /\ UNCHANGED <<callingPendingFunctors, functors, activeChannels, phase,
                   quit, pendingFunctors, wakeupFd, pc>>

-----------------------------------------------------------------------------
(* loop()                                                                   *)

Loop ==
    /\ phase = "init"
    /\ phase' = "check"
    /\ UNCHANGED <<callingPendingFunctors, functors, activeChannels, current,
                   quit, pendingFunctors, wakeupFd, pc>>

\* while (!quit_)
LoopTop ==
    /\ phase = "check"
    /\ phase' = IF quit THEN "exited" ELSE "poll"
    /\ UNCHANGED <<callingPendingFunctors, functors, activeChannels, current,
                   quit, pendingFunctors, wakeupFd, pc>>

Ready == Channels \cup (IF wakeupFd THEN {wakeupChannel} ELSE {})

\* epoll_wait reports some of the ready descriptors, or none of them after
\* kPollTimeMs or a signal.
Poll ==
    /\ phase = "poll"
    /\ activeChannels' \in SUBSET Ready
    /\ phase' = "handle"
    /\ UNCHANGED <<callingPendingFunctors, functors, current,
                   quit, pendingFunctors, wakeupFd, pc>>

\* EventLoop::handleRead, the handler of wakeupChannel.
HandleRead ==
    /\ phase = "handle" /\ current = None
    /\ wakeupChannel \in activeChannels
    /\ activeChannels' = activeChannels \ {wakeupChannel}
    /\ wakeupFd' = FALSE
    /\ UNCHANGED <<callingPendingFunctors, functors, phase, current,
                   quit, pendingFunctors, pc>>

HandleEvent(c) ==
    /\ phase = "handle" /\ current = None
    /\ c \in activeChannels
    /\ activeChannels' = activeChannels \ {c}
    /\ current' = c
    /\ UNCHANGED <<callingPendingFunctors, functors, phase,
                   quit, pendingFunctors, wakeupFd, pc>>

\* The flag and the swap under mutex_; only the loop thread reads the flag.
DoPendingFunctors ==
    /\ phase = "handle" /\ current = None
    /\ activeChannels = {}
    /\ callingPendingFunctors' = TRUE
    /\ functors' = pendingFunctors
    /\ pendingFunctors' = <<>>
    /\ phase' = "calling"
    /\ UNCHANGED <<activeChannels, current, quit, wakeupFd, pc>>

RunFunctor ==
    /\ phase = "calling" /\ current = None
    /\ functors # <<>>
    /\ current' = Head(functors)
    /\ functors' = Tail(functors)
    /\ UNCHANGED <<callingPendingFunctors, activeChannels, phase,
                   quit, pendingFunctors, wakeupFd, pc>>

EndPendingFunctors ==
    /\ phase = "calling" /\ current = None
    /\ functors = <<>>
    /\ callingPendingFunctors' = FALSE
    /\ phase' = "check"
    /\ UNCHANGED <<functors, activeChannels, current,
                   quit, pendingFunctors, wakeupFd, pc>>

-----------------------------------------------------------------------------

\* The steps the loop thread is bound to take; calls inside a callback are
\* the callback's choice, and poll() may have nothing to report.
LoopStep ==
    \/ Loop
    \/ LoopTop
    \/ HandleRead
    \/ \E c \in Channels : HandleEvent(c)
    \/ DoPendingFunctors
    \/ RunFunctor
    \/ EndPendingFunctors
    \/ Return

ThreadStep(th) ==
    \/ \E f \in Functors : QueueInLoop(th, f)
    \/ Quit(th)
    \/ Wakeup(th)

Next ==
    \/ \E th \in Threads : ThreadStep(th)
    \/ \E f \in Functors : CallQueueInLoop(f)
    \/ CallQuit
    \/ Poll
    \/ LoopStep

SafeSpec == Init /\ [][Next]_vars

(* Fairness.  The owner calls loop(), callbacks return, a thread inside     *)
(* queueInLoop or quit reaches the write, and epoll_wait returns when the   *)
(* eventfd is readable.  No timeout is needed: work is never left to it.    *)
Spec ==
    /\ SafeSpec
    /\ WF_vars(LoopStep)
    /\ WF_vars(wakeupFd /\ Poll)
    /\ \A th \in Threads : WF_vars(Wakeup(th))

-----------------------------------------------------------------------------

\* The variables have their types: a handler runs only while channels are
\* handled, a functor only while functors are called.
TypeOK ==
    /\ quit \in BOOLEAN
    /\ callingPendingFunctors = (phase = "calling")
    /\ pendingFunctors \in Seq(Functors)
    /\ functors \in Seq(Functors)
    /\ phase # "calling" => functors = <<>>
    /\ activeChannels \in SUBSET (Channels \cup {wakeupChannel})
    /\ phase # "handle" => activeChannels = {}
    /\ wakeupFd \in BOOLEAN
    /\ phase \in Phases
    /\ \/ current = None
       \/ phase = "handle" /\ current \in Channels
       \/ phase = "calling" /\ current \in Functors
    /\ pc \in [Threads -> {"idle", "wakeup"}]

\* Somebody has written, or is about to write, to the eventfd.
WakeupComing == wakeupFd \/ \E th \in Threads : pc[th] = "wakeup"

\* The loop thread never blocks in epoll_wait on unfinished business: when it
\* is in poll() and a functor is pending or quit() was called, the eventfd is
\* readable or a thread is about to make it so.
NeverSleepsOnWork ==
    phase = "poll" /\ (pendingFunctors # <<>> \/ quit) => WakeupComing

\* What NeverSleepsOnWork rests on.  A functor that missed the swap of its
\* iteration is announced at once, however far the loop is from poll();
\* quit_ that was set after the test of the while loop is announced too.
MissedSwapAnnounced ==
    phase \in {"init", "calling", "check", "poll"} /\ pendingFunctors # <<>>
        => WakeupComing

MissedQuitAnnounced == phase = "poll" /\ quit => WakeupComing

IInv == TypeOK /\ MissedSwapAnnounced /\ MissedQuitAnnounced

\* An EventLoop is a serial executor: functors start in the order in which
\* queueInLoop pushed them, one at a time, each once, none after loop()
\* returned, and each one eventually unless the loop stops.
Executor == INSTANCE SerialExecutor WITH
    queue   <- queued,
    running <- IF phase = "calling" THEN current ELSE None,
    stopped <- phase = "exited"

ImplementsExecutor == Executor!Spec

\* quit() from any thread and at any time makes loop() return; and functors that
\* queue functors do not keep the loop from its descriptors: it is back in
\* poll() again and again, or has returned.
LoopServes ==
    /\ quit ~> phase = "exited"
    /\ []<>(phase \in {"poll", "exited"})
=============================================================================
