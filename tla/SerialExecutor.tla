--------------------------- MODULE SerialExecutor ---------------------------
(***************************************************************************)
(* What an EventLoop promises to those who give it work: the functors      *)
(* handed to queueInLoop run one at a time, in the order they were handed  *)
(* over, each exactly once, until the loop is stopped; one that is stopped *)
(* runs nothing more.  EventLoop.tla implements this specification.        *)
(***************************************************************************)
EXTENDS Sequences, Functions

CONSTANTS
    Functors,   \* the closures that can be queued
    None        \* no functor is running

VARIABLES
    queue,      \* functors handed over and not yet started, oldest first
    running,    \* the functor the loop thread is executing, or None
    stopped     \* the loop has returned

vars == <<queue, running, stopped>>

Init ==
    /\ queue = <<>>
    /\ running = None
    /\ stopped = FALSE

\* A closure is queued once at a time; a running one may be queued again.
Submit(f) ==
    /\ f \notin Range(queue)
    /\ queue' = Append(queue, f)
    /\ UNCHANGED <<running, stopped>>

Start ==
    /\ ~stopped
    /\ running = None
    /\ queue # <<>>
    /\ running' = Head(queue)
    /\ queue' = Tail(queue)
    /\ UNCHANGED stopped

Finish ==
    /\ running # None
    /\ running' = None
    /\ UNCHANGED <<queue, stopped>>

Stop ==
    /\ running = None
    /\ stopped' = TRUE
    /\ UNCHANGED <<queue, running>>

Next ==
    \/ \E f \in Functors : Submit(f)
    \/ Start
    \/ Finish
    \/ Stop

SafeSpec == Init /\ [][Next]_vars

Spec == SafeSpec /\ WF_vars(Start) /\ WF_vars(Finish)
=============================================================================
