------------------------------ MODULE TaskQueue ------------------------------
(***************************************************************************)
(* What a ThreadPool promises to those who give it tasks: tasks wait in a  *)
(* queue of bounded length and are started in the order they were given,   *)
(* each once, by whichever worker is free.  ThreadPool.tla implements it.  *)
(***************************************************************************)
EXTENDS Naturals, Sequences

CONSTANTS Workers, Tasks, NoTask, Capacity

VARIABLES
    queue,      \* tasks given and not yet started, oldest first
    executing   \* the task each worker is executing, or NoTask

vars == <<queue, executing>>

Init ==
    /\ queue = <<>>
    /\ executing = [w \in Workers |-> NoTask]

Give(t) ==
    /\ Len(queue) < Capacity
    /\ queue' = Append(queue, t)
    /\ UNCHANGED executing

Start(w) ==
    /\ executing[w] = NoTask
    /\ queue # <<>>
    /\ executing' = [executing EXCEPT ![w] = Head(queue)]
    /\ queue' = Tail(queue)

Finish(w) ==
    /\ executing[w] # NoTask
    /\ executing' = [executing EXCEPT ![w] = NoTask]
    /\ UNCHANGED queue

Next ==
    \/ \E t \in Tasks : Give(t)
    \/ \E w \in Workers : Start(w) \/ Finish(w)

Spec == Init /\ [][Next]_vars
=============================================================================
