----------------------------- MODULE MCEventLoop -----------------------------
(* Two threads, three functors and one descriptor are enough for every      *)
(* hand-over: a functor pending, one in the batch and one running, while    *)
(* one thread queues and the other quits.                                   *)
EXTENDS EventLoop

CONSTANTS t1, t2, f1, f2, f3, c1

MCThreads  == {t1, t2}
MCFunctors == {f1, f2, f3}
MCChannels == {c1}
=============================================================================
