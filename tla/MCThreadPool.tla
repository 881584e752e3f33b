---------------------------- MODULE MCThreadPool ----------------------------
(* Two workers, two callers and a ring of two slots: it wraps around, is    *)
(* full and empty with head at tail, and both ends have threads asleep.     *)
EXTENDS ThreadPool

CONSTANTS w1, w2, c1, c2, t1, t2

MCWorkers == {w1, w2}
MCCallers == {c1, c2}
MCTasks == {t1, t2}
=============================================================================
