---------------------------- MODULE MCTimerQueue ----------------------------
(* Two addresses, so that an address is used again while another timer is   *)
(* live, and three timers, so that an address is used by two of them.       *)
EXTENDS TimerQueue

CONSTANTS t1

MCThreads == {t1}
MCAddrs == {1, 2}
MCDelays == {1}
MCIntervals == {0, 1, 2}
=============================================================================
