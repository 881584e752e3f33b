\* Three timers at two addresses, one thread besides the loop thread.
CONSTANTS
    t1 = t1
    Threads <- MCThreads
    Addrs <- MCAddrs
    Delays <- MCDelays
    Intervals <- MCIntervals
    TicksPerSecond = 2
    MaxSequence = 3
    MaxTime = 2
    MaxFunctors = 1
SPECIFICATION Spec
INVARIANTS
    TypeOK
    TimersConsistent
    CancelledStaysOut
PROPERTIES
    RunsInTime
    TimersFire
\* No timer is left and the clock has stopped.
CHECK_DEADLOCK FALSE
