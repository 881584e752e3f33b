\* Calls from other threads and from callbacks; fairness without the timeout.
CONSTANTS
    t1 = t1
    t2 = t2
    f1 = f1
    f2 = f2
    f3 = f3
    c1 = c1
    Threads <- MCThreads
    Functors <- MCFunctors
    Channels <- MCChannels
    wakeupChannel = wakeupChannel
    None = None
SPECIFICATION Spec
INVARIANTS
    TypeOK
    NeverSleepsOnWork
PROPERTIES
    ImplementsExecutor
    LoopServes
\* loop() returns after quit().
CHECK_DEADLOCK FALSE
