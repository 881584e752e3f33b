\* As the server is built: idle connections are kept.
CONSTANTS
    c1 = c1
    c2 = c2
    fd7 = fd7
    fd8 = fd8
    Conns <- MCConns
    Pool <- MCPool
    Fds <- MCFds
    timerChannel = timerChannel
    None = None
    idleSeconds = 0
    CloseDelay = 2
    MaxTime = 0
    MaxSetBack = 0
SPECIFICATION Spec
INVARIANTS
    TypeOK
    PoolConsistent
    EpollInStep
PROPERTIES
    ClosesOnlyIdleOrLeft
    LeftClientsAreClosed
\* SIGPIPE may end the process.
CHECK_DEADLOCK FALSE
