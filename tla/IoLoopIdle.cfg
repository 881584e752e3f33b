\* With the list of idle connections.
CONSTANTS
    c1 = c1
    c2 = c2
    fd7 = fd7
    fd8 = fd8
    Conns <- MCConns
    Pool <- MCPool
    Fds <- MCFds
    timerChannel = timerChannel
    None = None
    idleSeconds = 1
    CloseDelay = 0
    MaxTime = 2
    MaxSetBack = 1
SPECIFICATION SafeSpec
SYMMETRY FdSymmetry
INVARIANTS
    DescriptorsOwned
    IdleOnesEnd
\* Nothing moves after undefined behaviour, or when the clock has stopped.
CHECK_DEADLOCK FALSE
