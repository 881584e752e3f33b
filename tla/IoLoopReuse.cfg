\* The close timer of a connection meets the next client of its object.
CONSTANTS
    c1 = c1
    c2 = c2
    fd7 = fd7
    fd8 = fd8
    Conns <- MCConns
    Pool <- MCPool
    Fds <- MCFds
    timerChannel = timerChannel
    None = None
    idleSeconds = 1
    CloseDelay = 1
    MaxTime = 3
    MaxSetBack = 1
SPECIFICATION SafeSpec
PROPERTIES
    ClosesOnlyIdleOrLeft
CHECK_DEADLOCK FALSE
