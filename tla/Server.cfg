\* Up to two io threads and four clients; the third descriptor is over the limit.
SPECIFICATION Spec
CONSTANTS
    MaxThreads = 2
    maxFds = 3
    FdLimit = 3
    MaxClients = 4
    NULL = NULL
INVARIANTS
    TypeOK
    Handover
PROPERTIES
    ServesAndStops
\* The server has been destroyed, or the process has died.
CHECK_DEADLOCK FALSE
