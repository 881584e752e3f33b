CONSTANTS
    LinesPerBuffer = 2
    MaxBatch = 2
    MaxLines = 6
    rollSize = 2
    flushInterval = 1
    flushEveryN = 3
    kRollPerSeconds = 4
    MaxTime = 4
SPECIFICATION Spec
INVARIANTS
    TypeOK
    LogComplete
    FilesReadable
    BackEndReady
PROPERTIES
    LogServes
\* The bound on the lines is reached and the log stopped.
CHECK_DEADLOCK FALSE
