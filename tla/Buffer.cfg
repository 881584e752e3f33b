CONSTANTS
    KInitialSize = 2
    KMaxPreAlloc = 4
    ExtraBuf = 3
    MaxWritten = 9
    Nuls = {3, 7}
SPECIFICATION Spec
INVARIANTS
    BufferSound
PROPERTIES
    ImplementsByteQueue
\* The bound on the bytes written is reached.
CHECK_DEADLOCK FALSE
