\* A client that sends without waiting.
CONSTANTS
    SendBuffer = 2
    Window = 5
    MaxUnits = 5
SPECIFICATION Spec
INVARIANTS
    TypeOK
    OrderKept
    WritingIffOutput
PROPERTIES
    FinIsLast
    DropsOnlyWhenFull
    ShutdownCompletes
\* The client may stop, the connection ends.
CHECK_DEADLOCK FALSE
