CONSTANTS
    Clients = 2
    Options <- MCOptions
    FdLimit = 2
    MaxTrips = 2
SPECIFICATION BenchSpec
INVARIANTS
    TripsSettled
PROPERTIES
    BenchEnds
\* The benchmark ends.
CHECK_DEADLOCK FALSE
