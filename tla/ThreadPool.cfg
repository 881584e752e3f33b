CONSTANTS
    w1 = w1
    w2 = w2
    c1 = c1
    c2 = c2
    t1 = t1
    t2 = t2
    Workers <- MCWorkers
    Callers <- MCCallers
    Tasks <- MCTasks
    NoTask = NoTask
    maxQueueSize = 2
SPECIFICATION Spec
INVARIANTS
    TypeOK
    NoSignalLost
PROPERTIES
    ImplementsQueue
    PoolServes
