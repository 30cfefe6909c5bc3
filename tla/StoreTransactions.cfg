SPECIFICATION Spec
CONSTANTS
    t1 = t1
    t2 = t2
    t3 = t3
    c1 = c1
    c2 = c2
    k1 = k1
    x1 = x1
    x2 = x2
    NULL = NULL
    Tasks <- MCTasks
    Clients <- MCClients
    Keys <- MCKeys
    Contents <- MCContents
    MaxRunningTasks = 1
    MaxQueuedTasks = 2
    MaxAttempts = 2
SYMMETRY MCSymmetry
INVARIANTS
    DecisionsStillHold
    SubmissionsAreIdempotent
PROPERTIES
    ImplementsSlotPool
