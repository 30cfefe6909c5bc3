SPECIFICATION Spec
CONSTANTS
    a1 = a1
    a2 = a2
    x1 = x1
    x2 = x2
    f1 = f1
    f2 = f2
    f3 = f3
    NULL = NULL
    Callers <- MCOne
    Operations <- MCOperations
    Futures <- MCFutures
    PoolSize = 1
    Permits = 2
    MaxSteps = 2
    MaxRuns = 3
    MaxCrashes = 1
SYMMETRY MCSymmetry
INVARIANTS
    CheckpointsAreTrue
    PermitsCoverFutures
PROPERTIES
    SavedCallsAreNotRepeated
CHECK_DEADLOCK FALSE
