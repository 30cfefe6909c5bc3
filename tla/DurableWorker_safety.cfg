SPECIFICATION WorkerSpec
CONSTANTS
    t1 = t1
    t2 = t2
    w1 = w1
    w2 = w2
    NULL = NULL
    Tasks <- MCOneTask
    Workers <- MCWorkers
    MaxRunningTasks = 1
    MaxQueuedTasks = 1
    LeaseTime = 2
    Budgets = {3}
    Deadlines <- MCDeadlines
    Delays = {1}
    MaxTime = 4
    NumSteps = 2
    MaxCrashes = 2
    ResumeAlone = TRUE
    Timely = FALSE
SYMMETRY MCSymmetry
INVARIANTS
    ClaimIsExclusive

    
CHECK_DEADLOCK FALSE
