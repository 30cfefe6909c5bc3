SPECIFICATION FairWorkerSpec
CONSTANTS
    t1 = t1
    t2 = t2
    w1 = w1
    w2 = w2
    NULL = NULL
    Tasks <- MCTwoTasks
    Workers <- MCWorkers
    MaxRunningTasks = 1
    MaxQueuedTasks = 1
    LeaseTime = 1
    Budgets = {3}
    Deadlines <- MCNoDeadline
    Delays = {1}
    MaxTime = 4
    NumSteps = 2
    MaxCrashes = 2
    ResumeAlone = TRUE
    Timely = TRUE
PROPERTIES
    EveryTaskEnds
CHECK_DEADLOCK FALSE
