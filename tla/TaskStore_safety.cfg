SPECIFICATION Spec
CONSTANTS
    t1 = t1
    t2 = t2
    t3 = t3
    NULL = NULL
    Tasks <- MCThreeTasks
    MaxRunningTasks = 2
    MaxQueuedTasks = 2
    LeaseTime = 1
    Budgets = {1, 2}
    Deadlines <- MCDeadlines
    Delays = {0, 1}
    MaxTime = 3
SYMMETRY MCSymmetry
INVARIANTS
    Consistent
PROPERTIES
    HistoryIsFinal
    StrandedForGood
    ImplementsSlotPool
CHECK_DEADLOCK FALSE
