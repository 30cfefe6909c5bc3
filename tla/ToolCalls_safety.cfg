SPECIFICATION ToolSpec
CONSTANTS
    t1 = t1
    c1 = c1
    c2 = c2
    s1 = s1
    s2 = s2
    in1 = in1
    in2 = in2
    k1 = k1
    NULL = NULL
    Tasks <- MCTasks
    MaxRunningTasks = 1
    MaxQueuedTasks = 1
    LeaseTime = 1
    Budgets = {2}
    Deadlines <- MCDeadlines
    Delays = {0}
    MaxTime = 2
    Calls <- MCTwoCalls
    Inputs <- MCTwoInputs
    Counters <- MCCounters
    Senders <- MCSenders
    MaxDeaths = 1
    Verified <- MCVerified
SYMMETRY MCSymmetry
INVARIANTS
    SenderOwnsItsCall
    CounterMatchesLedger
    SentAtMostOnce
    SucceededWasPerformed
PROPERTIES
    LedgerIsFinal
CHECK_DEADLOCK FALSE
