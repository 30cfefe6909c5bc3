SPECIFICATION Spec
CONSTANTS
    r1 = r1
    r2 = r2
    r3 = r3
    Requests <- MCRequests
    TotalBlocks = 4
    BlockSize = 2
    Prompts = {2, 3}
    Outputs = {1, 3}
    MaxActive = 2
    QueueCapacity = 2
    MaxBatchTokens = 3
    Preempting = TRUE
    MaxPreemptions = 1
    MaxByCaller = 1
INVARIANTS
    CacheMatchesProgress
    StepNeverRaises
    BlocksPartitioned
PROPERTIES
    OutputIsKept
    EveryRequestFinishes
