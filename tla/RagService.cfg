SPECIFICATION FairServiceSpec
CONSTANTS
    t1 = t1
    t2 = t2
    t3 = t3
    w1 = w1
    w2 = w2
    d1 = d1
    c1 = c1
    q1 = q1
    NULL = NULL
    Tasks <- MCTasks
    DemoTasks <- MCDemo
    Workers <- MCWorkers
    QueueCapacity = 1
    Direct <- MCDirect
    CommandLine <- MCCommands
    Builders <- MCBuilders
    InputOf <- MCInputOf
    MaxBuilds = 1
    Readers <- MCReaders
    TopK = 1
    MaxCitationRetries = 1
INVARIANTS
    BooksBalance
    BuildSlotsConserved
    ResourcesOutliveTasks
    IndexIsWhole
    AnswersAreGrounded
PROPERTIES
    ServiceSettles
