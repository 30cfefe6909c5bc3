SPECIFICATION FairStreamSpec
CONSTANTS
    r1 = r1
    r2 = r2
    NULL = NULL
    Requests <- MCRequests
    Streams <- MCStreams
    Stubborn = {}
    MaxRunning = 1
    MaxWaiting = 1
    MaxActive = 2
    MaxTokens = 3
    QueueSize = 1
INVARIANTS
    NoTokenIsLost
    LastWordIsTrue
PROPERTIES
    EveryRequestEnds
