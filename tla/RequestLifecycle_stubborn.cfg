SPECIFICATION FairSpec
CONSTANTS
    r1 = r1
    r2 = r2
    r3 = r3
    NULL = NULL
    Requests <- MCOne
    Streams = {}
    Stubborn <- MCOne
    MaxRunning = 1
    MaxWaiting = 1
    MaxActive = 1
PROPERTIES
    CleanupEnds
CHECK_DEADLOCK FALSE
