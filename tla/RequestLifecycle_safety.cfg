SPECIFICATION Spec
CONSTANTS
    r1 = r1
    r2 = r2
    r3 = r3
    NULL = NULL
    Requests <- MCRequests
    Streams <- MCOne
    Stubborn <- MCOne
    MaxRunning = 2
    MaxWaiting = 2
    MaxActive = 3
SYMMETRY MCOthers
INVARIANTS
    FinalizedIsSettled
    CapacityConserved
    NoIdlePermit
PROPERTIES
    OutcomeIsFirst
    PermitsAreASlotPool
