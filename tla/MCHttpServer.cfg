SPECIFICATION FairSpec
CONSTANTS
    Doors <- MCDoors
    StrayDoors <- MCStrayDoors
    Messages <- MCMessages
    Window = 1
    MaxSessions = 1
    MaxRequests = 3
    Horizon = 2
INVARIANTS
    NeverStuck
    OnlyGenuine
    SuccessMeansDone
    FailureMeansUntouched
    CardsCostSessions
PROPERTIES
    KeepsPromise
CHECK_DEADLOCK FALSE
