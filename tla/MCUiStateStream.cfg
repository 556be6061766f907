SPECIFICATION FairSpec
CONSTANTS
    InputFields = {"keys"}
    MaxEvents = 3
    MaxConns = 2
    InputCapacity = 1
    LiveCapacity = 1
    ReplayCapacity = 2
    WireCapacity = 1
INVARIANTS ClientMatchesServer DrainedShowsInput
PROPERTIES ClientCatchesUp
CHECK_DEADLOCK FALSE
