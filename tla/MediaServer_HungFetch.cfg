SPECIFICATION FairSpec
CONSTANTS
    StateSize = 1
    SourceSize = 1
    Faults <- AllFaults
PROPERTY FetchIsTimedOut
CHECK_DEADLOCK FALSE
