SPECIFICATION FairSpec
CONSTANTS
    StateSize = 1
    SourceSize = 1
    Faults <- AllFaults
INVARIANT TypeOK
INVARIANT AlarmIsTrue
PROPERTY ExitIsNoticed
PROPERTY PublisherIsShown
CHECK_DEADLOCK FALSE
