SPECIFICATION FairSpec
CONSTANTS
    Destinations = {d}
    None = None
    StreamSize = 2
    BusSize = 1
    MaxChanges = 2
INVARIANT TypeOK
PROPERTY FocusFollowsFront
PROPERTY ShowsServer
PROPERTY ClientEnds
CHECK_DEADLOCK FALSE
