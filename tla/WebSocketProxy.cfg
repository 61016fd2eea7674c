SPECIFICATION FairSpec
CONSTANTS
    Clients = {c}
    BusSize = 2
    ChanSize = 2
    DispatchSize = 2
INVARIANT TypeOK
INVARIANT ServedFromHandshake
PROPERTY DispatchesReturn
PROPERTY GoneBrowserIsForgotten
CHECK_DEADLOCK FALSE
