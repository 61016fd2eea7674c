SPECIFICATION Spec
CONSTANTS
    URLs = {u}
    NoURL = NoURL
    MaxCalls = 2
    MaxStops = 1
    ChanSize = 1
    Reports <- ReceivingOnly
    Faults <- AllFaults
INVARIANT TypeOK
INVARIANT NoStuckURL
INVARIANT OneRunUnlessStopped
CHECK_DEADLOCK FALSE
