SPECIFICATION Spec
CONSTANTS
    URLs = {u}
    NoURL = NoURL
    MaxCalls = 2
    MaxStops = 1
    ChanSize = 1
    Reports <- AllReports
    Faults = {}
INVARIANT OneContainerPerURL
CHECK_DEADLOCK FALSE
