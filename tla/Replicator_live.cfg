SPECIFICATION FairSpec
CONSTANTS
    URLs = {u}
    NoURL = NoURL
    MaxCalls = 2
    MaxStops = 1
    ChanSize = 1
    Reports = {}
    Faults = {"start"}
INVARIANT OneContainerUnlessStopped
PROPERTY CallsReturn
PROPERTY EndedRunIsReleased
PROPERTY StopEndsRun
CHECK_DEADLOCK FALSE
