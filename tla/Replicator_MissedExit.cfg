SPECIFICATION FairSpec
CONSTANTS
    URLs = {u}
    NoURL = NoURL
    MaxCalls = 1
    MaxStops = 0
    ChanSize = 1
    Reports = {}
    Faults = {"exit"}
PROPERTY ExitEndsRun
CHECK_DEADLOCK FALSE
