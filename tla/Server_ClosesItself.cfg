SPECIFICATION Spec
CONSTANTS
    Clients = {a, b}
    Callers = {}
    BusSize = 1
    DispatchSize = 1
    waitForClient = FALSE
    Faults = {}
PROPERTY ClosesOnlyOthers
CHECK_DEADLOCK FALSE
