SPECIFICATION Spec
CONSTANTS
    Clients = {c}
    Callers = {}
    BusSize = 1
    DispatchSize = 1
    waitForClient = TRUE
    Faults <- AllFaults
PROPERTY ConnectedUserIsAsked
CHECK_DEADLOCK FALSE
