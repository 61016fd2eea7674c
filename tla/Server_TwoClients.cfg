SPECIFICATION Spec
CONSTANTS
    Clients = {a, b}
    Callers = {}
    BusSize = 1
    DispatchSize = 1
    waitForClient = TRUE
    Faults <- AllFaults
SYMMETRY MCSymmetry
INVARIANT TypeOK
PROPERTY AsksBeforeLeaving
CHECK_DEADLOCK FALSE
