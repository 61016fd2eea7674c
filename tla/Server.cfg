SPECIFICATION FairSpec
CONSTANTS
    Clients = {c}
    Callers = {k}
    BusSize = 1
    DispatchSize = 1
    waitForClient = TRUE
    Faults <- AllFaults
INVARIANT TypeOK
PROPERTY AsksBeforeLeaving
PROPERTY CallsAreAnswered
PROPERTY GoneClientIsForgotten
PROPERTY InterruptIsHeldByUserOnly
CHECK_DEADLOCK FALSE
