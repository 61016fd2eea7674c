SPECIFICATION Spec
CONSTANTS
    Sessions = {s, t, u}
    Requests = {q, r}
    MaxCredentials = 4
    MaxFaults = 1
    None = None
    Torn = Torn
SYMMETRY MCSymmetry
INVARIANT TypeOK
INVARIANT SessionsEnd
INVARIANT AuthenticationStays
PROPERTY PrintedIsInForce
CHECK_DEADLOCK FALSE
