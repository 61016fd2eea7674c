SPECIFICATION Spec
CONSTANTS
    IDs = {a, b}
    Named = {a, b}
    Names = {n}
    URLs = {u, v}
    BadURL = BadURL
    NoID = NoID
    NoName = NoName
    NoURL = NoURL
    MaxFaults = 0
SYMMETRY MCSymmetry
INVARIANT RemovalNeedsNoValidation
CHECK_DEADLOCK FALSE
