SPECIFICATION Spec
CONSTANTS
    IDs = {a}
    Named = {a, NoID}
    Names = {n}
    URLs = {u, v}
    BadURL = BadURL
    NoID = NoID
    NoName = NoName
    NoURL = NoURL
    MaxFaults = 1
SYMMETRY MCURLSymmetry
INVARIANT IndexIsInView
CHECK_DEADLOCK FALSE
