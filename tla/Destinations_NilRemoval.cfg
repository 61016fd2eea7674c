SPECIFICATION Spec
CONSTANTS
    IDs = {a, b}
    Named = {a, b, NoID}
    Names = {n}
    URLs = {u, v}
    BadURL = BadURL
    NoID = NoID
    NoName = NoName
    NoURL = NoURL
    MaxFaults = 1
SYMMETRY MCSymmetry
PROPERTY LiveIsRemovedByForce
CHECK_DEADLOCK FALSE
