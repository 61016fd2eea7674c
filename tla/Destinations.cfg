SPECIFICATION Spec
CONSTANTS
    IDs = {a, b}
    Named = {a, b}
    Names = {n}
    URLs = {u, v}
    BadURL = BadURL
    NoID = NoID
    NoName = NoName
    NoURL = NoURL
    MaxFaults = 1
SYMMETRY MCSymmetry
INVARIANTS
    TypeOK
    AlignedOrWedged
PROPERTIES
    ShownLiveIsKept
    ImplementsRegistry
CHECK_DEADLOCK FALSE
