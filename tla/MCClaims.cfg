CONSTANTS
    Incs = {i1, i2}
    Ops = {o1}
    Drivers = {TRUE, FALSE}
    MaxRev = 2
    NoOne = NoOne
    MaxLate = 1
    MaxAged = 0
SYMMETRY Symmetry
SPECIFICATION Spec
CHECK_DEADLOCK FALSE
INVARIANTS
    HolderOwnsRecord
    ReleaseLeavesNoClaim
PROPERTIES
    NoDisplacement
    ImplementsLease
