CONSTANTS
    Incs = {i1}
    Ops = {o1}
    Drivers = {TRUE, FALSE}
    MaxRev = 3
    NoOne = NoOne
    MaxLate = 2
    MaxAged = 2
SPECIFICATION FairSpec
CHECK_DEADLOCK FALSE
INVARIANTS
    NoSpuriousLoss
    SweepSparesLiveClaims
PROPERTY EvictionIsNoticed
