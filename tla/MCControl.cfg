\* One writer, two claimants, two maintainers; the instances of the other parts are in the module.
SPECIFICATION MCFairSpec
CONSTANTS
    Writers = {w1}
    Claimants = {c1, c2}
    ListsFirst = {c1}
    Maintainers = {m1, m2}
    NoOne = NoOne
    x1 = x1
    x2 = x2
    y1 = y1
    x = x
    y = y
    Absent = Absent
    Nobody = Nobody
    a1 = a1
    a2 = a2
    b1 = b1
    b2 = b2
    Inputs <- GeometryInputs
INVARIANTS
    MaintenanceIsExclusive
    MaintainerKeepsClaim
    GeometryIsExact
PROPERTIES
    ProductBecomesFree
    GuardKeepsItsWord
    PromotionIsSafe
    RunKeepsItsClaims
CHECK_DEADLOCK FALSE
