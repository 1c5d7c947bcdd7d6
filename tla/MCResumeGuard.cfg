SPECIFICATION Spec
CONSTANTS
    g1 = g1
    g2 = g2
    Runs = {r1, r2}
    Groups = {g1, g2}
    AllGroups = AllGroups
    Sealable = {g2}
    MaxSpans = 1
    Invocations <- MCInvocations
SYMMETRY RunSymmetry
INVARIANTS
    RangesKeepApart
    PlainRunsStartClean
    SealsHold
CHECK_DEADLOCK FALSE
