CONSTANTS
    Runs = {1, 2, 3}
    Slots = {1, 2, 3}
    Compactors = {c1}
    Loads <- InTurnAndTogether
SPECIFICATION Spec
CHECK_DEADLOCK FALSE
INVARIANTS
    LastWriterKeepsSlot
    CacheAgreesUnlessRevoked
    EndedRunsAreRecorded
