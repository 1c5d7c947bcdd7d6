CONSTANTS
    Processes = {"p", "q"}
    Groups = {"g"}
    Timestamps = {1, 2, 3}
    Loads <- ThreeCalls
SPECIFICATION AppendSpec
CHECK_DEADLOCK FALSE
INVARIANTS
    CacheIsOnlyASpeedUp
