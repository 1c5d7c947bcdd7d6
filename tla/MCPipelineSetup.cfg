\* The first batch fails in its setup while the second waits for its turn.
SPECIFICATION FairSpec
CONSTANTS
    N = 2
    Workers = 2
    Hosts = {"append"}
    Modes = {"parallel"}
PROPERTY NoWaiterWaitsForever
CHECK_DEADLOCK FALSE
