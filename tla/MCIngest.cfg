\* Four batches on two workers, both hosts, both runners; three threads of a session.
SPECIFICATION MCFairSpec
CONSTANTS
    N = 4
    Workers = 2
    Hosts = {"append", "direct"}
    Modes = {"parallel", "sequential"}
    t1 = t1
    t2 = t2
    t3 = t3
INVARIANTS
    AppendsAreAPrefix
    WritesAreExclusive
    BatchesAreAccountedFor
    CompleteIsWhole
PROPERTIES
    RunsEnd
    SessionIsSound
CHECK_DEADLOCK FALSE
