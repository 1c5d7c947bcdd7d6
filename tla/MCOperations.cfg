CONSTANTS
    a1 = a1
    a2 = a2
    Writers = {"w"}
    Maintainers = {"m"}
    Observers = {"o"}
    Claimants = {}
    ListsFirst = {}
    NoOne = None
    Documents = {"d1", "d2"}
    Contents = {"A", "B"}
    Missing = None
    MaxTaken = 1
    MaxChanges = 1
SPECIFICATION MCSpec
SYMMETRY ActorSymmetry
INVARIANTS
    SnapshotsHold
PROPERTIES
    DeletionIsAccountedFor
    MigrationIsExact
    ReleasesAreKept
    RunIsRecorded
CHECK_DEADLOCK FALSE
