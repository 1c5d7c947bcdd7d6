CONSTANTS
    a1 = a1
    a2 = a2
SPECIFICATION Spec
SYMMETRY ActorSymmetry
PROPERTIES
    IndexIsSettledOnce
    CoordinateIsSettled
    OwnedValuesAreSafe
    RegionsAreKept
    BufferKeepsOrder
    PlansAreExecutable
    AppendsAreAccountedFor
    ConsolidationIsRepeatable
    MetadataIsNotReverted
CHECK_DEADLOCK FALSE
