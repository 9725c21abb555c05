CONSTANTS
    MaxId = 4
    Inputs <- MCInputs
    MaxEdges = 4
    MaxDenseEdges = 5
    DirtySizes = {1, 2}
    HalfMaxId = 3
SPECIFICATION FairSpec
INVARIANTS TypeOK LinksAreComponents ClosedComponentsAreWhole CacheSound MarkedIsComplete StackBounded
PROPERTIES ImplementsCacheCall CacheCallReturns
CHECK_DEADLOCK FALSE
