CONSTANTS
    MaxId = 3
    Inputs <- MCInputs
    MaxEdges = 1
    MaxDenseEdges = 0
    DirtySizes = {1}
    HalfMaxId = 0
SPECIFICATION Spec
INVARIANT FullSets
CHECK_DEADLOCK FALSE
