CONSTANTS
    MaxId = 2
    Inputs <- MCLostUpdate
    MaxEdges = 2
    MaxDenseEdges = 0
    DirtySizes = {2}
    HalfMaxId = 0
SPECIFICATION Spec
INVARIANT LinearStack
CHECK_DEADLOCK FALSE
