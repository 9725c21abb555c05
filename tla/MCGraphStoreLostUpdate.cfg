CONSTANTS
    MaxId = 3
    MaxEdges = 2
    Loaded <- ThreeNodes
    Names = {a, b, c}
    NoName = NoName
    a = a
    b = b
    c = c
    w1 = w1
    w2 = w2
    Writers = {w1, w2}
    Cachers = {}
    Clearers = {}
    Queriers = {}
    BatchSize = 2
    ClearMarks = FALSE
    MayFail = FALSE
    IndexMayFail = FALSE
SPECIFICATION Spec
PROPERTIES EdgesOnlyGrow
CHECK_DEADLOCK FALSE
