CONSTANTS
    MaxId = 3
    MaxEdges = 2
    Loaded <- OneNode
    Names = {a, b, c}
    NoName = NoName
    a = a
    b = b
    c = c
    p = p
    Writers = {p}
    Cachers = {p}
    Clearers = {p}
    Queriers = {}
    BatchSize = 2
    ClearMarks = TRUE
    MayFail = TRUE
    IndexMayFail = FALSE
SPECIFICATION Spec
SYMMETRY NameSymmetry
INVARIANTS TypeOK UniqueNames CachedWhenUnmarked ExactWhenUnmarked OnlyLostIDsPanic
PROPERTIES EdgesOnlyGrow
CHECK_DEADLOCK FALSE
