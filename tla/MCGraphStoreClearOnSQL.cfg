CONSTANTS
    MaxId = 2
    MaxEdges = 1
    Loaded <- Nothing
    Names = {a, b}
    NoName = NoName
    a = a
    b = b
    c = c
    p = p
    Writers = {p}
    Cachers = {p}
    Clearers = {p}
    Queriers = {}
    BatchSize = 2
    ClearMarks = FALSE
    MayFail = FALSE
    IndexMayFail = FALSE
SPECIFICATION Spec
SYMMETRY NameSymmetry
INVARIANTS CachedWhenUnmarked
CHECK_DEADLOCK FALSE
