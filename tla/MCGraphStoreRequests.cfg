CONSTANTS
    MaxId = 3
    MaxEdges = 2
    Loaded <- ThreeNodes
    Names = {a, b, c}
    NoName = NoName
    a = a
    b = b
    c = c
    c1 = c1
    w1 = w1
    Writers = {w1}
    Cachers = {c1}
    Clearers = {c1}
    Queriers = {c1}
    BatchSize = 2
    ClearMarks = TRUE
    MayFail = TRUE
    IndexMayFail = FALSE
SPECIFICATION Spec
INVARIANTS CachesInventNothing ParentsAreMirrored AnswersInventNothing WalksMissNothing
CHECK_DEADLOCK FALSE
