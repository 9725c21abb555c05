CONSTANTS
    a = a
    b = b
    c = c
    Nodes = {a, b, c}
    Concurrency = 2
    SizeOf <- MCSizeOf
    ClearMarks = TRUE
    MayFail = TRUE
    NoName = NoName
    w1 = w1
    w2 = w2
SPECIFICATION MCSpec
INVARIANTS NameIndexSound
PROPERTIES ImplementsLeaderboardPromise GoroutinesEnd RowsKeepTheirName
CHECK_DEADLOCK FALSE
