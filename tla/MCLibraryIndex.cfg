CONSTANTS
    l1 = l1
    l2 = l2
    r1 = r1
    r2 = r2
    c1 = c1
    c2 = c2
    Clients = {c1, c2}
    Libraries = {l1, l2}
    Records = {r1, r2}
    Affected <- MCAffected
    None = None
    MayFail = TRUE
    a = a
    b = b
    NoName = NoName
    k1 = k1
    w1 = w1
SPECIFICATION MCSpec
INVARIANTS TypeOK AnsweredLibrariesAreIndexed AnsweredLibrariesAreLinked
PROPERTIES RequestsEnd GraphRequestsEnd
