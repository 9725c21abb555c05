CONSTANTS
    StoredNames = {a, b}
    Nameless = Nameless
    MaxID = 2
    AddClients = {w1, w2}
    CacheClients = {k}
    Other = Other
    CVEs = {"CVE-1", "CVE-2"}
    Shells = {s}
    LibraryPurls <- MCLibraryPurls
    ResultPurls <- MCResultPurls
    VulnNames <- MCVulnNames
    EPSSFiles <- MCEPSSFiles
    VEXDocuments <- MCDocuments
    Paths <- MCPaths
    NodeNames <- MCNodeNames
    NoName <- MCNoName
    TypeOf <- MCTypeOf
    Reached <- MCReached
    Scripts <- MCScripts
    DefaultNames <- MCDefaultNames
    Globs <- MCGlobs
    GlobNames <- MCGlobNames
    InOrder <- MCInOrder
    RangeEvents <- MCRangeEvents
    SomeVersions <- MCSomeVersions
SPECIFICATION PartsSpec
INVARIANTS BracketsGroup
CHECK_DEADLOCK FALSE
