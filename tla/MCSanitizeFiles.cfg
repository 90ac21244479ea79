SPECIFICATION Spec
CONSTANTS
    text = text
    database = database
    binary = binary
    k = k
    m = m
    Files = {text, database, binary}
    KindOf <- MCKindOf
    Secrets = {k, m}
    Discovered = {k}
    InitialFiles <- MCInitialFiles
    Lines <- MCLines
    Walks <- MCWalks
    d1 = d1
    d2 = d2
    Dirs = {d1, d2}
    Configs <- MCConfigs
    MaxRuns = 2
    MaxWrites = 1
    NoCopy = NoCopy
INVARIANTS
    OriginalsAreKept
    LinesSurvive
    ReportIsHonest
    SweptFilesAreClean
CHECK_DEADLOCK FALSE
