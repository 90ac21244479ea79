SPECIFICATION Spec
CONSTANTS
    Documents <- MCDocuments
    KeyOrder <- MCKeyOrder
    BinarySuffixes <- MCBinarySuffixes
    Spelling <- MCSpelling
    InitialRegistries <- MCInitialRegistries
    PatternSets <- MCPatternSets
    Matches <- MCMatches
    PlaceholderOf <- MCPlaceholderOf
    MaxChunk = 3
    MaxBodies = 2
INVARIANTS
    StreamFollowsTheDocument
    NothingKnownLeaves
    BodyIsRestorable
    GuidanceIsGivenOnce
CHECK_DEADLOCK FALSE
