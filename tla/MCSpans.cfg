SPECIFICATION ScanSpec
CONSTANTS
    Byte = {"a", "b"}
    Secrets <- MCSecrets
    Labels = {"ENV", "USER"}
    PlaceholderOf <- MCPlaceholderOf
    Prefilter <- MCPrefilter
    MaxTextLen = 8
    ScannedTexts <- MCTexts
    ChunkSize = 4
INVARIANTS
    RegistryTypeOK
    OneIdPerSecret
    IndexFindsEverySecret
    PlaceholdersResolve
    LongestMatchWins
    NoSecretSurvives
    RedactionIsReversible
    ChunksFindIsolatedSecrets
PROPERTY
    AppendOnly
