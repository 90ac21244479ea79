SPECIFICATION FairSpec
CONSTANTS
    Byte = {"a", "b", "c", "=", "!", "{", "}"}
    Secrets <- MCSecrets
    Labels = {"ENV", "AUTO"}
    PlaceholderOf <- MCPlaceholderOf
    Prefilter <- MCPrefilter
    Strings <- MCStrings
    Objects <- MCObjects
    Canonical <- MCCanonical
    Rendered <- MCRendered
    Detected <- MCDetected
    Malformed <- MCMalformed
    AutoLabel = "AUTO"
    MaxEntries = 2
    ChunkSize = 3
INVARIANTS
    OrderListsEntries
    KeysAreReachable
    EntriesAreFresh
    Transparent
PROPERTIES
    EvictsLeastRecentlyUsed
    CallsReturn
