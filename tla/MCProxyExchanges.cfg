SPECIFICATION FairSpec
CONSTANTS
    Clients = {c1, c2, c3}
    Secrets = {s1, s2}
    Detectable = {s1}
    NoClient = NoClient
INVARIANTS
    TypeOK
    NoPlaceholderReachesAClient
PROPERTY
    WaitersAreServed
