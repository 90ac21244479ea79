SPECIFICATION FairSpec
CONSTANTS
    Clients = {c1, c2}
    Secrets = {s1, s2}
    Detectable = {s1}
    NoClient = NoClient
INVARIANTS
    NoPlaceholderReachesAClient
PROPERTY
    WaitersAreServedOrCircle
