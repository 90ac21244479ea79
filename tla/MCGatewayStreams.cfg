SPECIFICATION FairSpec
CONSTANTS
    Clients = {c1}
    Secrets = {s1}
    Detectable = {s1}
    NoClient = NoClient
PROPERTY
    StreamsReachUpstream
CHECK_DEADLOCK FALSE
