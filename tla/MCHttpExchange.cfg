SPECIFICATION HttpSpec
CONSTANTS
    Byte <- MCByte
    Patterns <- MCPatterns
    SecretOf <- MCSecretOf
    Requests <- MCRequests
    Responses <- MCResponses
    SanitizedBody <- MCSanitizedBody
    RefusedBodies <- MCRefusedBodies
    NoLength = NoLength
    Cr = Cr
    Lf = Lf
    Open = Open
    X = X
    Close = Close
    S = S
    Semicolon = Semicolon
INVARIANTS
    RequestArrivesSanitized
    ResponseArrivesRestored
CHECK_DEADLOCK FALSE
