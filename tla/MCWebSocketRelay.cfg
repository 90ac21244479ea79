SPECIFICATION RelaySpec
CONSTANTS
    Byte = {"{", "x", "}", "q", "!"}
    Patterns <- MCPatterns
    SecretOf <- MCSecretOf
    Conversations <- MCConversations
    Streamed <- MCStreamed
    Sanitized <- MCSanitized
    Malformed <- MCMalformed
    MaxText = 4
    Secrets = {"own", "other"}
    Registers <- MCRegisters
INVARIANTS
    TextIsSentSanitized
    OtherFramesPass
    AnswerIsConserved
CHECK_DEADLOCK FALSE
