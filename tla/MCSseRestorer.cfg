SPECIFICATION SseSpec
CONSTANTS
    Byte = {"{", "x", "}"}
    Patterns <- MCPatterns
    SecretOf <- MCSecretOf
    Fields = {"delta", "thinking", "id"}
    Streams <- MCStreams
    Untouched = "id"
    TailField = "delta"
    MaxEvents = 3
INVARIANTS
    TextIsConserved
    JoinedTextIsRestored
CHECK_DEADLOCK FALSE
