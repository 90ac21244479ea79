SPECIFICATION Spec
CONSTANTS
    Byte = {"{", "x", "}"}
    Patterns <- MCPatterns
    SecretOf <- MCSecretOf
    Sources <- MCSources
    MaxBodyLen = 7
INVARIANTS
    HoldsLessThanAPlaceholder
    CutsAreInvisible
PROPERTY
    KeepsThePromise
CHECK_DEADLOCK FALSE
