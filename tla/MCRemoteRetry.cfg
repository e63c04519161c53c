CONSTANTS
    Faults = {"crash"}
    MaxInstalls = 1
    MaxTroubles = 1
SPECIFICATION Spec
INVARIANTS RetryCleans
CHECK_DEADLOCK FALSE
