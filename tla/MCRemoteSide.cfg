CONSTANTS
    Faults = {"nosocket", "crash", "nostop"}
    MaxInstalls = 2
    MaxTroubles = 1
SPECIFICATION Spec
INVARIANTS TypeOK NoTrace UserKept
PROPERTIES RecordGrows
CHECK_DEADLOCK FALSE
