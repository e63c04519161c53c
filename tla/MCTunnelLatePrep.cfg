CONSTANTS
    Inst = {a}
    Pids = {p, q}
    None = None
    Stale = Stale
    Faults = {"net", "late"}
    DieWithParent = TRUE
    MinDelay = 1
    MaxDelay = 2
    MaxFaults = 2
SPECIFICATION FairSpec
PROPERTIES Heals
