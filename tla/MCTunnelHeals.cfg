CONSTANTS
    Inst = {a}
    Pids = {p, q, r}
    None = None
    Stale = Stale
    Faults = {"net", "stubborn", "crash", "slow"}
    DieWithParent = FALSE
    MinDelay = 1
    MaxDelay = 2
    MaxFaults = 2
SPECIFICATION FairSpec
INVARIANTS Recorded
PROPERTIES Heals StopCompletes
