CONSTANTS
    Inst = {a}
    Pids = {p, q}
    None = None
    Stale = Stale
    Faults = {"net", "noexec"}
    DieWithParent = TRUE
    MinDelay = 1
    MaxDelay = 6
    MaxFaults = 6
SPECIFICATION HistorySpec
INVARIANTS BackoffLaw
