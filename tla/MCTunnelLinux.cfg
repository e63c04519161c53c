CONSTANTS
    Inst = {a, b}
    Pids = {p, q, r}
    None = None
    Stale = Stale
    Faults = {"net", "noexec", "disk", "stubborn", "crash", "late"}
    DieWithParent = TRUE
    MinDelay = 1
    MaxDelay = 3
    MaxFaults = 3
SPECIFICATION Spec
SYMMETRY Symmetry
INVARIANTS TypeOK OneSupervisor OneTunnel CleanStop
PROPERTIES KeepsPromise
