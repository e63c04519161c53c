CONSTANTS
    Conns = {c1, c2, c3}
    MaxActive = 1
    MaxWaiting = 1
    MaxChildren = 1
    Faults = {"thread", "exec"}
    MaxFaults = 1
SPECIFICATION FairSpec
INVARIANTS TypeOK PermitsAccounted ToldTheTruth
PROPERTIES EveryConnectionEnds KeepsPromise
CHECK_DEADLOCK FALSE
