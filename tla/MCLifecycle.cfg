CONSTANTS
    Remotes = {a, b}
    Tokens = {t1, t2, t3, t4, t5}
    None = None
    MaxVersion = 2
    Faults = {"ssh", "systemd", "disk", "pypi", "crash"}
    MaxFaults = 1
SPECIFICATION FairSpec
INVARIANTS TypeOK Removable Paired Agreed DownWhileCleaning Clean PutBack
PROPERTIES UpdateKeepsChoice Repairs
