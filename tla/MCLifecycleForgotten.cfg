CONSTANTS
    Remotes = {a, b}
    Tokens = {t1, t2, t3, t4, t5}
    None = None
    MaxVersion = 2
    Faults = {}
    MaxFaults = 0
SPECIFICATION Spec
INVARIANTS NoRemoteForgotten
