CONSTANTS
    Remotes = {a}
    Tokens = {t1, t2, t3, t4, t5}
    None = None
    MaxVersion = 2
    Faults = {"ssh"}
    MaxFaults = 1
SPECIFICATION Spec
INVARIANTS UpdateComplete
