CONSTANTS
    Procs = {p1, p2}
    Keys = {k1}
    Limit = 1
    Window = 2
    MaxCount = 3
    MaxFaults = 1
SPECIFICATION FairSpec
PROPERTY BlockedIsTemporary
