CONSTANTS
    Proxies = {p1, p2}
    Others = {c1, c2}
    Addresses <- MCAddresses
    Junk = {junk}
    None = None
    FirstProxies = {"sets", "removes", "passes"}
    MaxForged = 2
    MaxHops = 3
    MaxChanges = 1
    Labels <- MCLabels
    MaxLabels = 3
    MaxLabel = 4
    MaxDomain = 9
    MaxZoneChanges = 1
    Length = 5
    MaxDigits = 4
SPECIFICATION Spec
CHECK_DEADLOCK FALSE
INVARIANT RealClient
