CONSTANTS
    Keys = {k1, k2}
    Limit = 2
    Window = 3
    MaxCount = 3
    Watched = {k1}
    MaxResets = 1
SPECIFICATION SlidingSpec
INVARIANTS
    TypeOK
    SlidingBound
PROPERTIES
    ImplementsRateLimiter
    BlockedIsTemporary
    StaleEntriesEvicted
