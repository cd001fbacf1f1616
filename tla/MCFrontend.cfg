CONSTANTS
    Tabs = {t1, t2}
    Emails = {e1}
    NoEmail = NoEmail
    MaxSends = 1
    Backend = "redis"
    MayLose = TRUE
    Stats = {"absent", "file", "error"}
    MaxFetches = 2
SPECIFICATION FairSpec
INVARIANTS
    TypeOK
    NoSpuriousError
PROPERTY LinkSettles
