CONSTANTS
    Tabs = {t1, t2}
    Emails = {e1}
    NoEmail = NoEmail
    MaxSends = 1
    Backend = "redis"
    MayLose = FALSE
    Stats = {"absent", "file"}
    MaxFetches = 1
SPECIFICATION FairSpec
INVARIANT CodeCleanedUp
