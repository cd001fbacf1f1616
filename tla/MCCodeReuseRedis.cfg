CONSTANTS
    Procs = {p1, p2}
    Emails = {e1}
    NoEmail = NoEmail
    MaxSends = 1
    Backend = "redis"
    Setbacks = {}
    MaxSetbacks = 0
SPECIFICATION Spec
INVARIANT CodeSingleUse
