CONSTANTS
    Procs = {p1, p2}
    Emails = {e1, e2}
    NoEmail = NoEmail
    MaxSends = 2
    Backend = "redis"
    Setbacks = {"storage", "refuse", "mail", "sign", "crash"}
    MaxSetbacks = 1
SPECIFICATION Spec
SYMMETRY Symmetry
INVARIANTS
    TypeOK
    JwtNamesOwner
    RedeemedCodeStaysDead
    AnsweredLinkIsDead
    LiveCodeIsMailed
PROPERTY CodesAreOneTime
