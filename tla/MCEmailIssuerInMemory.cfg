CONSTANTS
    Procs = {p1, p2}
    Emails = {e1, e2}
    NoEmail = NoEmail
    MaxSends = 3
    Backend = "inmemory"
    Setbacks = {"refuse", "sign", "mail", "crash"}
    MaxSetbacks = 1
SPECIFICATION Spec
SYMMETRY Symmetry
INVARIANTS
    RedeemedCodeStaysDead
    CodeJwtsBounded
PROPERTY LinksAreOneTime
