CONSTANTS
    Procs = {p1, p2}
    Emails = {e1}
    IPs = {i1, i2}
    EmailLimit = 2
    IPLimit = 1
    Window = 2
    MaxUsed = 3
    MaxFaults = 1
SPECIFICATION Spec
SYMMETRY Symmetry
INVARIANTS
    TypeOK
    MailsPerAddress
    MailsPerIP
