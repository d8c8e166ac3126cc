SPECIFICATION Spec
CONSTANTS
    Identity = {i1, i2}
    Admin = {i1}
    Factor = {f1}
    Ticket = {t1}
    SessionId = {s1, s2, s3}
    Request = {r1, r2}
    None = None
    MaxCodes = 1
    ChallengeTTL = 1
    Faults = TRUE
SYMMETRY Symmetry
INVARIANTS
    IInv
PROPERTIES
    FactorEndsPasswordOnly
    PolicyEndsPasswordOnly
    LockoutNeedsAdmin
    RefinesOneShot
