SPECIFICATION Spec
CONSTANTS
    Identity = {i1, i2}
    Key = {k1, k2, k3, k4}
    Cred = {c1, c2}
    SessionId = {s1, s2}
    Request = {r1, r2}
    None = None
    SessionTTL = 1
    MaxCount = 2
    FirstCounts = {0, 1}
    Faults = TRUE
SYMMETRY Symmetry
INVARIANTS
    IInv
    SessionsOpenForOwner
    HandlesAreOwners
PROPERTIES
    CountsOnlyRise
    RefinesOneShot
