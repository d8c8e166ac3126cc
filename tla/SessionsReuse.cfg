SPECIFICATION Spec
CONSTANTS
    SessionId = {s1, s2, s3}
    Before <- AnyOrder
    Request = {r1, r2}
    NoSession = NoSession
    RefreshTTL = 2
    AccessTTL = 1
    CacheTTL = 1
    Paths <- AllPaths
    Faults = FALSE
INVARIANT RefreshTokenSingleUse
