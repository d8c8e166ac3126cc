SPECIFICATION FairSpec
CONSTANTS
    SessionId = {1, 2, 3}
    Before <- Ascending
    Request = {r1, r2}
    NoSession = NoSession
    RefreshTTL = 1
    AccessTTL = 1
    CacheTTL = 2
    Paths <- HeaderFirst
    Faults = TRUE
PROPERTIES
    RefreshHandsOver
    DeadSessionsFadeOut
