SPECIFICATION FairSpec
CONSTANTS
    KeyId = {k1, k2, k3}
    Rotator = {p1, p2}
    Issuer = {i1, i2}
    RelyingParty = {v1}
    NoKey = NoKey
    AccessTTL = 2
    PublishTTL = 3
    SignDelay = 1
    Crashes = TRUE
INVARIANTS
    IInv
    OneActiveUnlessOverlap
    CopiesMissOnlyNewKeys
PROPERTIES
    GapCloses
    RefinesKeySet
