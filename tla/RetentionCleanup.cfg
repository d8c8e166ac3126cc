SPECIFICATION Spec
CONSTANTS
    SessionId = {s1, s2, s3}
    NoSession = NoSession
    RefreshTTL = 1
    Retention = 2
PROPERTY CleanupDeletesEligible
