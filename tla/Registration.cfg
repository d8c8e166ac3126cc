SPECIFICATION FairSpec
CONSTANTS
    ann1 = ann1
    ann2 = ann2
    ann3 = ann3
    ann = ann
    annDash1 = annDash1
    annDash1Dash1 = annDash1Dash1
    Email = {ann1, ann2, ann3}
    Slug = {ann, annDash1, annDash1Dash1}
    Request = {r1, r2, r3}
    None = None
    NPerm = 2
    MaxSlugAttempts = 1
    Candidate <- MCCandidate
    Faults = TRUE
INVARIANTS
    IInv
    FailuresHaveCause
    NoWaitCycle
PROPERTIES
    CallsRunOut
    EveryCallEnds
    RefinesAccounts
CHECK_DEADLOCK FALSE
