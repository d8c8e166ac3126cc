SPECIFICATION WorkerFairSpec
CONSTANTS
    SessionId = {s1, s2}
    NoSession = NoSession
    RefreshTTL = 1
    Retention = 2
    MaxEvents = 2
    WorkerId = {w1}
    MaxPending = 2
    Faults = TRUE
INVARIANTS
    WorkerInv
PROPERTIES
    EventsSettle
    DeadRowsGoWhenRefreshStops
