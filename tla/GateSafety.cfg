SPECIFICATION Spec
CONSTANTS
    TTL = 4
    Heartbeat = 2
    Interval = 1
    Timeout = 1
    DbTimeout = 1
    OpenTimeout = 2
    RestartDelay = 1
    StopTimeout = 5
    MaxFaults = 2
INVARIANTS
    TypeOK
    RedirectRestsOnEvidence
    FallbackStatusHonest
    LapsesAfterStop
    ShadowNeverRedirects
PROPERTIES
    ImplementsLease
    ActiveStatusHonest
