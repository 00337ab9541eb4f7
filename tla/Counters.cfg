SPECIFICATION FairSpec
CONSTANTS
    Domains = {a}
    Handlers = {h1, h2}
    MaxPending = 1
    MaxMinute = 1
    MaxBytes = 2
    MaxFaults = 1
INVARIANTS
    TypeOK
    Conservation
    HeartbeatHonest
    PendingBound
    LastFlushComplete
PROPERTIES
    ImplementsLedger
    EventuallySaved
