SPECIFICATION FairSpec
CONSTANTS
    Chains = 2
    MaxFaults = 4
INVARIANTS
    TypeOK
    CleanUnlessCut
    VerifiedBeforeGate
    Withdrawn
    CollectorKept
PROPERTIES
    Activates
CHECK_DEADLOCK FALSE
