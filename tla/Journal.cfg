SPECIFICATION FairSpec
CONSTANTS
    Domains = {a, b}
    Other = Other
    MaxRecords = 2
    MaxEntries = 4
    MaxFaults = 2
INVARIANTS
    TypeOK
PROPERTIES
    ImplementsImport
    CaughtUp
