SPECIFICATION FairSpec
CONSTANTS
    Conns = {c1, c2}
    MaxConnections = 1
    MaxEvents = 4
INVARIANTS
    TypeOK
    SlotsExact
    NothingOutlivesSlot
PROPERTIES
    ImplementsTunnel
    SlotsComeBack
CHECK_DEADLOCK FALSE
