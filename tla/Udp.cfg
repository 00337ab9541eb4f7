SPECIFICATION FairSpec
CONSTANTS
    Packets = {p1, p2, p3}
    Dests = {d1, d2}
    None = None
    MaxTargets = 1
    MaxTasks = 2
INVARIANTS
    TypeOK
    SocketsBounded
    NoOrphan
    LeavesNothing
PROPERTIES
    TasksEnd
CHECK_DEADLOCK FALSE
