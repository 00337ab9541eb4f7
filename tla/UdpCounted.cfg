SPECIFICATION Spec
CONSTANTS
    Packets = {p1, p2}
    Dests = {d1}
    None = None
    MaxTargets = 1
    MaxTasks = 1
INVARIANTS
    CountedWasSent
CHECK_DEADLOCK FALSE
