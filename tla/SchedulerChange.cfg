SPECIFICATION Spec
CONSTANTS
    Frequencies = {"daily", "weekly"}
    Contacts = {c1}
    Requests = {r1}
    Week = 2
    MaxDay = 1
    MaxEdits = 3
    MaxFaults = 0
INVARIANTS
    AtMostOnceWithoutOverlap
