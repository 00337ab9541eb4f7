SPECIFICATION Spec
CONSTANTS
    Frequencies = {"daily"}
    Contacts = {c1}
    Requests = {r1}
    Week = 2
    MaxDay = 0
    MaxEdits = 2
    MaxFaults = 0
INVARIANTS
    AtMostOnce
