SPECIFICATION FairSpec
CONSTANTS
    Frequencies = {"daily", "weekly"}
    Contacts = {c1}
    Requests = {r1, r2}
    Week = 2
    MaxDay = 2
    MaxEdits = 2
    MaxFaults = 2
INVARIANTS
    TypeOK
    AdminWins
    SentIsDelivered
    RepeatsExplained
PROPERTIES
    Settles
