SPECIFICATION FairSpec
CONSTANTS
    TTL = 2
    Heartbeat = 1
    Interval = 1
    Timeout = 1
    DbTimeout = 0
    OpenTimeout = 1
    RestartDelay = 1
    StopTimeout = 2
    MaxFaults = 2
PROPERTIES
    Recovers
    StopReleases
