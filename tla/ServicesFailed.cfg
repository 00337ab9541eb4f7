SPECIFICATION Spec
CONSTANTS
    Chains = 2
    MaxFaults = 1
PROPERTIES
    FailedStaysOff
CHECK_DEADLOCK FALSE
