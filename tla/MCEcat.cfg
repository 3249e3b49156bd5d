SPECIFICATION FairSpec
CONSTANTS
    N = 2
    MaxFaults = 2
    MaxEarlyFaults = 1
INVARIANTS MasterTypeOK NotForgotten LostStartIsSeen
PROPERTIES HealthySpared Recovers
CHECK_DEADLOCK FALSE
