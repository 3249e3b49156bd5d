SPECIFICATION FairSpec
CONSTANTS
    N = 1
    MaxFaults = 1
    MaxEarlyFaults = 0
PROPERTIES ResumesOperational
CHECK_DEADLOCK FALSE
