SPECIFICATION FairSpec
CONSTANTS
    Objects <- mcObjects
    Parts <- mcParts
    MaxReads = 2
    MaxLosses = 3
    MaxEmergencies = 1
INVARIANTS ReadExact LeavesNothing
PROPERTIES ReadReturns
CHECK_DEADLOCK FALSE
