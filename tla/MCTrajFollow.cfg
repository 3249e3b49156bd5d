SPECIFICATION FairSpec
CONSTANTS
    MaxPts = 4
    Lower <- mcLower
    Upper = 2
    Horizon = 6
    Grace = 2
    Periods <- mcPeriods
    VMax = 1
    Junk <- mcJunk
INVARIANTS FirstCommandDecides OnPath
PROPERTIES NoJump FinishesAtRest Ends
CHECK_DEADLOCK FALSE
