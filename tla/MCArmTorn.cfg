SPECIFICATION Spec
CONSTANTS
    NJ = 2
    MaxPts = 2
    Val <- mcVal
    Zero = 0
    InLimits <- mcInLimits
    Far <- mcFar
    MinSpeed = 1
    MaxSpeed = 1000
    DefaultSpeed = 100
    NaN = NaN
    TrajMsgs <- mcTwoTraj
    TargetMsgs <- mcNone
    SpeedMsgs <- mcNone
    OneAtATime = FALSE
    MaxSent = 2
    MaxFaults = 0
    MaxCrashes = 0
INVARIANTS FollowsSomeMessage
