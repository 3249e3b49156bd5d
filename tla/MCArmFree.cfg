SPECIFICATION FairSpec
CONSTANTS
    NJ = 2
    MaxPts = 2
    Val <- mcVal
    Zero = 0
    InLimits <- mcInLimits
    Far <- mcFar
    MinSpeed = 1
    MaxSpeed = 1000
    DefaultSpeed = 100
    NaN = NaN
    TrajMsgs <- mcLiveTrajs
    TargetMsgs <- mcLiveTargets
    SpeedMsgs <- mcSpeedMsgs
    OneAtATime = FALSE
    MaxSent = 2
    MaxFaults = 1
    MaxCrashes = 1
INVARIANTS TypeOK FollowedIsValidated StartsOnce NoSpontaneousMove SpeedInRange
PROPERTIES BufferReleased Settles
