SPECIFICATION Spec
CONSTANTS
    NJ = 2
    MaxPts = 2
    Val <- mcVal
    Zero = 0
    InLimits <- mcInLimits
    Far <- mcFar
    MinSpeed = 1
    MaxSpeed = 1000
    DefaultSpeed = 100
    NaN = NaN
    TrajMsgs <- mcMailTrajs
    TargetMsgs <- mcTargetMsgs
    SpeedMsgs <- mcNone
    OneAtATime = TRUE
    MaxSent = 3
    MaxFaults = 1
    MaxCrashes = 1
INVARIANTS FollowsPosted
PROPERTIES MailSpec
