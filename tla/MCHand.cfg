SPECIFICATION FairSpec
CONSTANTS
    RtThreads <- mcRtThreads
    ecat = ecat
    other = other
    main = main
    bridge = bridge
    Orderly = TRUE
    MaxStarts = 3
    MaxSegs = 2
    NJ = 2
    ServoMsgs <- mcServo
    ModeMsgs <- mcMode
    MaxSent = 2
INVARIANTS Together WipesNobody ArmedWithTarget
PROPERTIES Delivered
CHECK_DEADLOCK FALSE
