SPECIFICATION Spec
CONSTANTS
    ecatcheck = ecatcheck
    ecat = ecat
    none = none
    nobody = none
    Callers <- mcCallers
    cyclic = ecat
    MaxBuf = 3
    Segments = 1
    SendFails = TRUE
    MaxReqs = 4
    MaxTries = 2
INVARIANTS Exclusive OwnAnswer
PROPERTIES AnswerKept
CHECK_DEADLOCK FALSE
