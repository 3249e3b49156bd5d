SPECIFICATION Spec
CONSTANTS
    N = 4
    Layouts <- mcLayouts
    Limit = 4
    WriteNum = 2
    ReadNum = 3
    kHandNum = 2
INVARIANTS WellMapped FramesFit CompleteIsFresh OwnWindow
