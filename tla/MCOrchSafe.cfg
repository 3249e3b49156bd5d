SPECIFICATION Spec
CONSTANTS
    g1 = g1
    g2 = g2
    bad = bad
    Goals <- mcTwo
    Valid <- mcTwo
    None = None
    Start = Start
    Zero = Zero
    Safe = Safe
    Last = 1
    Steps = 1
    Tries = 1
    MaxAborts = 2
SYMMETRY mcSym
INVARIANTS TypeOK OneOwner ClosesAtGrasp SucceededIsComplete StopsSoon
