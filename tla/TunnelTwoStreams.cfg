\* Two streams share the tunnel: one slice each way on each of them.
CONSTANTS
    Dials = {d1, d2}
    WINDOWSIZE = 1
    Slices = {1}
    BUFSIZE = 1
    MaxWrites = 1
    Deadlines = FALSE
    Faults = FALSE
    SharedClose = FALSE
SPECIFICATION Spec
SYMMETRY DialSymmetry
INVARIANTS
    FramesFindTheirConn
    FinIsLast
    EOFMeansAll
PROPERTIES
    LoopSurvives
\* Every stream may have ended, and nobody has to dial again.
CHECK_DEADLOCK FALSE
