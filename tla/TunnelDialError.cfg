\* A target that refuses is enough.
CONSTANTS
    Dials = {d1}
    WINDOWSIZE = 2
    Slices = {1, 2}
    BUFSIZE = 2
    MaxWrites = 0
    Deadlines = FALSE
    Faults = FALSE
    SharedClose = FALSE
SPECIFICATION Spec
INVARIANTS
    DialErrorReported
\* Every stream may have ended, and nobody has to dial again.
CHECK_DEADLOCK FALSE
