\* Opening and closing of one stream with expiring deadlines and a connection
\* that may break; the windows play no part.
CONSTANTS
    Dials = {d1}
    WINDOWSIZE = 2
    Slices = {1, 2}
    BUFSIZE = 2
    MaxWrites = 0
    Deadlines = TRUE
    Faults = TRUE
    SharedClose = FALSE
SPECIFICATION FairSpec
INVARIANTS
    ClosingHasDeadline
    EstAgreed
PROPERTIES
    DialReturns
    HalfClosedEnds
\* Every stream may have ended, and nobody has to dial again.
CHECK_DEADLOCK FALSE
