\* A writer without window on a connection that breaks.
CONSTANTS
    Dials = {d1}
    WINDOWSIZE = 1
    Slices = {1}
    BUFSIZE = 1
    MaxWrites = 2
    Deadlines = FALSE
    Faults = TRUE
    SharedClose = FALSE
SPECIFICATION FairSpec
PROPERTIES
    WritersBreakWithTunnel
\* Every stream may have ended, and nobody has to dial again.
CHECK_DEADLOCK FALSE
