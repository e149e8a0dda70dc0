\* One stream, data both ways, no deadline expires and nothing breaks.
\* A window of 2 with slices of 1 and 2 makes writers wait, and a slice of 2 that
\* meets a half filled buffer leaves a rest for the next Read.
CONSTANTS
    Dials = {d1}
    WINDOWSIZE = 2
    Slices = {1, 2}
    BUFSIZE = 2
    MaxWrites = 3
    Deadlines = FALSE
    Faults = FALSE
    SharedClose = FALSE
SPECIFICATION Spec
INVARIANTS
    TypeOK
    

    
\* Every stream may have ended, and nobody has to dial again.
CHECK_DEADLOCK FALSE
