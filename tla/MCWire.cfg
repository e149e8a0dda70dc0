\* A window of 2 makes writers wait; 2^16 is represented by 4, so that a Write of
\* 3 bytes is one of the longest.
CONSTANTS
    Streams = {1, 2}
    CAP = 1
    WINDOWSIZE = 2
    BUFFERSIZE = 1
    RADIX = 4
    Loads <- MCLoads
SPECIFICATION Spec
INVARIANTS
    FramesWhole
    
PROPERTIES
    LoopGoesOn
    WritesEnd
\* All Writes may have returned.
CHECK_DEADLOCK FALSE
