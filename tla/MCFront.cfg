\* A program that has served its user stops.
CONSTANTS
    BYTE = 1
    V4 = 3
    V6 = 4
    ROOM = 1
    Traffic <- MCTraffic
    MaxDatagrams = 2
    Source <- MCSource
    UDP_TIMEOUT = 2
    FREELIST = 1
    MaxReplies = 1
    Configs <- MCConfigs
SPECIFICATION FairSpec
CHECK_DEADLOCK FALSE
INVARIANTS
    RightRoute
    
    
    PayloadIntact
    ChannelOpen
PROPERTIES
    
    MappingsLeave
