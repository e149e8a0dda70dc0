\* One caller, the balancer, two tunnels alive at a time.
CONSTANTS
    Callers = {c1}
    Balancer = b
    Tunnels = {t1, t2}
    NCreators = 1
    MinSess = 1
    MaxConn = 1
    MaxSize = 2
    NoTunnel = NoTunnel
    NoOne = NoOne
SPECIFICATION FairSpec
INVARIANTS
    TypeOK
    LiveTunnelsPooled
PROPERTIES
    DeadTunnelsLeave
    
    
    OverloadRelieved
