\* Two connections: the second client has any configuration.
CONSTANTS
    k1 = k1
    k2 = k2
    Conns <- MCConns
    Configs <- MCConfigs
    MaxLost = 1
    NoConn = NoConn
SPECIFICATION FairSpec
INVARIANTS
    PoolOwnsConnection
    SessionAgreed
PROPERTIES
    CreateEnds
    AcceptorReturns
    HandlersDecide
