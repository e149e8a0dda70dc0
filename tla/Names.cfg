\* Two callers, three hosts (one without an address), a cache of two.  Once a
\* goroutine has panicked with client.lock in hand, the others may all stop.
CONSTANTS
    Callers = {p1, p2}
    Hosts = {h1, h2, h3}
    Unknown = {h3}
    MaxEntries = 2
    NoHost = NoHost
SPECIFICATION FairSpec
CHECK_DEADLOCK FALSE
INVARIANTS
    CacheConsistent
    HoldsMostRecent
PROPERTIES
    LookupsEnd
