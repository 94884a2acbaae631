SPECIFICATION Spec
CONSTANTS
    Threads = {t1, t2}
    Pollers = {t1}
    Peers = {p1}
    PruneTime = 1
    Listed = {p1}
    Claims = {0}
    MaxTime = 2
    MaxObjects = 3
    MaxStarts = 2
INVARIANTS
    TypeOK
    OneInstance
PROPERTIES
    IdStable
    PruneDeletesExpired
    PruneComplete
CHECK_DEADLOCK FALSE
