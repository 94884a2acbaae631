SPECIFICATION Spec
CONSTANTS
    Callers = {c1, c2}
    Hosts = {h1}
    None = None
    MaxConnects = 3
    MaxLosses = 1
    MaxSends = 1
    MaxEvents = 3
    MaxIncoming = 1
INVARIANTS
    TypeOK
    MonitorExact
PROPERTIES
    Returns
CHECK_DEADLOCK FALSE
