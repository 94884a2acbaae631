SPECIFICATION Spec
CONSTANTS
    s = s
    n1 = n1
    n2 = n2
    None = None
    Nodes = {s, n1}
    Seeds <- MCSeeds
    SeedMode = {}
    Network <- MCNetwork
    ConnectionCount = 1
    MaxPeers = 2
    MaxConnects = 2
    MaxStops = 1
    MaxLosses = 1
    MaxSent = 1
    MaxFailures = 0
    MaxPrunes = 1
INVARIANTS
    TypeOK
    HandshakeFirst
    OutgoingBounded
