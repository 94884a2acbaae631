SPECIFICATION FairSpec
CONSTANTS
    s = s
    n1 = n1
    n2 = n2
    None = None
    Nodes = {s, n1, n2}
    Seeds <- MCOtherSeeds
    SeedMode = {s}
    Network <- MCNetwork
    ConnectionCount = 1
    MaxPeers = 2
    MaxConnects = 1
    MaxStops = 0
    MaxLosses = 0
    MaxSent = 0
    MaxFailures = 1
    MaxPrunes = 0
PROPERTIES
    Discovery
