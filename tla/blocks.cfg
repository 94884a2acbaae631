SPECIFICATION BlockSpec
CONSTANTS
    n1 = n1
    n2 = n2
    Nodes = {n1, n2}
    k1 = k1
    k2 = k2
    Keys = {k1, k2}
    Hashes <- MCHashes
    MaxChanges = 3
    MaxAssigns = 1
    MaxSends = 1
SYMMETRY Symmetry
INVARIANTS
    ValidIsSigned
    HashFixesBlock
    BlockReadBack
