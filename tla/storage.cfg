SPECIFICATION FairSpec
CONSTANTS
    t1 = t1
    t2 = t2
    genesis = genesis
    a = a
    c = c
    d = d
    rg = rg
    ra = ra
    rc = rc
    rd = rd
    x = x
    y = y
    None = None
    Garbage = Garbage
    Blocks = {a, c, d}
    Txs = {ra, rc, rd, x, y}
    Threads = {t1, t2}
    KeyImages <- MCKeyImages
    Outputs <- MCOutputs
    Times <- MCTimes
    Index <- MCIndex
    Timestamp <- MCTimestamp
    RewardTx <- MCRewardTx
    BlockTxs <- MCBlockTxs
    TxKeyImages <- MCTxKeyImages
    TxOutputs <- MCTxOutputs
    TxVectors <- MCTxVectors
    MaxIndex = 3
    MaxMapFull = 1
VIEW StateView
INVARIANTS
    TypeOK
    LookupsAgree
    BlocksComplete
    RightBlock
PROPERTIES
    RewindKeepsPrefix
    WholeCalls
    CallsReturn
