SPECIFICATION Spec
CONSTANTS
    t1 = t1
    t2 = t2
    genesis = genesis
    a = a
    c = c
    d = d
    rg = rg
    ra = ra
    rc = rc
    rd = rd
    x = x
    y = y
    None = None
    Garbage = Garbage
    Blocks = {genesis, c}
    Txs = {rg, rc, x, y}
    Threads = {t1}
    KeyImages <- MCKeyImages
    Outputs <- MCOutputs
    Times <- MCTimes
    Index <- MCIndex
    Timestamp <- MCTimestamp
    RewardTx <- MCRewardTx
    BlockTxs <- MCBlockTxs
    TxKeyImages <- MCTxKeyImages
    TxOutputs <- MCTxOutputs
    TxVectors <- MCTxVectors
    MaxIndex = 2
    MaxMapFull = 0
PROPERTIES
    GetBlockReturnsTransactions
