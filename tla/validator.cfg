SPECIFICATION Spec
CONSTANTS
    t1 = t1
    t2 = t2
    g = g
    x = x
    y = y
    bad = bad
    i1 = i1
    i2 = i2
    i3 = i3
    o1 = o1
    o2 = o2
    c = c
    Threads <- MCThreads
    None = None
    Txs <- MCTxs
    KeyImages <- MCKeyImages
    Outputs <- MCOutputs
    Type <- MCType
    CheckError <- MCCheckError
    RangeProof <- MCRangeProof
    TxKeyImages <- MCTxKeyImages
    RingParticipants <- MCRingParticipants
    TxOutputs <- MCTxOutputs
    MaxIndex = 1
    Candidates = {c}
    MINIMUM_STAKE_AMOUNT = 1
    REQUIRED_CANDIDACY_AMOUNT = 2
    Stakes <- MCStakes
INVARIANTS
    TypeOK
    SpentOnce
PROPERTIES
    CandidateOnce
