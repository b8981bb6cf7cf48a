CONSTANTS
    x1 = x1
    y1 = y1
    x2 = x2
    y2 = y2
    x3 = x3
    y3 = y3
    NoTx = NoTx
    Txs <- MCTxs
    TxBatch <- MCTxBatch
    MaxBatch = 3

SPECIFICATION Spec

INVARIANTS
    TypeOK
    VoteUnique
    LastMintAgrees
