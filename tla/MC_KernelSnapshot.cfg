CONSTANTS
    t1 = t1
    t2 = t2
    t3 = t3
    i1 = i1
    i2 = i2
    n1 = n1
    n2 = n2
    NoTx = NoTx
    Txs <- MCTxs
    Inputs <- MCInputs
    TxInputs <- MCTxInputs
    TxType <- MCTxType
    Nodes <- MCNodes
    Self <- n1
    None <- NoTx
INIT Init
NEXT Next
INVARIANTS
    TypeOK
    StoredTxLocked
