SPECIFICATION Spec
CONSTANTS
    a1 = a1
    a2 = a2
    b1 = b1
    b2 = b2
    tA = tA
    tB = tB
    keyX = keyX
    keyY = keyY
    NoConn = NoConn
    Ops = {a1, a2, b1}
    Txns = {tA, tB}
    Conns = {c1}
    TxnOf <- MCTxnOf
    OpSeq <- MCOpSeq
    Serial = {tA}
    ConflictKeys <- MCConflictKeys
    Oversize = {}
    DeliverAfter <- MCDeliverAfter
    LeaseOf <- MCLeaseOf
    RetryDelays = {1}
    Extensions = {1}
    MaxAttempts = 2
    MaxLapses = 1
INVARIANT
    ConflictsNotInParallel
