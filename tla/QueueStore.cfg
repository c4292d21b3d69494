SPECIFICATION Spec
CONSTANTS
    a1 = a1
    a2 = a2
    b1 = b1
    b2 = b2
    tA = tA
    tB = tB
    keyX = keyX
    keyY = keyY
    NoConn = NoConn
    Ops = {a1, a2, b1, b2}
    Txns = {tA, tB}
    Conns = {c1, c2}
    TxnOf <- MCTxnOf
    OpSeq <- MCOpSeq
    Serial = {tA}
    ConflictKeys <- MCConflictKeys
    Oversize = {b2}
    DeliverAfter <- MCDeliverAfter
    LeaseOf <- MCLeaseOf
    RetryDelays = {1}
    Extensions = {1}
    MaxAttempts = 2
    MaxLapses = 1
INVARIANTS
    Recoverable
    SerialOrder
    TxnVerdict
    AttemptAudit
    RetryBudget
PROPERTIES
    HistoryIsFinal
    ImplementsLedger
SYMMETRY ConnSymmetry
