\* An op without lock keys, in one life of the plugin.
SPECIFICATION DSpec
CONSTANTS
    o1 = o1
    t1 = t1
    c1 = c1
    c2 = c2
    k1 = k1
    NoConn = NoConn
    Ops = {o1}
    Txns = {t1}
    Conns = {c1, c2}
    TxnOf <- MCTxnOf
    OpSeq <- MCOpSeq
    Serial = {t1}
    ConflictKeys <- MCNoConflicts
    Oversize = {}
    DeliverAfter <- MCZero
    LeaseOf <- MCOne
    RetryDelays = {0}
    Extensions = {1}
    MaxAttempts = 2
    MaxLapses = 1
    Keys = {k1}
    OpLockKeys <- MCNoLock
    Slow = {}
    MaxReloads = 0
INVARIANT ExecutedOnce
SYMMETRY MCSymmetry
\* A run ends where the bound MaxLapses keeps the clock from running on.
CHECK_DEADLOCK FALSE
