SPECIFICATION AllSpec
CONSTANTS
    Conns = {w1, w2}
    NoConn = NoConn
    Jobs = {j1}
    Interval = 1
    Cooldown = 1
    Escalations = {1}
    Stale = 1
    Quarantine = 1
    Lease = 1
    AutoSync = {TRUE, FALSE}
    o1 = o1
    t1 = t1
    k1 = k1
    Writes = {o1}
    Txns = {t1}
    WriteTxn <- MCTxnOf
    OpSeq <- MCOpSeq
    Serial = {t1}
    WriteKeys <- MCNoConflicts
    LargeWrites = {}
    DeliverAfter <- MCNoDelay
    LeaseOf <- MCLease
    RetryDelays = {0}
    Extensions = {1}
    MaxAttempts = 2
    MaxLapses = 2
    PluginKeys = {k1}
    OpLockKeys <- MCLockKeys
    Slow = {}
    MaxReloads = 1
    Requests <- MCRequests
    FoundPages <- MCPages
    MaxSteps = 4
    PlanLapses = 1
    Services = {"daemon", "api"}
    MaxPid = 2
    CommandJobs <- MCJobs
    Launcher = TRUE
    Rivals = {p1, p2, p3}
    NoOne = NoOne
    Openers = {c1, c2}
    TxnOps <- MCTxnOps
    SerialTxns = {"t1"}
    BatchKeys <- MCBatchKeys
    Bytes <- MCBytes
    Needs <- MCNeeds
    Wants = {1, 2, 3}
    Budgets = {5, 6}
    MaxOpBytes = 4
    Overhead = 1
    PeekLimit = 4
    MinWindow = 2
    MaxWindow = 3
    WindowPerOp = 2
    Rems = {"r1", "r2"}
    NoRem = "none"
    Places = {"p1", "p2"}
    MaxIds = 1
    MaxActs = 2
    MaxConns = 2
INVARIANTS
    ActiveIsServing
    AtMostOncePerLife VerdictIsTrue
    OnlyOurDaemon
    OneTransfer
    StoreServes
    GoodBatches
    NoLeftover ContextIsCurrent
    PortalFillsSlot
PROPERTIES
    UsersWindowWorks
    ReceiptTellsTruth
\* The parts may stop: no command left to give, a bound reached.
CHECK_DEADLOCK FALSE
