SPECIFICATION AllSpec
CONSTANTS
    MaxRestarts = 2
    Window = 8
    BaseBackoff = 1
    MaxBackoff = 4
    Ops = {"a1", "a2", "b1"}
    Txns = {"tA", "tB"}
    Conns = {"c1"}
    NoConn = "none"
    TxnOf <- MCTxnOf
    OpSeq <- MCOpSeq
    Serial = {"tB"}
    OpKeys <- MCNoKeys
    Oversize = {}
    DeliverAfter <- MCNoDelay
    LeaseOf <- MCLease
    RetryDelays = {0}
    Extensions = {}
    MaxAttempts = 2
    MaxLapses = 1
    TmpIds = {"x", "y"}
    Names <- MCNames
    Reports <- MCReports
    Needs <- MCNeeds
    Waited = "tA"
    MaxStops = 1
    PlanEnvelopes <- MCEnvelopes
    PlanOutline <- MCOutline
    MaxSteps = 3
    PlanLapses = 1
INVARIANTS
    OneCleanLife
    IdsAreTrue
    OpsWaitTheirTurn MergingKeepsWork
PROPERTIES
    NoDrift EveryTxnSettles
    CrashLoopEnds
    HeldEnds KickConsumesBacklog PlanSettles
\* The parts may stop: all settled, or the supervisor has returned.
CHECK_DEADLOCK FALSE
