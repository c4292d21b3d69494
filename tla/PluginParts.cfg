SPECIFICATION AllSpec
CONSTANTS
    Requests <- MCRequests
    Keys <- MCKeys
    LockKeys <- MCLockKeys
    k1 = k1
    k2 = k2
    k3 = k3
    PulledOps = {o1}
    SyncRuns = {1, 2}
    SyncSockets = {1, 2}
    MaxConcurrency = 2
    MaxStreak = 1
    MaxLate = 1
    Callers = {c1, c2}
    Workers = {w1}
    NoWorker = NoWorker
    ReadRpc = {w1}
    MaxMs = 1
    OldCount = 2
    NewCount = 2
    Ahead = 1
    Behind = 1
    Executions = 2
    LargestTree = 5
    LargestBatch = 4
INVARIANTS
    MutualExclusion NoLostWakeup DrainIsLoop
    TakenOnce
    AnsweredOnce
    ReplacesOrKeeps
    FewSmallBatches
PROPERTIES
    WaitersInOrder EveryoneServed
    KeepsPulling
    EveryCallerHeard
\* The parts may stop: every request served, every handler ended.
CHECK_DEADLOCK FALSE
