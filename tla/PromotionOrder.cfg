SPECIFICATION PromoSpec
CONSTANTS
    Requests <- TwoSources
    Envelopes <- SmallRequests
    Outline0 <- Pages
    MaxOps = 500
    MaxLapses = 0
INVARIANTS SourcesKeepOrder
CHECK_DEADLOCK FALSE
