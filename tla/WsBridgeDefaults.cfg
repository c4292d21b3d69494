\* The defaults in units of 15 s, one window.
SPECIFICATION FairSpec
CONSTANTS
    Conns = {w1}
    NoConn = NoConn
    Jobs = {j1}
    Interval = 2
    Cooldown = 1
    Escalations = {6}
    Stale = 6
    Quarantine = 6
    Lease = 2
    AutoSync = {TRUE, FALSE}
PROPERTY BacklogIsConsumed
