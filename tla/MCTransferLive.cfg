CONSTANTS
    Clients = {c1}
    Jobs = {j1}
    AdhocJobs = {j1}
    Limits = {10}
    Bandwidths <- SomeBandwidths
    MaxTransfers = 2
    None = None
SPECIFICATION FairSpec
CHECK_DEADLOCK FALSE
INVARIANTS
    SpeedUpOnlyBelowLimit
PROPERTIES
    WaitingClientReturns
    EndedTransferCollected
    SchedulerStops
