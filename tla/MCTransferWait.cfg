CONSTANTS
    Clients = {c1}
    Jobs = {j1}
    AdhocJobs = {j1}
    Limits = {}
    Bandwidths <- OneBandwidth
    MaxTransfers = 1
    None = None
SPECIFICATION Spec
CHECK_DEADLOCK FALSE
INVARIANTS
    WaitSuccessMeansCompleted
