CONSTANTS
    Clients = {c1, c2}
    Jobs = {j1, j2}
    AdhocJobs = {j1}
    Limits = {}
    Bandwidths <- OneBandwidth
    MaxTransfers = 2
    None = None
SPECIFICATION Spec
SYMMETRY Symmetry
CHECK_DEADLOCK FALSE
INVARIANTS
    LiveTransferRegistered
    OwnTransfer
    SuccessMeansOver
    TransferInv
