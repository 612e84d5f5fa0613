CONSTANTS
    Handlers = {h1, h2}
    SlurmIds = {s1}
    NodeCounts = {1, 2}
    MaxJobs = 2
    MaxAdhocs = 1
    SingleStream = TRUE
    HasRedis = FALSE
    None = None
SPECIFICATION FairSpec
INVARIANTS
    ClientIsRegistered
PROPERTIES
    ImplementsAtomic
    RequestsAnswered
