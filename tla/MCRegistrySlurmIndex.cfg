CONSTANTS
    Handlers = {h1}
    SlurmIds = {s1}
    NodeCounts = {1}
    MaxJobs = 2
    MaxAdhocs = 1
    SingleStream = TRUE
    HasRedis = FALSE
    None = None
SPECIFICATION Spec
INVARIANTS
    RegisteredJobIsFound
