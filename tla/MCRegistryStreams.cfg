CONSTANTS
    Handlers = {h1, h2}
    SlurmIds = {s1, s2}
    NodeCounts = {1, 2}
    MaxJobs = 2
    MaxAdhocs = 2
    SingleStream = FALSE
    HasRedis = TRUE
    None = None
SPECIFICATION Spec
SYMMETRY Symmetry
INVARIANTS
    SlurmIndexSound
    ClientPointsBack
    NoIdCollision
    CrashIsKnown
    RegistryInv
