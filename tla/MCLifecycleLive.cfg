CONSTANTS
    Handlers = {h1, h2}
    Adhocs = {a1, a2}
    Sizes = {1}
    Unsupported = {a2}
    HasConfig = TRUE
    Faults = FALSE
    HasRedis = FALSE
    MaxLate = 0
    None = None
SPECIFICATION FairSpec
CHECK_DEADLOCK FALSE
PROPERTIES
    RequestsEnd
