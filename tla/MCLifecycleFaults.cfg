CONSTANTS
    Handlers = {h1, h2}
    Adhocs = {a1}
    Sizes = {1, 2}
    Unsupported = {}
    HasConfig = TRUE
    Faults = TRUE
    HasRedis = TRUE
    MaxLate = 1
    None = None
SPECIFICATION Spec
SYMMETRY Symmetry
CHECK_DEADLOCK FALSE
INVARIANTS
    StartupAtMostOnce
    DeploySuccessIsReal
    LifecycleInv
    ResizeAgrees
PROPERTIES
    AnswersAreSent
