\* One program, with every request to its managers.
CONSTANTS
    p1 = p1
    p2 = p2
    Programs = {p1}
    Server = p1
    Modes = {"daemon", "foreground", "ctl", "ctl_pidfile"}
    PidString <- Pids
    StalePids <- NoneOrStale
    Faults = TRUE
    h1 = h1
    h2 = h2
    h3 = h3
    Handlers = {h1, h2, h3}
    SlurmIds = {s1}
    Values = {v1}
    MaxId = 1
    Serves <- Shares
    None = None
SPECIFICATION FairSpec
INVARIANTS
    TypeOK
    LoneDaemonPidfile
    NestedFindSucceeds
    NoDeadlock
    EngineOutlivesScheduler
PROPERTIES
    ImplementsAtomic
    StopsWhenTold
    RequestsReturn
CHECK_DEADLOCK FALSE
