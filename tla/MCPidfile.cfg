\* Two programs in one directory; no requests.
CONSTANTS
    p1 = p1
    p2 = p2
    Programs = {p1, p2}
    Server = p1
    Modes = {"daemon", "ctl_pidfile"}
    PidString <- Pids
    StalePids <- NoneBefore
    Faults = FALSE
    h1 = h1
    h2 = h2
    h3 = h3
    Handlers = {}
    SlurmIds = {s1}
    Values = {v1}
    MaxId = 1
    Serves <- NoShares
    None = None
SPECIFICATION Spec
INVARIANT OneDaemonPerPidfile
CHECK_DEADLOCK FALSE
