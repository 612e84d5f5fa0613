\* Two job steps of one Slurm job; every call may fail.
CONSTANTS
    JobSteps = {p1, p2}
    TheSlurmJob = s1
    SlurmIds = {s1}
    SlurmOf <- OneSlurmJob
    NodeCounts = {1}
    JobIds = {1, 2}
    AdhocIds = {1, 2}
    Faults = TRUE
    None = None
SPECIFICATION FairSpec
INVARIANTS
    StepKeepsItsStorage
    LeakNeedsFailure
PROPERTY StepCleansUp
CHECK_DEADLOCK FALSE
