CONSTANTS
    Programs <- AllPrograms
    Allocations <- Numbers
    Size <- Lengths
SPECIFICATION Spec
INVARIANTS
    TypeOK
    NoDanglingAccess
    SharingIsKnown
    CrashNeedsFailure
    LeaksAreKnown
    NoJobLeftBehind
    NoStorageLeftBehind
CHECK_DEADLOCK FALSE
