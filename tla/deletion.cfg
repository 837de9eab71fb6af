SPECIFICATION DSpec
CONSTANTS
    Executors = {x1, x2}
    Writers <- OneWriter
    RetryLimit = 2
    MaxRequests = 2
    MaxFaults = 2
SYMMETRY ExecutorSymmetry
CHECK_DEADLOCK FALSE
INVARIANTS
    DeletionTypeOK
    ActiveIsWhole
    AbortRestores
    FrozenListIsFinal
    ChunksAreManifest
    RemovedBindingsAreGone
    VerifiedIsAbsent
    HolderNotRefused
    NeverStuck
