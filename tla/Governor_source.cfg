CONSTANTS
    Requests = {r1, r2}
    Keys <- SourcedKeys
    SourceKeys = {"sa", "sb"}
    sourceOverflowID <- Overflow
    Plans <- SourcePlans
    NumDims = 1
    Estimates <- One
    Actuals <- ZeroOrTwo
    Removable = {"lane"}
    MaxSourceScopes = 1
    SourceIdle = 2
    MaxStall = 1
    MaxGen = 2
    MaxTime = 3
SPECIFICATION Spec
SYMMETRY Symmetry
INVARIANTS LeaseConservation NothingLeftBehind BucketLedger NoOrphanHolds
PROPERTIES ScopeCapHolds
CHECK_DEADLOCK FALSE
