CONSTANTS
    Requests = {r1, r2, r3}
    Keys <- OneLane
    SourceKeys = {}
    sourceOverflowID <- NoOverflow
    Plans <- LanePlans
    NumDims = 1
    Estimates <- One
    Actuals <- ZeroOrTwo
    Removable = {"lane"}
    MaxSourceScopes = 1
    SourceIdle = 1
    MaxStall = 2
    MaxGen = 2
    MaxTime = 2
SPECIFICATION Spec
SYMMETRY Symmetry
INVARIANTS NoRemovedHolds
CHECK_DEADLOCK FALSE
