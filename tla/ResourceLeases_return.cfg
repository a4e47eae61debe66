CONSTANTS
    Nodes = {p1, p2}
    Procs = {p1, p2}
    NodeOf <- OwnNodes
    None = None
    Requests = {r1}
    Scopes = {"lane"}
    SourceScopes = {}
    Overflow <- NoOverflow
    MaxSourceScopes = 1
    SourceIdle = 1
    Plans <- LanePlans
    Estimate = 1
    Actuals = {0, 2}
    Rate = 0
    TTL = 1
    Removable = {"lane"}
    MaxLag = 1
    Horizon = 2
    MaxTime = 3
    MaxEpoch = 2
SPECIFICATION FairSpec
PROPERTIES CapacityReturns
CHECK_DEADLOCK FALSE
