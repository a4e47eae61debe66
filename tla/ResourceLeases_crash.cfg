CONSTANTS
    Nodes = {"node"}
    Procs = {p1, p2}
    NodeOf <- OneNode
    None = None
    Requests = {r1, r2}
    Scopes = {"sa", "sb", "ovf"}
    SourceScopes = {"sa", "sb"}
    Overflow <- SourceOverflow
    MaxSourceScopes = 1
    SourceIdle = 1
    Plans <- SourcePlans
    Estimate = 1
    Actuals = {2}
    Rate = 1
    TTL = 2
    Removable = {}
    MaxLag = 0
    Horizon = 2
    MaxTime = 4
    MaxEpoch = 2
SPECIFICATION Spec
SYMMETRY Symmetry
INVARIANTS HoldsHaveRows SlotsMatchLeases TokenLedger UpstreamHoldsLease
PROPERTIES OnlyOwnerAdvances
CHECK_DEADLOCK FALSE
