CONSTANTS
    Clients = {c1, c2}
    Proxies = {p}
    Forged <- Headers
    Paths <- Chains
    Generations = {1, 2, 3}
    Nodes = {n1, n2}
    RequestIds = {r1}
    KeepSuperseded = TRUE
    MaxLoaded = 2
    MaxIdentities = 1
    Retention = 0
    BatchSize = 3
    MaxClock = 1
    MaxEpoch = 3
SPECIFICATION SourceSpec
SYMMETRY Symmetry
INVARIANTS SourceIsClient
PROPERTIES OneIdentity HistoryReachable
CHECK_DEADLOCK FALSE
