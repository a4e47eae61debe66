CONSTANTS
    Clients = {c1, c2}
    Proxies = {p}
    Forged <- Headers
    Paths <- Chains
    Generations = {1, 2}
    Nodes = {n1, n2}
    RequestIds = {r1}
    KeepSuperseded = FALSE
    MaxLoaded = 4
    MaxIdentities = 2
    Retention = 0
    BatchSize = 3
    MaxClock = 1
    MaxEpoch = 3
SPECIFICATION SourceSpec
SYMMETRY Symmetry
PROPERTIES OneIdentity
CHECK_DEADLOCK FALSE
