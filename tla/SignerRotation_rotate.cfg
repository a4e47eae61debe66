CONSTANTS
    n1 = n1
    n2 = n2
    Nodes = {n1, n2}
    Keys <- TwoKeys
    NoKey = NoKey
    FirstKey <- First
    TTL = 1
    Skew = 1
    WatchLag = 1
    MaxClock = 2
    MaxEpoch = 3
    MaxStarts = 3
SPECIFICATION Spec
SYMMETRY Symmetry
INVARIANTS LiveVerifiable ServesSelectedKey
CHECK_DEADLOCK FALSE
