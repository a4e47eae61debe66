CONSTANTS
    Nodes = {n1, n2}
    Versions = {1, 2}
    FirstActive = 1
    Stored = {2}
    Requests = {}
    Retirable = {1}
    MaxEpoch = 3
    MaxRevision = 1
SPECIFICATION FairSpec
PROPERTIES AllServeAgain
CHECK_DEADLOCK FALSE
