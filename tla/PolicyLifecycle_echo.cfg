CONSTANTS
    n1 = n1
    n2 = n2
    Nodes = {n1}
    Policies <- OnePerRevision
    NoPolicy = NoPolicy
    Configured <- SameConfigured
    Ops = {"o1", "o2", "o3", "o4"}
    Request <- Requests
    NoOp = NoOp
    Deployments = {"cluster"}
    MaxEpoch = 4
    MaxBoots = 1
SPECIFICATION Spec
INVARIANTS PublishedIsActivated
CHECK_DEADLOCK FALSE
