CONSTANTS
    n1 = n1
    n2 = n2
    Nodes = {n1, n2}
    Policies <- OnePerRevision
    NoPolicy = NoPolicy
    Configured <- SameConfigured
    Ops = {"o1", "o2", "o3"}
    Request <- Requests
    NoOp = NoOp
    Deployments = {"cluster", "standalone"}
    MaxEpoch = 3
    MaxBoots = 3
SPECIFICATION Spec
SYMMETRY Symmetry
INVARIANTS PublishedCoherent OperationOnce
PROPERTIES RefinesRegister ActivatedIsLoaded
CHECK_DEADLOCK FALSE
