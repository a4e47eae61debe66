CONSTANTS
    Nodes = {n1, n2}
    Versions = {1, 2}
    FirstActive = 1
    Stored = {1}
    Requests = {r1}
    Retirable = {1, 2}
    MaxEpoch = 3
    MaxRevision = 2
SPECIFICATION Spec
SYMMETRY Symmetry
INVARIANTS AcksHonoured ServingDroppedRetired
