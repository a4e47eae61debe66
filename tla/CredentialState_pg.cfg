CONSTANTS
    Requests = {r1, r2}
    Scores = {10, 25, 35, 60, 90}
    WatchThresh = 30
    ConstrainedThresh = 55
    QuarantineThresh = 80
    WatchDownThresh = 20
    ConstrainedDownThresh = 40
    WatchDwell = 3
    ConstrainedDwell = 2
    WatchObs = 2
    AutoQuarantine = {TRUE}
    AuthorityClock = TRUE
    ExpiresAt = 0
    MaxLatency = 1
    MaxTime = 5
    MaxRevision = 3
SPECIFICATION Spec
SYMMETRY Symmetry
INVARIANTS SnapshotCoherent AdmittedBeforeRevocation
PROPERTIES WatchRecoversAfterDwell
