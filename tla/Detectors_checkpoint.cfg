CONSTANTS
    Subjects = {s1, s2}
    Keys = {1, 2, 3}
    Values = {1, 4, 12}
    Calls = {c1, c2}
    Nodes = {n1, n2}
    Modes <- AllModes
    Threshold = 1
    CostFloor = 8
    Window = 4
    Cooldown = 2
    MaxSubjects = 1
    MaxKeys = 2
    Refresh = 2
    GateCapacity = 1
    Retention = 4
    MaxRestored = 2
    MaxStateSize = 2
    Scale = 10
    MaxClock <- ClockBound
    MaxObservations <- ObservationBound
    MaxStarts = 2
SPECIFICATION Spec
SYMMETRY Symmetry
INVARIANTS CheckpointCurrent AckedEmissionDurable ReducersAgree
PROPERTIES SprayDetected
CHECK_DEADLOCK FALSE
