CONSTANTS
    Weight <- MCWeight
    Absent = "none"
    LaneTag <- Tag
    MatchPercent = 80
    MinComparable = 70
    Limits <- MCLimits
    Hysteresis <- MCHysteresis
    Learning <- MCLearning
    DayLength = 2
    Rules <- MCRules
    FamilyCap <- MCFamilyCap
    MaxEvidencePerSubject = 2
    Requests = {r1, r2}
    Vectors <- SparseOnly
    InitialLanes <- ClearingOrFull
    Signals = {"ABUSE"}
    EndSignals = {"ABUSE"}
    Disqualifying = {"ABUSE"}
    QuarantineRisk = 90
    Standalone = TRUE
    EvidenceGrace = 0
    MaxAdmissions = 2
    MaxPostures = 1
    MaxFaults = 1
    MaxClock = 3
SPECIFICATION AdmissionSpec
SYMMETRY Symmetry
INVARIANTS LockdownDeniesNewLanes
CHECK_DEADLOCK FALSE
