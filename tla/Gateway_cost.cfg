CONSTANTS
    r1 = r1
    r2 = r2
    Requests = {r1, r2}
    SourceOf <- TwoSources
    Answered = {r1}
    Rules <- OneRule
    Heads <- FourHeads
    ScopeSets = {{"inference"}, {"inference", "LANE"}}
    OverflowKey = "overflow"
    MaxConcurrent = 1
    RequestsPerSecond = 1
    SourceRequestsPS = 1
    MaxSources = 1
    SourceIdle = 1
    MaxBodyBytes = 2
    SpoolMaxBytes = 3
    SpoolMaxFiles = 2
    WriteTimeout = 1
    StreamWriteIdleTimeout = 1
    Profiles = {"chat", "responses", "embeddings", "messages"}
    BodySizes = {2}
    Pieces <- FivePieces
    Rate <- Prices
    CostMode = "exact"
    MaxOutputTokens = 3
    MaxEstimatedTokens = 6
    UsageCarry = 2
    MaxInt = 1000
    MaxChunks = 1
    MaxPieces = 2
    MaxClock = 1
SPECIFICATION Spec
INVARIANTS PartialCostsEstimate
CHECK_DEADLOCK FALSE
