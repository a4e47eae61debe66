CONSTANTS
    c1 = c1
    c2 = c2
    Calls = {c1, c2}
    Tokens <- SomeTokens
    Peers <- SomePeers
    SPIFFEIDs = {"gateway"}
    DNSNames = {"gateway"}
    Audience = "inference"
    Keys <- TwoKeys
    Guards = {"memory", "postgres"}
    ClockOffset <- Offsets
    MaxTTL = 2
    Skew = 1
    MinPolicyRev = 1
    MinPolicyEpoch = 1
    Capacity = 1
    MaxClock = 3
    MaxCalls = 3
    MaxRev = 2
SPECIFICATION VerifierSpec
INVARIANTS OncePerAssertion AcceptedWasCurrent
CHECK_DEADLOCK FALSE
