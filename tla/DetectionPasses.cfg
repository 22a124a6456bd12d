SPECIFICATION FairSpec
CONSTANTS
    WindowSeconds = 300
    SuspiciousFailures = 1
    BlockingFailures = 10
    HighRiskScore = 70
    Mode = "automatic_response"
    a0 = a0
    a1 = a1
    a2 = a2
    n1 = n1
    s1 = s1
    m = m
    d = d
    Engines = {m}
    Monitors = {m}
    Responders = {m}
    Sources = {s1}
    Eligible = {s1}
    AuthBatches = {a0, a2}
    NetBatches = {n1}
    SourceOf <- MCSourceOf
    Contents <- MCContents
    Window = 0
    MaxTime = 1
    MaxEntries = 1
    MaxFaults = 0
    MaxDeaths = 0
    NoSource = NoSource
INVARIANTS  AllowlistHonoured
PROPERTIES EvidenceIsJudged
