SPECIFICATION Spec
CONSTANTS
    WindowSeconds = 300
    SuspiciousFailures = 5
    BlockingFailures = 10
    HighRiskScore = 70
    Mode = "automatic_response"
    a0 = a0
    a1 = a1
    a2 = a2
    n1 = n1
    s1 = s1
    m = m
    d = d
    Engines = {m, d}
    Monitors = {m}
    Responders = {m, d}
    Sources = {s1}
    Eligible = {s1}
    AuthBatches = {a1}
    NetBatches = {n1}
    SourceOf <- MCSourceOf
    Contents <- MCContents
    Window = 0
    MaxTime = 1
    MaxEntries = 0
    MaxFaults = 1
    MaxDeaths = 1
    NoSource = NoSource
INVARIANTS TypeOK CountsAgree OneBlockPerEvidence BlockIsEarned
PROPERTIES ImplementsJudgement
