SPECIFICATION FairSpec
CONSTANTS
    attacker = attacker
    monitor = monitor
    collectNetwork = collectNetwork
    collectAuth = collectAuth
    NoEvent = NoEvent
    AuthLines <- MCAuthLines
    NetLines <- MCNetLines
    KindOf <- MCKindOf
    AddressOf <- MCAddressOf
    Fixture <- MCFixture
    Addresses = {attacker}
    AuthCollectors = {monitor, collectAuth}
    NetCollectors = {collectNetwork}
    Monitors = {monitor}
    Window = 0
    MaxTime = 1
    MaxLines = 2
    MaxDeaths = 1
INVARIANTS
    TypeOK
    ProfileFromEvents
    OnlyDeathsLoseRecords
    NothingSkipped
    MonitorKeepsNewestSuccess
PROPERTIES
    TablesSpec
    InputHandled
