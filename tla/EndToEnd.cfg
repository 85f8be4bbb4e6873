CONSTANTS
    Escaped <- MCEscaped
    Unescaped <- MCUnescaped
    Bracketed <- MCBracketed
    Digits <- MCDigits
    ItemNames <- MCItemNames
    Trimmed <- MCTrimmed
    Hosts <- MCHosts
    Ports <- MCPorts
    Decoded <- MCDecoded
    Beginnings <- MCBeginnings
    Inline <- MCInline
    Scenarios <- MCScenarios
    Drivers <- MCDrivers
    Silent = FALSE
    NoDevice = NoDevice
    FailLimit = 2
SPECIFICATION FairSpec
INVARIANTS
    TypeOK
    CommandIsUnderstood
    RequestsReachTheDevice
    PointsAreAsListed
    RecordsAreOwn
    CycleIsComplete
PROPERTIES
    ExchangesAreCycles
    StopIsObserved
