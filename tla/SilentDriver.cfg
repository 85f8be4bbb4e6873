CONSTANTS
    Escaped <- MCEscaped
    Unescaped <- MCUnescaped
    Bracketed <- MCBracketed
    Digits <- MCDigits
    ItemNames <- MCItemNames
    Trimmed <- MCTrimmed
    Hosts <- MCHosts
    Ports <- MCPorts
    Decoded <- MCDecoded
    Beginnings <- MCBeginnings
    Inline <- MCInline
    Scenarios <- MCUsualScenario
    Drivers <- MCDrivers
    Silent = TRUE
    NoDevice = NoDevice
    FailLimit = 2
SPECIFICATION FairSpec
PROPERTY
    StopIsObserved
