\* All modes, two sessions of either server.
CONSTANTS
    Modes = {"console", "http", "command", "oneshot"}
    Sessions = {x1, x2}
SPECIFICATION FairSpec
INVARIANTS
    TypeOK
    StoppedServerIsOver
    TerminatesForAReason
PROPERTIES
    ShutdownEnds
