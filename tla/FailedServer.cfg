\* --cmd with a command that starts a collection; sessions of the mock driver.
CONSTANTS
    Modes = {"command"}
    Sessions = {x1}
SPECIFICATION Spec
INVARIANTS
    NeverTerminates
