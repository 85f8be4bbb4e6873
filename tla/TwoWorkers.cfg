\* HTTP mode; violated: one worker per device.
CONSTANTS
    Devices = {d1}
    Workers = {w1, w2}
    Clients = {session1, session2}
    NoDevice = NoDevice
    NoWorker = NoWorker
    FailLimit = 2
SPECIFICATION Spec
INVARIANTS
    OneWorkerPerDevice
CHECK_DEADLOCK FALSE
