\* HTTP mode: two sessions, nothing serialises their commands.  The process
\* may end in std::terminate, and two commands may wait for workers that no
\* flag reaches: the system really can stop.
CONSTANTS
    Devices = {d1}
    Workers = {w1, w2, w3}
    Clients = {session1, session2}
    NoDevice = NoDevice
    NoWorker = NoWorker
    FailLimit = 2
SYMMETRY Symmetry
SPECIFICATION Spec
INVARIANTS
    HandleOwnership
    EndsForAReason
CHECK_DEADLOCK FALSE
