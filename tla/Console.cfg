\* Console mode: one client, two devices.  Three workers are more than the
\* two that can run at once, so that an identity can be fresh while an old
\* thread still waits to be joined.  No property here names a device or a
\* worker, so symmetry is sound for all of them.
CONSTANTS
    Devices = {d1, d2}
    Workers = {w1, w2, w3}
    Clients = {console}
    NoDevice = NoDevice
    NoWorker = NoWorker
    FailLimit = 2
SYMMETRY Symmetry
SPECIFICATION Spec
INVARIANTS
    TypeOK
    RegisteredUnderOwner
    OneWorkerPerDevice
    NeverAborts
    StopIsFinal
    StopAllIsFinal
    RunningIsReachable
    JoinsOnlyStopping
    StatusIsOwn
PROPERTIES
    ImplementsCollection
