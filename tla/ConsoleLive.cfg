\* Console mode under fairness.  No symmetry: it is not sound for liveness.
\* Devices do not share a worker (RegisteredUnderOwner in the Console run), so
\* one device is enough here.
CONSTANTS
    Devices = {d1}
    Workers = {w1, w2, w3}
    Clients = {console}
    NoDevice = NoDevice
    NoWorker = NoWorker
    FailLimit = 2
SPECIFICATION FairSpec
PROPERTIES
    StopReturns
    StopAllReturns
    CollectionsProgress
    OfflineDeviceDrains
