\* Console mode; violated: stop_all stops all workers and returns.
CONSTANTS
    Devices = {d1}
    Workers = {w1, w2}
    Clients = {console}
    NoDevice = NoDevice
    NoWorker = NoWorker
    FailLimit = 2
SPECIFICATION FairSpec
PROPERTIES
    StopAllAlwaysReturns
