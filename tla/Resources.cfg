\* Two devices whose rows share one sequence of ids.  A response has one or two
\* records, one row is kept: beyond it up to four rows are within the bound,
\* and six ids are enough to pass it.
SPECIFICATION Spec
CONSTANTS
    devA = devA
    devB = devB
    Devices <- MCDevices
    Times <- MCTimes
    Batch = 2
    MaxRows = 1
    LatestLimit = 1
    Interval = 2
    MaxId = 6
SYMMETRY MCSymmetry
INVARIANTS
    TypeOK
    GrowthIsBounded
PROPERTIES
    KeepsNewest
    CleanupIsInvisible
