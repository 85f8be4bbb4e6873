\* Two threads that execute device commands and initialise points on two
\* names, with faults.  One id for ever inserted row keeps the run small;
\* the proofs are for any number of ids.
CONSTANTS
    Names = {n1, n2}
    m1 = m1
    m2 = m2
    p1 = p1
    p2 = p2
    p3 = p3
    Models <- MCModels
    Paths <- MCPaths
    PathsOf <- MCPathsOf
    NoRow = NoRow
    MaxId = 1
    Actors = {session1, session2}
    Commanders = {session1, session2}
    Nothing = Nothing
    Faults = TRUE
SYMMETRY Symmetry
SPECIFICATION Spec
INVARIANTS
    TypeOK
    DamageIsTainted
PROPERTIES
    UpdateKeepsStatus
