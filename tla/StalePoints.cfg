\* HTTP mode, two sessions; violated: update_device leaves fitting points.
CONSTANTS
    Names = {n1}
    m1 = m1
    m2 = m2
    p1 = p1
    p2 = p2
    p3 = p3
    Models <- MCModels
    Paths <- MCPaths
    PathsOf <- MCPathsOf
    NoRow = NoRow
    MaxId = 1
    Actors = {session1, session2}
    Commanders = {session1, session2}
    Nothing = Nothing
    Faults = FALSE
SPECIFICATION Spec
INVARIANTS
    PointsFollowModel
