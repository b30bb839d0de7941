SPECIFICATION LoopSpec
CONSTANTS
    Keys = {k1, k2}
    MaxKeys = 1
    MaxBumps = 2
    MaxFailures = 2
    Nodes = {n1, n2}
    Loops = {"scaler", "jobs"}
    MaxFaults = 5
    NoNode = none
    Orphan = orphan
    none = none
    n1 = n1
    n2 = n2
    j1 = j1
    j2 = j2
    s1 = s1
    q1 = q1
    q2 = q2
    l1 = l1
    r1 = r1
    p1 = p1
CHECK_DEADLOCK FALSE
INVARIANT Conservation
PROPERTIES BufferDrains YesOnlyToOwner LeadershipReturns RelaysEnd CountsConverge SeatsReleased PlacementHeals
