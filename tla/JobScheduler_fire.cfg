SPECIFICATION FairSpec
CONSTANTS
    Nodes = {n1, n2}
    Loops = {"jobs"}
    MaxFaults = 1
    NoNode = NoNode
    Orphan = Orphan
    Schedules = {c1}
    Horizon = 2
    Skew = 1
    Period = 1
    InFile = {}
    MaxErrors = 1
INVARIANT NoDoubleFire
PROPERTIES UsesLeaderLock JobsProgress
