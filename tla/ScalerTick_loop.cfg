SPECIFICATION FairSpec
CONSTANTS
    Replicas = {r1, r2, r3}
    Seats = 1
    Configs <- MCConfigs
    Mutexes = {m1, m2, m3}
    Visit = visit
    Tick = tick
    NoMutex = nomutex
    Young = 1
    IdleGrace = 2
    SatGrace = 2
    Cooldown = 2
    Drain = 1
    AgeCap = 4
    MaxFaults = 1
INVARIANT CapUnlessOrphaned
PROPERTIES ScaleDownSound PoolConverges
