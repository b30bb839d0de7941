SPECIFICATION Spec
CONSTANTS
    N = 2
    MaxContainers <- Caps
    Weight <- Weights
    Replicas = {a1, a2}
    SpecOf <- Owner
    Placement = "spread"
    AntiAffinity = TRUE
    Tasks = {t1}
    Passes = {p1}
    MaxFaults = 0
    NoReplica = NoReplica
CHECK_DEADLOCK FALSE
PROPERTY StopSearchesEveryHost
