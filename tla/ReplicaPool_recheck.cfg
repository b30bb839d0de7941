SPECIFICATION Spec
CONSTANTS
    Replicas = {r1}
    Spawners = {t1}
    Passes = {p1, p2}
    Stoppers = {x1}
    Seats = 1
    MaxReplicas = 1
    FaultBudget = 2
    NoReplica = NoReplica
    Free = Free
PROPERTY PassRechecksState
CHECK_DEADLOCK FALSE
