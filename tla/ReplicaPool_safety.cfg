SPECIFICATION Spec
CONSTANTS
    Replicas = {r1, r2, r3}
    Spawners = {t1, t2}
    Passes = {p1}
    Stoppers = {}
    Seats = 1
    MaxReplicas = 2
    FaultBudget = 2
    NoReplica = NoReplica
    Free = Free
SYMMETRY Symmetry
CHECK_DEADLOCK FALSE
PROPERTIES SpawnsBounded PassesSpareOthers
