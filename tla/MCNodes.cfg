SPECIFICATION NodesSpec
CONSTANTS
    Replicas = {r1, r2}
    Sids = {s1, s2}
    Requests = {q1, q2}
    Logouts = {}
    Reapers = {p1}
    Seats = 1
    MaxReplicas = 2
    CountBound = 2
    NoReplica = NoReplica
    NoSid = NoSid
    None = None
    Members = {n1, n2}
    SharedSids = {s1, s2}
    SharedReplicas = {e1}
    SharedSeats = 2
    SharedRequests = {q1, q2}
    MaxVisits = 2
    MaxSharedFaults = 1
    MaxSweeps = 1
    N = 2
    MaxContainers <- HostCaps
    Weight <- HostWeights
    SpecOf <- OneApp
    Placement = "spread"
    AntiAffinity = TRUE
    FleetTasks = {t1}
    Passes = {p1}
    MaxFleetFaults = 1
    r1 = r1
    r2 = r2
    s1 = s1
    s2 = s2
    q1 = q1
    q2 = q2
SYMMETRY Symmetry
CHECK_DEADLOCK FALSE
INVARIANTS SeatLedger SeatsCounted DrainSeesOwn
PROPERTIES AdmissionRespectsSeats NoFalseMissing
