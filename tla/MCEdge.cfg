SPECIFICATION EdgeSpec
CONSTANTS
    Tasks = {t1, t2}
    Replicas = {r1, r2}
    Specs <- ProxySpecs
    Requests <- ProxyRequests
    Yaml <- FileSpec
    Ttl = 1
    LoadTime = 1
    MaxReplicas = 2
    MaxTime = 3
    MaxChanges = 2
    Clients = {c1}
    LimitTasks = {t1, t2}
    Limit = 2
    Window = 3
    SweepEvery = 2
    Skew = 1
    LimitTime = 5
    Keys = {k1}
    AlertCooldown = 2
    UrlTtl = 2
    AlertDepth = 1
    Attempts = 2
    AlertTime = 4
    MaxTests = 1
    ActivityDepth = 2
    BatchMax = 2
    MaxAttempts = 3
    MaxEvents = 5
    Bypasses = {b1, b2, b3}
    AuditCooldown = 2
    AuditTime = 4
    Hosts = {h1, h2}
    Ids = {i1, i2}
    Tags = {g1, g2}
    Containers = {c1}
    Volumes = {v1}
    None = none
    InFile <- FileNames
    MaxEnv = 3
    t1 = t1
    t2 = t2
    r1 = r1
    h1 = h1
    h2 = h2
    i1 = i1
    i2 = i2
SYMMETRY Symmetry
CHECK_DEADLOCK FALSE
INVARIANTS RequestsJudged InflightSound WindowRespected SilenceAccounted
PROPERTY CleanupJustified
