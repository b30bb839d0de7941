SPECIFICATION IdentitySpec
CONSTANTS
    Nodes = {n1, n2}
    Sessions = {s0}
    Tasks = {r1, r2}
    CacheTtl = 1
    Lifetime = 2
    MaxTime = 2
    MaxFaults = 1
    None = none
    Reqs = {r1, r2}
    Users = {ann, bob}
    Groups = {g1, h1}
    PanelSids <- ThreeSids
    PanelBoot <- SignedIn
    NewRoles = {"viewer", "admin"}
    NewGroups <- Forms
    MaxPanelRequests = 3
    FactorUsers = {ann}
    Browsers = {b1, b2}
    LoginSids <- ThreeSids
    Of <- AnnOnly
    BrowserOf <- Browser
    CodesPerSet = 1
    Days = {0, 1}
    FactorBoot <- TwoBoots
    MaxStep = 1
    MaxFactorRequests = 4
    Quiet <- AnyPeople
    none = none
    ann = ann
    bob = bob
    g1 = g1
    h1 = h1
    s0 = s0
    s1 = s1
    s2 = s2
    r1 = r1
    r2 = r2
    b1 = b1
    b2 = b2
    n1 = n1
    n2 = n2
SYMMETRY Symmetry
CHECK_DEADLOCK FALSE
INVARIANTS SessionsExplained NoRevokedGroupServed NoStaleTrust ProofsCountOnce
PROPERTIES RolesGuarded ImplementsSignIn
