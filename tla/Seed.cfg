SPECIFICATION Spec
CONSTANTS
    p1 = p1
    p2 = p2
    p3 = p3
    t1 = t1
    t2 = t2
    s1 = s1
    s2 = s2
    load0 = load0
    load1 = load1
    PaymentIds = {p1, p2, p3}
    Keys <- const_Keys
    EmptyKey = ""
    NoKey = NoKey
    NoProc = NoProc
    Bodies <- const_Bodies
    Seeds = {s1, s2}
    Users = {load0, load1}
    TenantIds = {t1, t2}
    NoTenant = NoTenant
    AccessLifetime = 1
    RefreshLifetime = 2
    AccessMaxTime = 2
    Threshold = 1
    Cooldown = 1
    SeedUsers <- const_SeedUsers
    PerTenant = 1
    Capture = TRUE
    MaxRuns = 2
SYMMETRY Symmetry
INVARIANTS
    AccessTypeOK
    OwnTenantOnly
    OneOwnerEach
    SeedTopsUp
    StopsAtVoided
CHECK_DEADLOCK FALSE
