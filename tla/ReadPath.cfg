SPECIFICATION ReadSpec
CONSTANTS
    g1 = g1
    g2 = g2
    Gateways = {g1, g2}
    Threshold = 2
    Cooldown = 1
    CacheTtl = 2
    WorkerTimeout = 1
    MaxTime = 3
    MaxDrops = 1
    MaxFailures = 3
    Callers = {g1, g2}
    Capacity = 2
    Refill = 1
    CallTimeout = 2
    MaxTicks = 6
    t1 = t1
    t2 = t2
    Tenants = {t1, t2}
    Reader = t1
    Stamps <- const_Stamps
    PageSize = 2
    NoPosition = NoPosition
    MaxEntries = 5
SYMMETRY Symmetry
INVARIANTS
    BreakerTripsExactly
    StalenessBounded
    InvalidationHolds
    LimiterTypeOK
    RateBounded
    PagesStable
    TiesKeepCount
CHECK_DEADLOCK FALSE
