SPECIFICATION FairSpec
CONSTANTS
    p1 = p1
    p2 = p2
    t1 = t1
    w1 = w1
    w2 = w2
    r1 = r1
    r2 = r2
    PaymentIds = {p1, p2}
    Tenants = {t1}
    KnownTenants = {t1}
    Keys = {}
    EmptyKey = ""
    NoKey = NoKey
    NoProc = NoProc
    Bodies <- const_Bodies
    Workers = {w1, w2}
    Relays = {r1, r2}
    BatchSize = 2
    Partitions = {1, 2}
    PartitionOf <- const_PartitionOf
    MaxRelayFaults = 3
INVARIANTS
    RelayTypeOK
    PublishedIsLogged
    DuplicatesNeedFaults
PROPERTIES
    EveryRowPublished
