SPECIFICATION FairSpec
CONSTANTS
    p1 = p1
    p2 = p2
    t1 = t1
    s1 = s1
    s2 = s2
    web = web
    PaymentIds = {p1, p2}
    Tenants = {t1}
    KnownTenants = {t1}
    Keys = {""}
    EmptyKey = ""
    NoKey = NoKey
    NoProc = NoProc
    Bodies <- const_Bodies
    Workers = {web}
    Sagas = {s1, s2}
    Partitions = {1}
    EventIds = {p1, p2}
    Topic <- const_OnePartition
    MaxRetries = 1
    NoSaga = NoSaga
    MaxSagaFaults = 3
INVARIANTS
    RejectionAccountedFor
    VoidedOnRejection
PROPERTIES
    EveryRejectionHandled
