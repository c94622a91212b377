SPECIFICATION FairSpec
CONSTANTS
    p1 = p1
    t1 = t1
    PaymentIds = {p1}
    Tenants = {t1}
    KnownTenants = {t1}
    Keys = {}
    EmptyKey = ""
    NoKey = NoKey
    NoProc = NoProc
    Bodies <- const_Bodies
    Workers = {w1}
    MaxBatch = 0
    Relays = {r1}
    BatchSize = 2
    Partitions = {1}
    PartitionOf <- const_PartitionOf
    MaxRelayFaults = 1
    Consumers = {c1}
    MaxRetries = 0
    NoConsumer = NoConsumer
    MaxLedgerFaults = 1
    Sagas = {s1}
    NoSaga = NoSaga
    MaxSagaFaults = 1
    NoTerms = NoTerms
    MaxFaults = 1
PROPERTIES
    ImplementsSettlement
    CapturesSettle
