SPECIFICATION FairSpec
CONSTANTS
    q1 = q1
    q2 = q2
    ta = ta
    Threads = {q1, q2}
    Tenants = {ta}
    Questions = {"balance", "weather"}
    ProviderOrder <- const_Order
    ProviderKeys = {"claude"}
    CallLists <- const_CallLists
    MaxToolIterations = 2
    Capacity = 1
    Refill = 1
    Threshold = 2
    Cooldown = 1
    MaxTime = 3
    MaxQueries = 3
INVARIANTS
    AiTypeOK
    SpendingBounded
    OutageIsRecent
    HistoryReplayable
PROPERTIES
    QueryEnds
CHECK_DEADLOCK FALSE
