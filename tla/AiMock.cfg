SPECIFICATION Spec
CONSTANTS
    q1 = q1
    q2 = q2
    ta = ta
    Threads = {q1, q2}
    Tenants = {ta}
    Questions = {"balance", "weather"}
    ProviderOrder <- const_Order
    ProviderKeys = {"claude"}
    CallLists <- const_CallLists
    MaxToolIterations = 2
    Capacity = 1
    Refill = 1
    Threshold = 2
    Cooldown = 2
    MaxTime = 4
    MaxQueries = 3
INVARIANTS
    MockAvailable
CHECK_DEADLOCK FALSE
