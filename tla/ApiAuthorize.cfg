SPECIFICATION Spec
CONSTANTS
    p1 = p1
    p2 = p2
    t1 = t1
    ghost = ghost
    k1 = k1
    empty = empty
    w1 = w1
    w2 = w2
    PaymentIds = {p1, p2}
    Tenants = {t1, ghost}
    KnownTenants = {t1}
    Keys = {k1, empty}
    EmptyKey = empty
    NoKey = NoKey
    NoProc = NoProc
    Bodies <- const_Bodies
    Workers = {w1, w2}
    MaxBatch = 0
SYMMETRY Symmetry
INVARIANTS
    TypeOK
    UniqueKeys
    IdempotentReplies
