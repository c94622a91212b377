SPECIFICATION FairSpec
CONSTANTS
    c1 = c1
    c2 = c2
    Consumers = {c1, c2}
    Partitions = {1, 2}
    Topic <- const_TwoTenants
    Events <- const_Events
    MaxRetries = 1
    NoConsumer = NoConsumer
    MaxLedgerFaults = 2
INVARIANTS
    LedgerTypeOK
    OneEntryPerEvent
    OutcomeTruthful
    AccountedFor
    BooksMatchCaptures
PROPERTIES
    EveryEventHandled
