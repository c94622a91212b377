SPECIFICATION TopicSpec
CONSTANTS
    c1 = c1
    c2 = c2
    Consumers = {c1, c2}
    Partitions = {1}
    Topic <- const_OnePartition
    Events <- const_Events
    MaxRetries = 1
    NoConsumer = NoConsumer
    MaxLedgerFaults = 3
INVARIANTS
    NothingLost
