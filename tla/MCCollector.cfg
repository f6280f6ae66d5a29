SPECIFICATION LiveSpec
CONSTANTS
    Shards = {s1, s2}
    Kinds <- MCKinds
    Valid = {"combined"}
    Targets <- MCTargets
    Fallback = "usdm"
    QueueCapacity = 1
    BatchSize = 2
    MaxDelay = 2
    FlushMessages = 2
    Times = {1, 2}
    MaxMessages = 3
INVARIANTS TypeOK InOrder ReceivedExact ParsedExact
PROPERTY EventuallyWritten
