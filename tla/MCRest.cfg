SPECIFICATION LiveSpec
CONSTANTS
    s1 = s1
    s2 = s2
    s3 = s3
    Symbols = {s1, s2}
    Order <- TwoSymbols
    Offset <- MCOffset
    Concurrency = 2
    Interval = 2
    RetryDelay = 1
    PauseCap = 1
    RetryCap = 2
    SleepCap = 1
    Blocks = {3}
    OtherBlocks = {3}
    Capacity = 3
    Refill = 1
    Weight = 2
    Minute = 3
    Polling = TRUE
INVARIANTS TypeOK BucketLaw
PROPERTY NeverStarved
