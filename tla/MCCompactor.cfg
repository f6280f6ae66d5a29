SPECIFICATION Spec
CONSTANTS
    t1 = t1
    t2 = t2
    t3 = t3
    s1 = s1
    s2 = s2
    s3 = s3
    None = None
    Tasks = {t1, t2, t3}
    Segments = {s1, s2, s3}
    HourOf <- TwoHours
    Small = {s1, s2, s3}
    MinFiles = 2
    MinSmall = 1
    MaxPartitions = 1
    Settle = 0
    Lookback = 1
    DayHours = 2
    Overlap = FALSE
    MaxHour = 4
    MaxFaults = 2
    MaxReuploads = 1
SYMMETRY TaskSymmetry
INVARIANTS TypeOK MutualExclusion NoRowLost CompletedHasOutput CheckpointHonest RowsOncePerUpload
PROPERTIES DeletionSafe CheckpointKept
CHECK_DEADLOCK FALSE
