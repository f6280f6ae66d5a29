SPECIFICATION Spec
CONSTANTS
    t1 = t1
    t2 = t2
    t3 = t3
    s1 = s1
    s2 = s2
    s3 = s3
    None = None
    Tasks = {t1, t2, t3}
    Segments = {s1}
    HourOf <- OneHour
    Small = {s1}
    MinFiles = 2
    MinSmall = 1
    MaxPartitions = 1
    Settle = 0
    Lookback = 1
    DayHours = 1
    Overlap = FALSE
    MaxHour = 1
    MaxFaults = 1
    MaxReuploads = 0
CHECK_DEADLOCK FALSE
INVARIANT RowsOnce
