SPECIFICATION LiveSpec
CONSTANTS
    s0 = s0
    s1 = s1
    e1 = e1
    None = None
    Segments = {s0, s1}
    HourOf <- MCHourOf
    Exports = {e1}
    ExportHour <- MCExportHour
    ExportForce <- Forced
    Attempts = 2
    MinRetention = 1
    MaxRetention = 2
    MaxHour = 2
    MaxCrashes = 1
    MayFail = TRUE
INVARIANTS TypeOK UnuploadedNeverDeleted NoRemovalDuringPut ExportOkComplete
PROPERTIES EventuallyStored RetentionRespected
\* After the encoder's end and the task's return nothing is left to do at the bounds.
CHECK_DEADLOCK FALSE
