SPECIFICATION SchedulingSpec
CONSTANTS
    on = on
    off = off
    Values = {on, off}
    Schedules <- Ending
    Ops = {"start"}
    MaxOps = 1
    MaxTime = 5
    Outputs = {TRUE}
    MaxLost = 0
    NoSetting = NoSetting
INVARIANT RestoresPrevious
PROPERTIES ScheduleEnds Maintained
CHECK_DEADLOCK FALSE
