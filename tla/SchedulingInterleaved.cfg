SPECIFICATION SchedulingSpec
CONSTANTS
    on = on
    off = off
    Values = {on, off}
    Schedules <- TwoKinds
    Ops = {"start", "stop", "set"}
    MaxOps = 4
    MaxTime = 3
    Outputs = {TRUE, FALSE}
    MaxLost = 1
    NoSetting = NoSetting
INVARIANTS SchedulingTypeOK AtMostOneScheduler FlagDownNoThread
CHECK_DEADLOCK FALSE
