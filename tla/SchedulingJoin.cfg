SPECIFICATION SchedulingSpec
CONSTANTS
    on = on
    off = off
    Values = {on, off}
    Schedules <- TwoKinds
    Ops = {"start", "stop"}
    MaxOps = 2
    MaxTime = 2
    Outputs = {TRUE}
    MaxLost = 0
    NoSetting = NoSetting
INVARIANT NoJoinUnderLock
CHECK_DEADLOCK FALSE
