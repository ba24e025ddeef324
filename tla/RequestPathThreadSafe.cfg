SPECIFICATION Spec
CONSTANTS
    ui = ui
    cloud = cloud
    sched = sched
    Apis = {ui}
    Scheds = {sched}
    Resources = {r1, r2}
    Known = {r1, r2}
    Settings = {on, off}
    Cmds = {"GET"}
    MaxCalls <- OneEach
    Calm = TRUE
    NoThread = NoThread
    NoCall = NoCall
    NoAnswer = NoAnswer
INVARIANT OwnAnswer
CHECK_DEADLOCK FALSE
