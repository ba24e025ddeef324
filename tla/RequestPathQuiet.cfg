SPECIFICATION Spec
CONSTANTS
    ui = ui
    cloud = cloud
    sched = sched
    Apis = {ui, cloud}
    Scheds = {}
    Resources = {r1, r2}
    Known = {r1, r2}
    Settings = {on, off}
    Cmds = {"GET", "SET", "MODE"}
    MaxCalls <- TwoEach
    Calm = TRUE
    NoThread = NoThread
    NoCall = NoCall
    NoAnswer = NoAnswer
INVARIANTS OwnAnswer SettingsCarried
CHECK_DEADLOCK FALSE
