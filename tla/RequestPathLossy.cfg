SPECIFICATION Spec
CONSTANTS
    ui = ui
    cloud = cloud
    sched = sched
    Apis = {ui}
    Scheds = {sched}
    Resources = {r1, r2, r3}
    Known = {r1, r2}
    Settings = {on}
    Cmds = {"POST"}
    MaxCalls <- UiTwo
    Calm = FALSE
    NoThread = NoThread
    NoCall = NoCall
    NoAnswer = NoAnswer
INVARIANTS TypeOK ReadNeverBlocks OneWaiterPerResource StaleAnswersBounded
PROPERTY CallsReturn
CHECK_DEADLOCK FALSE
