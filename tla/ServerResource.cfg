SPECIFICATION ServerSpec
CONSTANTS
    SwitchPin = 0
    PowerPin = 1
    Pins = {0, 1}
    Types = {1}
    Puts <- SomePuts
    Observers = {o1}
    MaxPuts = 3
INVARIANT AutoHasThread
PROPERTIES ObserversSentLast PinFollowsPower
