SPECIFICATION DriverSpec
CONSTANTS
    Processes = {p1, p2, p3}
    Pins = {0, 7}
    Width = 8
    Calls <- SomeCalls
PROPERTIES AtomicPort EveryIoctlReturns
