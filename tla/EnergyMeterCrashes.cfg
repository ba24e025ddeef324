SPECIFICATION Spec
CONSTANTS
    lamp = lamp
    fan = fan
    h1 = h1
    h10 = h10
    Resources = {lamp, fan}
    Hosts = {h1, h10}
    Host <- TwoHosts
    IpPrefixes <- SameLength
    Reports <- Dimmed
    MaxCallbacks = 2
    MaxTime = 2
    MaxReports = 2
    MaxCrashes = 2
INVARIANTS TypeOK   OnRecord
SYMMETRY Exchange
CHECK_DEADLOCK FALSE
