SPECIFICATION Spec
CONSTANTS
    lamp = lamp
    fan = fan
    h1 = h1
    h10 = h10
    Resources = {lamp}
    Hosts = {h1}
    Host <- LampHost
    IpPrefixes <- H1
    Reports <- OnOff
    MaxCallbacks = 1
    MaxTime = 3
    MaxReports = 1
    MaxCrashes = 1
INVARIANT NotNegative
CHECK_DEADLOCK FALSE
