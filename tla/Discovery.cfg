SPECIFICATION Spec
CONSTANTS
    h1 = h1
    h2 = h2
    r1 = r1
    r2 = r2
    r3 = r3
    Hosts = {h1, h2}
    Resources <- ThreeResources
    Home <- HomeOfThree
    Uri <- OwnUris
    Boots <- SomeBoots
    Period = 4
    Quiet = 2
    MaxLost = 1
    MaxOutages = 1
    None = None
    Freed = Freed
INVARIANT NoUseAfterFree
PROPERTIES HostsFound ResourcesObserved
