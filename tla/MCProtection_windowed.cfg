SPECIFICATION FairSpec
CONSTANTS
    x = x
    y = y
    Keys = {x, y}
    Interval = 3
    Timeout = 9
    Window = 6
    CheckInterval = 2
    RatePercent = 85
    Delay = 1
    Beat = 2
INVARIANTS
    TypeOK
    PartitionIsNoticed
PROPERTIES
    SteadyIsNotProtected
    ProtectionEnds
