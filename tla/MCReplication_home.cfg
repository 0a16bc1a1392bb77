SPECIFICATION FairSpec
CONSTANTS
    Absent = Absent
    a = a
    b = b
    c = c
    x = x
    y = y
    Keys = {x}
    Ids = {x}
    IdOf <- MCIdOf
    Nodes = {a, b, c}
    Writers <- AtHome
    Checkers <- AtHome
    Evictors <- AtTwo
    MaxVersion = 3
    MaxQueued = 1
    MaxInFlight = 1
    MayDuplicate = FALSE
    Status = {"UP"}
    OutOfService = "OUT_OF_SERVICE"
INVARIANTS
    TypeOK
    TombstonesHonoured
    HomeIsNewest
PROPERTIES
    SyncMerges
    ImplementsCatalog
    Convergence
