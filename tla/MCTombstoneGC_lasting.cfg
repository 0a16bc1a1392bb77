SPECIFICATION GCSpec
CONSTANTS
    Absent = Absent
    a = a
    b = b
    c = c
    x = x
    Keys = {x}
    Ids = {x}
    IdOf <- MCIdOf
    Nodes = {a, b, c}
    Writers <- AtHome
    Checkers <- AtHome
    Evictors <- AtReplica
    MaxVersion = 2
    MaxQueued = 2
    MaxInFlight = 1
    MayDuplicate = FALSE
    Status = {"UP"}
    OutOfService = "OUT_OF_SERVICE"
    TombstoneTTL = 1
    MaxApart = 1
INVARIANTS
    TimeTypeOK
    GoneStaysGone
CONSTRAINT
    InTouch
