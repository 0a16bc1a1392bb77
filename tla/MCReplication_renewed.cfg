SPECIFICATION Spec
CONSTANTS
    Absent = Absent
    a = a
    b = b
    c = c
    x = x
    y = y
    Keys = {x}
    Ids = {x}
    IdOf <- MCIdOf
    Nodes = {a, b}
    Writers <- AtHome
    Checkers <- AtHome
    Evictors <- AtReplica
    MaxVersion = 2
    MaxQueued = 1
    MaxInFlight = 1
    MayDuplicate = FALSE
    Status = {"UP", "OUT_OF_SERVICE"}
    OutOfService = "OUT_OF_SERVICE"
PROPERTY
    RenewedStaysListed
