SPECIFICATION FairSpec
CONSTANTS
    x = x
    y = y
    Absent = Absent
    Idle = Idle
    Registered = Registered
    Keys = {x, y}
    Ids = {x, y}
    IdOf <- MCIdOf
    Status = {"UP", "STARTING", "OUT_OF_SERVICE"}
    Up = "UP"
    OutOfService = "OUT_OF_SERVICE"
    UnhealthyThreshold = 3
    HealthyThreshold = 2
INVARIANTS
    TypeOK
PROPERTIES
    StatusIsEarned
    SickIsNotOffered
    HealthyIsOffered
