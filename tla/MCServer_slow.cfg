SPECIFICATION ScheduledSpec
CONSTANTS
    Absent = Absent
    i1 = i1
    i2 = i2
    Keys <- TwoInstances
    Ids <- MCIds
    IdOf <- MCIdOf
    ServiceOf <- MCServiceOf
    Status = {"UP", "OUT_OF_SERVICE"}
    OutOfService = "OUT_OF_SERVICE"
    MaxVersion = 3
    Services = {"s", "t"}
    All = "__all__"
    SubscriberIds = {"i"}
    Unknown = Unknown
    Capacity = 1
    MaxSubscribers = 1
    MaxChanges = 4
    MayReplace = FALSE
PROPERTIES
    EvictionGoesOn
