SPECIFICATION Spec
CONSTANTS
    Services = {"s"}
    All = "__all__"
    SubscriberIds = {"i", "j"}
    Unknown = Unknown
    Capacity = 1
    MaxSubscribers = 3
    MaxChanges = 3
    MayReplace = TRUE
CHECK_DEADLOCK FALSE
INVARIANTS
    TypeOK
    ExactlyOnce
    PolledAreListed
