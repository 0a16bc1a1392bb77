SPECIFICATION FairSpec
CONSTANTS
    a = a
    b = b
    c = c
    Nodes = {a, b, c}
    MayLeave = {}
    MayStop = {b, c}
    Probers = {a}
    Fanout = 3
    MaxInFlight = 1
    MayDuplicate = FALSE
CHECK_DEADLOCK FALSE
PROPERTY
    StoppedIsForgotten
