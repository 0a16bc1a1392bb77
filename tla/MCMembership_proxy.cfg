SPECIFICATION AcquaintedSpec
CONSTANTS
    a = a
    b = b
    c = c
    Nodes = {a, b, c}
    MayLeave = {}
    MayStop = {c}
    Probers = {a, b, c}
    Fanout = 3
    MaxInFlight = 0
    MayDuplicate = FALSE
CHECK_DEADLOCK FALSE
PROPERTY
    UnreachableStaysSuspect
