SPECIFICATION AcquaintedSpec
CONSTANTS
    a = a
    b = b
    c = c
    Nodes = {a, b, c}
    MayLeave = {b, c}
    MayStop = {c}
    Probers = {a}
    Fanout = 3
    MaxInFlight = 1
    MayDuplicate = TRUE
CHECK_DEADLOCK FALSE
INVARIANTS
    TypeOK
    LeavingIsFinal
PROPERTY
    OwnRecordIsOwn
