SPECIFICATION Spec
CONSTANTS
    t1 = t1
    t2 = t2
    o1 = o1
    e1 = e1
    NONE = NONE
    Thread = {t1, t2}
    Obj = {o1}
    Event = {}
    AutoReset = {}
    Ops = {"monitor", "abort"}
    MaxRecursion = 1
    MaxRequests = 2
INVARIANT
    DeadOwnsNoLock
CHECK_DEADLOCK FALSE
