SPECIFICATION Spec
CONSTANTS
    t1 = t1
    t2 = t2
    t3 = t3
    o1 = o1
    o2 = o2
    e1 = e1
    e2 = e2
    NONE = NONE
    Thread = {t1, t2, t3}
    Obj = {o1, o2}
    Event = {}
    AutoReset = {}
    Ops = {"monitor", "suspend", "kill", "join"}
    MaxRecursion = 2
    MaxRequests = 1
SYMMETRY ThreadSymmetry
CHECK_DEADLOCK FALSE
INVARIANTS
    RequestsEnd
