SPECIFICATION Spec
CONSTANTS
    t1 = t1
    t2 = t2
    t3 = t3
    o1 = o1
    o2 = o2
    e1 = e1
    e2 = e2
    NONE = NONE
    Thread = {t1, t2, t3}
    Obj = {o1, o2}
    Event = {}
    AutoReset = {}
    Ops = {"monitor", "abort", "kill"}
    MaxRecursion = 1
    MaxRequests = 2
SYMMETRY ThreadSymmetry
CHECK_DEADLOCK FALSE
INVARIANTS
    TypeOK
    LiveThreadLinked
    LocksConsistent
PROPERTIES
    GrantedInOrder
