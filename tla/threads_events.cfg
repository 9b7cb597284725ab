SPECIFICATION LoopSpec
CONSTANTS
    t1 = t1
    t2 = t2
    t3 = t3
    o1 = o1
    o2 = o2
    e1 = e1
    e2 = e2
    NONE = NONE
    Thread = {t1, t2, t3}
    Obj = {}
    Event = {e1, e2}
    AutoReset = {e1}
    Ops = {"event", "sleep", "suspend"}
    MaxRecursion = 1
    MaxRequests = 1
CHECK_DEADLOCK FALSE
INVARIANTS
    ListsConsistent
    SignalsExact
PROPERTIES
    SignalLoopEnds
