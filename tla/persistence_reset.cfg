SPECIFICATION Spec
CONSTANTS
    a = a
    b = b
    v1 = v1
    v2 = v2
    NONE = NONE
    Id = {a, b}
    Value = {v1, v2}
    Priority <- OnePriority
    Slots = 2
    Safe = 2
    Blocks = 1
    Erased = 9
    ResetWhileCopying = TRUE
    CollectReverted = FALSE
    MaxWrites = 3
    MaxResets = 2
    MaxFaults = 1
SYMMETRY StoreSymmetry
CHECK_DEADLOCK FALSE
INVARIANTS
    Durable
    
