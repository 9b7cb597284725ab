SPECIFICATION FairSpec
CONSTANTS
    a = a
    b = b
    v1 = v1
    v2 = v2
    NONE = NONE
    Id = {a, b}
    Value = {v1, v2}
    Priority <- TwoPriorities
    Slots = 2
    Safe = 2
    Blocks = 1
    Erased = 9
    ResetWhileCopying = FALSE
    CollectReverted = FALSE
    MaxWrites = 3
    MaxResets = 1
    MaxFaults = 1
CHECK_DEADLOCK FALSE
INVARIANTS
    TypeOK
    Durable
    SavedWhenDone
PROPERTIES
    ImplementsStore
    EventuallySaved
