SPECIFICATION FairSpec
CONSTANTS
    t1 = t1
    t2 = t2
    Program = {t1, t2}
    Main = t1
    Cctor = Cctor
    Finalizer = Finalizer
    NONE = NONE
    SystemHighest = 2
    Normal = 0
    BelowNormal = 0
    Debit <- Debits
    Maximum = 7
    Adjustment = 5
    IntMax = 19
    MaxContextSwitch = 1
    MaxStarts = 1
    MaxEvents = 1
    MaxGarbage = 2
INVARIANTS
    TypeOK
    CountersSound
    BoundedStreak
PROPERTIES
    ConstructorsFirst
    ReadyRuns
