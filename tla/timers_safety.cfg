SPECIFICATION Spec
CONSTANTS
    t1 = t1
    t2 = t2
    t3 = t3
    NoTimer = NoTimer
    Timer = {t1, t2}
    Dues <- DuesSafety
    Periods <- PeriodsSafety
    Millisecond = 1
    MaxTime = 3
    MaxSleep = 2
    Infinite = 16
    OutOfMemory = TRUE
    CollectExecuting = FALSE
SYMMETRY TimerSymmetry
INVARIANTS
    TypeOK
    ThreadKeepsTrack
    NoOversleep
    RecurringSound
PROPERTIES
    OneShotOnce
    CallbacksBounded
