SPECIFICATION FairSpec
CONSTANTS
    t1 = t1
    t2 = t2
    t3 = t3
    NoTimer = NoTimer
    Timer = {t1, t2, t3}
    Dues <- DueNow
    Periods <- PeriodsOnce
    Millisecond = 1
    MaxTime = 1
    MaxSleep = 1
    Infinite = 6
    OutOfMemory = FALSE
    CollectExecuting = FALSE
PROPERTIES
    TimersServed
