SPECIFICATION FairSpec
CONSTANTS
    isr1 = isr1
    isr2 = isr2
    user1 = user1
    timer = timer
    com = com
    Call = {isr1, user1}
    InISR = {isr1}
    Flag = {timer, com}
    TimerFlag = timer
    MaxTime = 2
    MaxDelay = 2
    MaxLag = 1
    SleepServesInterrupts = FALSE
INVARIANTS
    TypeOK
    CallsLinked
    RegisterSound
    NoSleepOnEvent
PROPERTIES
    AllServed
