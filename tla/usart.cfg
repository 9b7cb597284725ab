SPECIFICATION MCSpec
CONSTANTS
    TxSize = 2
    RxSize = 2
    Bytes = {0, 1}
    MaxRead = 2
    MaxWrite = 2
    Flows <- Handshakes
INVARIANTS
    TypeOK
    StreamsIntact
    PortGoesOn
    ReadingReleases
    DataAnnounced
    NoLostWakeup
