SPECIFICATION FairSpec
CONSTANTS
    write = write
    read = read
    status = status
    Ping = Ping
    Cmd = {write, read, status}
    NoCachingCmd = {status}
    Size <- Sizes
    ReplySize <- ReplySizes
    Retries <- RetriesOf
    CacheLife = 3
    MaxCacheSize = 3
    MaxRequests = 2
    MaxFaults = 2
    MaxLate = 1
CHECK_DEADLOCK FALSE
INVARIANTS
    TypeOK
    ExactlyOnce
    RetriesKeepReply
PROPERTIES
    EventuallyAnswered
