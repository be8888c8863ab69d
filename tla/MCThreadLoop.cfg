CONSTANTS
    m1 = m1
    m2 = m2
    m3 = m3
    m4 = m4
    Messages = {m1, m2, m3, m4}
    NumThreads = 2
    None = None
    Loop = Loop
    LoopCapacity = 2
    SocketCapacity = 2
    QueueChoices = {TRUE}
    WriteMayFail = TRUE
SPECIFICATION FairSpec
INVARIANTS
    OneOwner
    TokenForEachMessage
PROPERTIES
    LoopQueueDrains
    StopReturns
