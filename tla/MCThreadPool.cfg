CONSTANTS
    p1 = p1
    m1 = m1
    m2 = m2
    m3 = m3
    NumThreads = 2
    Producers = {p1}
    Messages = {m1, m2, m3}
    None = None
    Capacity = 1
    SpawnMayFail = TRUE
SPECIFICATION FairSpec
INVARIANTS
    LockDiscipline
    EachMessageOnePlace
    QuietWhenStopped
PROPERTIES
    TakenIsProcessed
    StopReturns
    QueuedIsTaken
    ImplementsWorkerPool
