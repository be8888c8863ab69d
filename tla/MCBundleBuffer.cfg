CONSTANTS
    Workers = {w1, w2}
    Timer = Timer
    None = None
    Sizes <- MCSizes
    Total <- MCTotal
    Whole <- MCWhole
    Scenarios <- MCScenarios
    BufferAge = 0
    HistoryAge = 0
    MaxTime = 1
SPECIFICATION FairSpec
INVARIANTS FragmentUsedOnce DeliveredComplete LocksGivenBack
PROPERTIES LastCompletes PushReturns ExpiredIsDropped
