CONSTANTS
    Workers = {w1, w2}
    Timer = Timer
    None = None
    Sizes <- MCSizes
    Total <- MCTotal
    Whole <- MCWhole
    Scenarios <- MCGoodScenarios
    BufferAge = 0
    HistoryAge = 0
    MaxTime = 0
SPECIFICATION Spec
INVARIANTS HeldIsDelivered
