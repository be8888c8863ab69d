CONSTANTS
    Elements = {e1, e2, e3, e4}
    Null = Null
    Capacities = {1, 2, 3}
    FreeArgs = {"client", "none"}
    Caching = TRUE
    PublicClear = TRUE
    MaxInserts = 5
SPECIFICATION Spec
INVARIANTS
    ElementsInSpan
    EachHeldOnce
    StatisticsBalance
PROPERTIES
    NothingForgotten
    ImplementsFifo
