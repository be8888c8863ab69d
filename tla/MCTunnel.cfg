CONSTANTS
    Workers = {w1, w2}
    Datagrams = {d1, d2}
    None = None
    Sizes = {1, 2, 3, 4}
    Chunk = 2
    Least = 2
    Duplicates = 1
    MaxTime = 1
SYMMETRY Symmetry
SPECIFICATION Spec
INVARIANTS NumbersIncrease ForwardedIntact ForwardedOnce
CHECK_DEADLOCK FALSE
