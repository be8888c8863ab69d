CONSTANTS
    Workers = {w1}
    Datagrams = {d1}
    None = None
    Sizes = {1, 2, 3, 4}
    Chunk = 2
    Least = 2
    Duplicates = 0
    MaxTime = 0
SPECIFICATION Spec
INVARIANTS Forwards
CHECK_DEADLOCK FALSE
