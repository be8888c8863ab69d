SPECIFICATION Spec
CONSTANTS
    Item = {i1, i2}
    Cell = {c1, c2, c3}
    HEAD = HEAD
    NIL = NIL
    NULL = NULL
    NONE = NONE
    DefaultSize = 2
    Rates = {1, 2, 3}
    MaxLength = 3
    Node = {n1, n2, n3}
    Key = {"a", "A", "b", "c"}
    Value = {v1, v2}
    Byte = {z, d}
    ZERO = z
    MaxSize = 2
    MaxCapacity = 4
    CacheSlots = 1
    Thread = {t1, t2}
    Object = {o1, o2, o3}
    Capacity = 1
    Extension = 1
    WithTimeout = FALSE
    MaxItems = 2
INVARIANTS Structure Ownership
PROPERTIES Contracts FreeReturns
CHECK_DEADLOCK FALSE
