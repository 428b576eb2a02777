CONSTANTS
    Ids = {a, b, c, d, e}
    Vectors = {x, y}
    Blank = Blank
    InitialCapacity = 1
    PageSlots = 4
    MaxSlots = 8
SPECIFICATION Spec
PROPERTY ImplementsDurableMap
CHECK_DEADLOCK FALSE
