\* Capacities 1 -> 2 -> 4 -> 8 slots: the first doubling maps a page of four,
\* the second needs no system call, the third reaches the file-size limit.
CONSTANTS
    Ids = {a, b, c, d, e}
    Vectors = {x, y}
    Blank = Blank
    InitialCapacity = 1
    PageSlots = 4
    MaxSlots = 8
SPECIFICATION Spec
SYMMETRY Symmetry
INVARIANTS TypeOK SlotsDistinct NoGaps SlotsReachable DanglingOnlyWhenFull
PROPERTIES ViewsAreStable ImplementsMap
CHECK_DEADLOCK TRUE
