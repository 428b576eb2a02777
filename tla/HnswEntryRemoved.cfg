CONSTANTS
    Ids = {1, 2, 3, 4}
    Position <- MCPosition
    Configs <- MCConfigs
    EfSearches = {4}
    Capacities = {1, 4}
    SizeMod = 8
    MaxLevel = 1
    MaxNodes = 4
SPECIFICATION MCSpec
INVARIANT RemovalHidesOne
CHECK_DEADLOCK FALSE
