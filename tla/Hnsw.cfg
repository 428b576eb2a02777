CONSTANTS
    Ids = {1, 2, 3, 4}
    Position <- MCPosition
    Configs <- MCConfigs
    EfSearches = {4}
    Capacities = {1, 4}
    SizeMod = 8
    MaxLevel = 1
    MaxNodes = 4
SPECIFICATION MCSpec
INVARIANTS SmallIndexExact LinksBounded SearchAnswers SearchExact
PROPERTY LoadKeepsVectors
CHECK_DEADLOCK FALSE
