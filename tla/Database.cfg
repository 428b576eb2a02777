CONSTANTS
    x = x  y = y
    Ids <- MCIds
    Docs <- MCDocs
    Abridged <- MCAbridged
    None = None
    Malformed = Malformed
    WriteFaults = FALSE
    TornAppends = TRUE
    TornRewrites = FALSE
    MaxRestarts = 2
    MaxUpdated = 1
    StoreFaults = FALSE
    CrashInSync = TRUE
    SaveFaults = FALSE
    MaxLines = 3
SPECIFICATION MCSpec
INVARIANTS AddsAreAtomic SyncedVectorsSurvive 
CHECK_DEADLOCK FALSE
