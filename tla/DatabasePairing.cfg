CONSTANTS
    x = x  y = y
    Ids <- MCIds
    Docs <- MCDocs
    Abridged <- MCWhole
    None = None
    Malformed = Malformed
    WriteFaults = FALSE
    TornAppends = FALSE
    TornRewrites = FALSE
    MaxRestarts = 2
    MaxUpdated = 0
    StoreFaults = FALSE
    CrashInSync = FALSE
    SaveFaults = FALSE
    MaxLines = 3
SPECIFICATION MCSpec
INVARIANT KeptPaired
CHECK_DEADLOCK FALSE
