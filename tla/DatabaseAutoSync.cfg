CONSTANTS
    Threads = {t1, t2}
    Ids = {1, 2, 3}
    Dates = {d1, d2}
    None = None
    AutoSync = TRUE
    Faults = TRUE
    MaxCalls = 2
SPECIFICATION Spec
INVARIANT AddsAreAnswered
CHECK_DEADLOCK FALSE
