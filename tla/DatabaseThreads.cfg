\* Two threads of two calls each: enough for a remove_by_date, a remove and an
\* update of one document, or two adds, to meet.
CONSTANTS
    Threads = {t1, t2}
    Ids = {1, 2}
    Dates = {d1, d2}
    None = None
    AutoSync = TRUE
    Faults = TRUE
    MaxCalls = 2
SPECIFICATION Spec
INVARIANTS TypeOK WholeWhenUnlocked RemovalsAddUp
PROPERTIES CallsReturn ImplementsDocuments
CHECK_DEADLOCK FALSE
