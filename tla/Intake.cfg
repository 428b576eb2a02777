\* Two threads, two tries a request; a limit of 2 a second, which does not divide
\* it, 4 a minute and 5 an hour; texts of up to four characters; three files and a restart.
CONSTANTS
    Threads = {t1, t2}
    MaxRetries = 2
    None = None
    MaxRequests = 2
    PerSecond = 2  PerMinute = 4  PerHour = 5
    Second = 3  Minute = 8  Hour = 10
    journal = journal  chart = chart  broken = broken
SPECIFICATION MCSpec
INVARIANTS TriesAddUp ServedBounded SecondIsBounded IntakeAddsUp
PROPERTIES NothingSkipped IntakeEnds
CHECK_DEADLOCK FALSE
