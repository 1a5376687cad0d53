SPECIFICATION MCSpec
CONSTANTS
    Tasks = {t1}
    Workers = {w1, w2}
    NoTask = NoTask
    MaxAttemptsSettings = {0, 2}
    CustomMaxAttempts = {1}
    BackoffBase = 1
    LongestDelay = 1000
    QueueMax = 2
    MaxFaults = 1
    MaxCrashes = 0
    MaxExpiries = 1
    MaxRequests = 1
SYMMETRY Symmetry
INVARIANTS TypeOK ExclusiveLease AttemptsBounded ResultRecorded
PROPERTY TerminalStays
