SPECIFICATION MCSpec
CONSTANTS
    Tasks = {t1, t2}
    Workers = {w1, w2}
    NoTask = NoTask
    MaxAttemptsSettings = {2}
    CustomMaxAttempts = {1}
    BackoffBase = 1
    LongestDelay = 1000
    QueueMax = 2
    MaxFaults = 0
    MaxCrashes = 0
    MaxExpiries = 1
    MaxRequests = 0
SYMMETRY Symmetry
INVARIANT QueueFits
PROPERTY LifecycleSpec
