SPECIFICATION MCLiveSpec
CONSTANTS
    Tasks = {t1}
    Workers = {w1}
    NoTask = NoTask
    MaxAttemptsSettings = {0}
    CustomMaxAttempts = {1}
    BackoffBase = 1
    LongestDelay = 1000
    QueueMax = 1
    MaxStops = 2
    MaxMishaps = 1
    MaxExpiries = 0
    MaxRequests = 1
INVARIANTS ShutdownTypeOK ExclusiveLease ResultRecorded AttemptsPerStop
PROPERTIES LifecycleSpec ProgressThroughStops
