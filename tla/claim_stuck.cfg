SPECIFICATION MCLiveSpec
CONSTANTS
    Tasks = {t1}
    Workers = {w1, w2}
    NoTask = NoTask
    MaxAttemptsSettings = {1}
    CustomMaxAttempts = {}
    BackoffBase = 1
    LongestDelay = 1000
    QueueMax = 2
    MaxFaults = 0
    MaxCrashes = 1
    MaxExpiries = 0
    MaxRequests = 0
PROPERTY StuckTasksRestarted
