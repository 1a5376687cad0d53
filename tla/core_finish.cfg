SPECIFICATION MCLiveSpec
CONSTANTS
    Tasks = {t1}
    Workers = {w1, w2}
    NoTask = NoTask
    MaxAttemptsSettings = {2}
    CustomMaxAttempts = {1}
    BackoffBase = 1
    LongestDelay = 1000
    QueueMax = 0
    MaxFaults = 0
    MaxCrashes = 0
    MaxExpiries = 1
    MaxRequests = 1
PROPERTY EveryTaskFinishes
