SPECIFICATION MCLiveSpec
CONSTANTS
    Tasks = {t1}
    Workers = {w1, w2}
    NoTask = NoTask
    MaxAttemptsSettings = {3}
    CustomMaxAttempts = {}
    BackoffBase = 1
    LongestDelay = 1
    QueueMax = 1
    MaxFaults = 1
    MaxCrashes = 1
    MaxExpiries = 1
    MaxRequests = 0
PROPERTY Progress
