SPECIFICATION MCSpec
CONSTANTS
    Tasks = {t1}
    Workers = {w1, w2}
    NoTask = NoTask
    MaxAttemptsSettings = {1}
    CustomMaxAttempts = {}
    BackoffBase = 1
    LongestDelay = 1000
    QueueMax = 2
    MaxFaults = 1
    MaxCrashes = 0
    MaxExpiries = 1
    MaxRequests = 0
PROPERTY CompletedIsFinal
