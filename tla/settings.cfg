SPECIFICATION MCFairSpec
CONSTANTS
    Keys = {k1, k2}
    Releases <- MCReleases
    Calls = {c1, c2}
    NoCall = NoCall
    NoKey = NoKey
    MaxUpdates = 2
    OldField = old
    NewField = new
INVARIANTS SettingsTypeOK OneFill Bootstrapped
PROPERTIES MonotonicReads EveryCallReturns
