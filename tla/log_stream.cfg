SPECIFICATION MCFairSpec
CONSTANTS
    Clients = {c1, c2}
    BufferSize = 2
    SubscriberMax = 2
    MaxRecords = 4
INVARIANTS StreamTypeOK InOrder Complete
PROPERTY Delivered
CHECK_DEADLOCK FALSE
