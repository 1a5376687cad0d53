SPECIFICATION Spec
CONSTANTS
    Workers = {w1, w2, w3}
    StepTimeout = 3
    MaxSteps = 4
    LeaseTimeout = 3
    Margin = 1
    CloseTime = 1
INVARIANT AgeBounded
