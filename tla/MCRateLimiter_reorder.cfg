\* Two scripts run in the opposite order of their timestamps.
SPECIFICATION Spec
CONSTANTS
    c1 = c1
    r1 = r1
    r2 = r2
    r3 = r3
    Clients <- OneClient
    Requests <- TwoRequests
    KeyOf <- BothRedirect
    Capacity <- CapacitySmall
    RefillPerMinute <- RefillSmall
    Minute = 3
    Second = 2
    Slack = 2
    MaxLag = 1
    MaxAhead = 0
    MaxTime = 10
    MaxRegress = 2
INVARIANTS
    SkewCostsOnce
