\* Scripts may run late, and clocks may be ahead of Redis's clock.
SPECIFICATION Spec
CONSTANTS
    c1 = c1
    r1 = r1
    r2 = r2
    r3 = r3
    Clients <- OneClient
    Requests <- TwoRequests
    KeyOf <- BothRedirect
    Capacity <- CapacitySmall
    RefillPerMinute <- RefillSmall
    Minute = 3
    Second = 2
    Slack = 2
    MaxLag = 1
    MaxAhead = 1
    MaxTime = 8
    MaxRegress = 2
SYMMETRY TwoAlike
INVARIANTS
    TypeOK
    BoundedOverAdmission
PROPERTIES
    ExpiryLosesNothing
    RefinesIdealBucket
