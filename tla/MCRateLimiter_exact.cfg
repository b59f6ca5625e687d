\* One clock, no delay: the limiter is exactly the bucket it promises.
SPECIFICATION Spec
CONSTANTS
    c1 = c1
    r1 = r1
    r2 = r2
    r3 = r3
    Clients <- OneClient
    Requests <- ThreeRequests
    KeyOf <- TwoRedirectsOneCreate
    Capacity <- CapacitySmall
    RefillPerMinute <- RefillSmall
    Minute = 5
    Second = 2
    Slack = 1
    MaxLag = 0
    MaxAhead = 0
    MaxTime = 7
    MaxRegress = 0
SYMMETRY TwoAlike
INVARIANTS
    AdmissionBound
    RetryAfterHonoured
PROPERTIES
    ExpiryLosesNothing
    RefinesIdealBucket
