\* One of the codes spells the path of another route.
SPECIFICATION Spec
CONSTANTS
    p1 = p1
    p2 = p2
    v1 = v1
    v2 = v2
    c1 = c1
    c2 = c2
    u1 = u1
    u2 = u2
    f1 = f1
    NoRow = NoRow
    Nobody = Nobody
    Miss = Miss
    NoCode = NoCode
    Generated = Generated
    Creates <- TwoCreates
    Visits <- TwoVisits
    Readers <- NoReader
    Codes <- TwoCodes
    LongUrls <- OneUrl
    Lifetimes <- NeverOnly
    Expiries <- NeverOnly
    Reserved <- OneReserved
    PoolSize = 2
    MaxTime = 0
    MaxFaults = 0
    MaxRetries = 1
    Referrers <- OneReferrer
    RecentLimit = 1
    TopLimit = 1
    RedisStates <- UpOrDown
INVARIANTS
    CreatedIsReachable
CHECK_DEADLOCK FALSE
