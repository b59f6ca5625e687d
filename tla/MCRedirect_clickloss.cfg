\* One failure after the 302: the click is gone.
SPECIFICATION MeteredSpec
CONSTANTS
    v1 = v1
    v2 = v2
    s1 = s1
    c1 = c1
    c2 = c2
    p1 = p1
    u1 = u1
    u2 = u2
    f1 = f1
    f2 = f2
    NoRow = NoRow
    Nobody = Nobody
    Miss = Miss
    NoCode = NoCode
    Creates <- OneCreate
    Visits <- TwoVisits
    Readers <- NoReader
    Codes <- OneCode
    LongUrls <- OneUrl
    Expiries <- NeverOnly
    PoolSize = 1
    MaxTime = 0
    MaxFaults = 1
    Referrers <- OneReferrer
    RecentLimit = 1
    TopLimit = 1
    RedisStates <- UpOrDown
INVARIANTS
    ClickCountMatchesRedirects
CHECK_DEADLOCK FALSE
