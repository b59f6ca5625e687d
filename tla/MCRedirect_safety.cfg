\* Two visits and a report, over two codes, with a failure and a Redis that comes
\* and goes.
SPECIFICATION MeteredSpec
CONSTANTS
    v1 = v1
    v2 = v2
    s1 = s1
    c1 = c1
    c2 = c2
    p1 = p1
    u1 = u1
    u2 = u2
    f1 = f1
    f2 = f2
    NoRow = NoRow
    Nobody = Nobody
    Miss = Miss
    NoCode = NoCode
    Creates <- OneCreate
    Visits <- TwoVisits
    Readers <- OneReader
    Codes <- TwoCodes
    LongUrls <- TwoUrls
    Expiries <- NeverOrSoon
    PoolSize = 2
    MaxTime = 1
    MaxFaults = 1
    Referrers <- TwoReferrers
    RecentLimit = 1
    TopLimit = 1
    RedisStates <- UpOrDown
SYMMETRY Interchangeable
INVARIANTS
    TypeOK
    CacheCoherent
    ClicksAccountedFor
    ReportNeverOverCounts
    RedirectsReconcile
    LookupsReconcile
    RedisSparesRedirects
PROPERTIES
    NeverServesExpired
    RefinesIdealRedirect
CHECK_DEADLOCK FALSE
