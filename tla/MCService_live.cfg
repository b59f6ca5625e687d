\* Creations, visits and clicks share a pool of two connections.
SPECIFICATION FairSpec
CONSTANTS
    p1 = p1
    p2 = p2
    v1 = v1
    v2 = v2
    c1 = c1
    c2 = c2
    u1 = u1
    u2 = u2
    f1 = f1
    NoRow = NoRow
    Nobody = Nobody
    Miss = Miss
    NoCode = NoCode
    Generated = Generated
    Creates <- TwoCreates
    Visits <- TwoVisits
    Readers <- NoReader
    Codes <- OneCode
    LongUrls <- OneUrl
    Lifetimes <- NeverOnly
    Expiries <- NeverOnly
    Reserved <- NoneReserved
    PoolSize = 2
    MaxTime = 0
    MaxFaults = 0
    MaxRetries = 1
    Referrers <- OneReferrer
    RecentLimit = 1
    TopLimit = 1
    RedisStates <- UpDownOrHung
PROPERTIES
    EveryCreateAnswered
    EveryVisitAnswered
    EveryClickCounted
CHECK_DEADLOCK FALSE
