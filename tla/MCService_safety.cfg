\* Two creations with different destinations and two visits, over two codes of which
\* one spells another route, with a Redis that stays up.
SPECIFICATION Spec
CONSTANTS
    p1 = p1
    p2 = p2
    v1 = v1
    v2 = v2
    c1 = c1
    c2 = c2
    u1 = u1
    u2 = u2
    f1 = f1
    NoRow = NoRow
    Nobody = Nobody
    Miss = Miss
    NoCode = NoCode
    Generated = Generated
    Creates <- TwoCreates
    Visits <- TwoVisits
    Readers <- NoReader
    Codes <- TwoCodes
    LongUrls <- TwoUrls
    Lifetimes <- NeverOrSoon
    Expiries <- NeverOrSoon
    Reserved <- OneReserved
    PoolSize = 2
    MaxTime = 1
    MaxFaults = 1
    MaxRetries = 1
    Referrers <- OneReferrer
    RecentLimit = 1
    TopLimit = 1
    RedisStates <- UpOnly
SYMMETRY Interchangeable
INVARIANTS
    HoldersGoOn
    SomebodyGoesOn
    CreatedIsFound
    RedirectsAgree
    RedirectIsRequested
PROPERTIES
    RefinesIdealService
CHECK_DEADLOCK FALSE
