\* Three requests race for two codes while the database and the process fail.
SPECIFICATION Spec
CONSTANTS
    p1 = p1
    p2 = p2
    p3 = p3
    c1 = c1
    c2 = c2
    u1 = u1
    NoRow = NoRow
    Nobody = Nobody
    Generated = Generated
    Creates <- ThreeCreates
    Codes <- TwoCodes
    LongUrls <- OneUrl
    Lifetimes <- OneDay
    PoolSize = 2
    MaxTime = 1
    MaxFaults = 2
    MaxRetries = 2
INVARIANTS
    TypeOK
    CreatedIsDurable
    ConflictIsReal
    RefusedLeavesNoRow
    AnsweredHoldsNothing
PROPERTIES
    RowsImmutable
    RefinesCodeRegistry
CHECK_DEADLOCK FALSE
