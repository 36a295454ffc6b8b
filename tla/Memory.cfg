SPECIFICATION FairSpec
CONSTANTS
    all = all
    odd = odd
    b1 = b1
    b2 = b2
    MaxPredictions = 2
    Buckets <- TwoBuckets
    BucketsOf <- OddsApart
    Builders <- TwoBuilders
    Retrying <- OneBuilder
    Limits <- NoLimit
    WritesFail = TRUE
INVARIANTS
    MemoryIsOfTheCompleted
PROPERTY
    VectorsSurvive
    RollupsConverge
