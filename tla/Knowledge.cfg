\* Four predictions, pages of two, a cap of two candidates.
SPECIFICATION Spec
CONSTANTS
    None = None
    btc = btc
    eth = eth
    bull = bull
    Ids = {1, 2, 3, 4}
    Context <- TheContext
    Outcomes <- TheOutcomes
    Groups <- TheGroups
    PValue <- ThePValue
    Filters <- TheFilters
    Threshold <- AnyScore
    Certain = 10000
    Alpha = 2000
    Z2 = 1
    MinCorpus = 2
    MinEvidence = 2
    MinSample = 2
    Moderate = 3
    Strong = 4
    MinSignificance = 2
    MinMeaningful = 3
    PageSize = 2
    CandidateCap = 2
    Neighbourhood = 1
    InitialTables <- TheTables
    MaxWalks = 1
    MaxWrites = 1
    MaxFaults = 1
INVARIANTS
    RecommendationsStand
    FamilyIsCorrected
    ReportsAgree
    NeighboursAreTheNearest
PROPERTY
    BackfillLeavesNone
CHECK_DEADLOCK FALSE
