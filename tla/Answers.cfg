SPECIFICATION Spec
CONSTANTS
    None = None
    Budget = 2000
    Marker = 11
    MaxSessions = 1
    MaxTurns = 3
    Messages <- MCMessages
    InitialStores <- MCInitialStores
    Arrivals <- MCArrivals
    Reads <- MCReads
    Sizes <- MCSizes
    Failures <- MCFailures
CHECK_DEADLOCK FALSE
INVARIANTS
    TranscriptIsSound
    AnswersAreCited
    ConfidenceIsOfTheEvidence
    TrimsOnlyWhatItMust
