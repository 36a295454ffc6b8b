\* Every graph over three steps and every loop-free choice over four.
SPECIFICATION FairSpec
CONSTANTS
    None = None
    IllTyped = IllTyped
    Definitions <- AllDefinitions
    MaxEvents = 3
INVARIANT
    VerdictIsRight
PROPERTIES
    RunReachesItsEnd
    RunKeepsItsRecord
CHECK_DEADLOCK FALSE
