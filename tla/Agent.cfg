SPECIFICATION FairSpec
CONSTANTS
    None = None
    s1 = s1
    Names <- FourNames
    Tools <- ThreeTools
    Goals <- TwoGoals
    Rules <- TwoRules
    Tasks <- AllTasks
    Writes <- WriteTools
    Restricted <- RestrictedTools
    Policies <- FivePolicies
    Catalogs <- WithAndWithout
    Sessions <- OneSession
    MaxRestarts = 1
INVARIANTS
    OnlySettledWork
    AuditTellsTheRun
    AdviceCanBePlanned
PROPERTY
    PlanFitsTask
    EveryRequestEnds
