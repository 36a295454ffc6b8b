SPECIFICATION FairSpec
CONSTANTS
    None = None
    sym = sym
    w1 = w1
    w2 = w2
    r1 = r1
    Symbols <- OneSymbol
    Requests <- BuyOrWait
    StatusWrites <- ToPending
    Workers <- TwoWorkers
    Loops <- OneWorker
    Readers <- OneReader
    Shapes <- FlatUp
    Openings <- FlatOpening
    MaxHold = 2
    Window = 2
    ServesForming = FALSE
    MaxBars = 2
    MaxRows = 2
INVARIANTS
    VerdictIsReplay
    NeverCountedTwice
PROPERTY
    ImplementsLedger
    DecidedIsSettled
