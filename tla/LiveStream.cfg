\* Four bars, two messages on the wire and three faults; the buffer overflows.
SPECIFICATION FairSpec
CONSTANTS
    None = None
    btc = btc
    Symbol = btc
    Symbols <- TheSymbol
    Shapes <- TwoShapes
    Openings <- FlatOpening
    ServesForming = TRUE
    MaxBars = 4
    HistoryLen = 2
    BufferLen = 3
    MaxWire = 2
    MaxFaults = 3
INVARIANTS
    ClosedOnceAndFinal
PROPERTY
    ChartCatchesUp
CHECK_DEADLOCK FALSE
