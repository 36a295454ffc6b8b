SPECIFICATION Spec
CONSTANTS
    None = None
    btc = btc
    l1 = l1
    l2 = l2
    g1 = g1
    g2 = g2
    AutoLoop = autoLoop
    Symbols <- OneMarket
    Listers <- TwoListers
    Loggers <- OneLogger
    Taps <- TapAsAi
    Picks <- PickShort
    Bands <- OneBand
    Undo <- UndoOne
    Settings <- OnOff
    Clears = TRUE
    Crashes = TRUE
    Shapes <- FlatUp
    Openings <- FlatOpening
    ListWindow = 3
    PickWindow = 1
    MaxBars = 2
    MaxCalls = 2
    ServesForming = TRUE
SYMMETRY Symmetry
INVARIANTS
    RoundDecidedTogether
    DecidedAtFirstTouch
    OneAiPickPerCandle
PROPERTY
    NothingComesBack
