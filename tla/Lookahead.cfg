SPECIFICATION Spec
CONSTANTS
    None = None
    TakeAt = 55
    SectorNames <- NseSectors
    MaxPrice = 2
    MaxLength = 3
    Holds = {1, 2}
    Ceiling = 8
    MarketLength = 5
    Talks = 4
    Histories = 30
    Width = 1
    MinGap = 1
    Lookback = 3
    TrendLag = 3
    WaveSpan = 3
    Channel = 3
    AtrPeriod = 2
    Nearness = 1
    Cent = 6
    MinConfidence = 45
    MinConfirmations = 3
    MinRewardRisk = 20
    Warmup = 1
    Window = 3
INVARIANTS
    OrderBlocksAreCausal
