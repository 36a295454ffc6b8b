----------------------------- MODULE MCResearch -----------------------------
(***************************************************************************)
(* The pure parts of the program on every short history.  A study is       *)
(* chosen, then candles print one at a time:                               *)
(*   trade   one trade and its hold limit, for the six walks that score it *)
(*   market  richer candles and a reading of the indicators, for the       *)
(*           features, the signals and the backtest                        *)
(*   folds   the sizes of an evaluation, for its splits (no candles)       *)
(*   stock   what is known of a stock, for its reports (no candles)        *)
(***************************************************************************)
EXTENDS Backtest, WalkForward, Assistant, StockReport

CONSTANTS
    MaxPrice,       \* bound: prices of a trade's candles are 0..MaxPrice
    MaxLength,      \* bound: candles of a trade
    Holds,          \* values of max_hold_bars
    Ceiling,        \* bound: prices of the market are 1..(Ceiling - 1)
    MarketLength,   \* bound: candles of a market
    Talks,          \* bound: the assistant is asked on candles up to this one
    Histories       \* bound: rows of an evaluation are 0..Histories

ASSUME ResearchAssumption ==
    /\ MaxPrice \in Nat /\ MaxLength \in Nat /\ MarketLength \in Nat /\ Talks \in Nat
    /\ Histories \in Nat
    /\ Holds \subseteq Nat \ {0} /\ \E longest \in Holds : \A hold \in Holds : hold <= longest
    /\ Ceiling \in Nat /\ Ceiling >= 8     \* the market has room for its shapes
    /\ Range(SectorNames) = {"Banking", "IT"} /\ Len(SectorNames) = 2    \* those of Indices

VARIABLES study, bars
vars == <<study, bars>>

Price == 0..MaxPrice

Trade == [direction : Direction, created : {1}, entry : Price,
          stop : Price \cup {None}, target : Price \cup {None}]

TradeStudies == [kind : {"trade"}, trade : Trade, maxHold : Holds]

\* A bullish reading, the same against the trend, a bearish one at the end of
\* its RSI range, a stretched one and one that is left to the heuristic.
Readings ==
    LET Reading(stack, trend, rsi, macd, bias) ==
          [stack |-> stack, trend |-> trend, trending |-> TRUE, rsi |-> rsi, macd |-> macd,
           bias |-> bias, conf |-> 60, atr |-> 1, wild |-> 2]
    IN  {Reading(1, 1, 60, 1, "BUY"), Reading(-1, -1, 55, 1, "BUY"),
         Reading(-1, None, 30, -1, "SELL"), Reading(-1, -1, 15, -1, "SELL"),
         Reading(1, 1, 50, 1, None)}

MarketStudies == [kind : {"market"}, reading : Readings, maxHold : {Max(Holds)}]

FoldStudies == [kind : {"folds"}, n : 0..Histories, folds : 1..3, h : 1..4]

\* Both ends of every bound the reports look at.
Stocks ==
    [history : {"thin", "enough"}, model : BOOLEAN,
     probs : {[up |-> 50, down |-> 30, flat |-> 20], [up |-> 30, down |-> 35, flat |-> 35],
              [up |-> 40, down |-> 40, flat |-> 20], [up |-> 30, down |-> 30, flat |-> 40]},
     chance : {TakeAt - 1, TakeAt}, close : {100}, atr : {0, 2, 3}, stack : -1..1, adx : {25},
     rsi : {0, 28, 71}, macd : {-1, 1}, ahead : {-2, 1}, past : {None, 55}, sector : {"IT"}]
Indices == [Banking : {[rs |-> 0, above |-> TRUE, slope |-> 1]},
            IT : {None, [rs |-> -2, above |-> FALSE, slope |-> 0], [rs |-> 2, above |-> TRUE, slope |-> 0],
                  [rs |-> -1, above |-> FALSE, slope |-> 0]}]

NseSectors == <<"Banking", "IT">>

StockStudies == [kind : {"stock"}, stock : Stocks, indices : Indices]

\* The candles of a market: solid ones of two sizes, long wicks, a doji, a
\* candle of one size inside another, and gaps between them.
Shape(open, high, low, close) == [open |-> open, high |-> high, low |-> low, close |-> close]
Half == Ceiling \div 2
Most == Ceiling - 1
SolidShapes ==
    {Shape(1, Half, 1, Half), Shape(Half, Half, 1, 1),
     Shape(Half, Most, Half, Most), Shape(Most, Most, Half, Half),
     Shape(2, Most - 1, 2, Most - 1)}
MarketShapes ==
    SolidShapes \cup {Shape(Half, Half, 2, Half), Shape(Half, Most - 1, Half, Half),
                     Shape(Half, Half + 1, Half - 1, Half)}

Init ==
    /\ study \in TradeStudies \cup MarketStudies \cup FoldStudies \cup StockStudies
    /\ bars = <<>>

\* A trade's history starts at its origin candle, which does not count.
TradeCandle ==
    /\ study.kind = "trade" /\ Len(bars) < MaxLength
    /\ \E low \in Price : \E high \in low..MaxPrice : \E close \in {low, high} :
          bars' = Append(bars, [ts |-> Len(bars) + 1, open |-> close, low |-> low,
                                high |-> high, close |-> close])
    /\ UNCHANGED study

\* The patterns with a doji or a long wick take fewer candles than the longest
\* market, whose last two candles are solid.
MarketCandle ==
    /\ study.kind = "market" /\ Len(bars) < MarketLength
    /\ Len(bars) = MarketLength - 1 => Last(bars) \in SolidShapes
    /\ \E shape \in IF Len(bars) < MarketLength - 1 THEN MarketShapes ELSE SolidShapes :
          bars' = Append(bars, shape)
    /\ UNCHANGED study

Finished ==
    /\ Len(bars) >= CASE study.kind = "trade" -> MaxLength
                      [] study.kind = "market" -> MarketLength - 1
                      [] study.kind \in {"folds", "stock"} -> 0
    /\ UNCHANGED vars

Next == TradeCandle \/ MarketCandle \/ Finished

Spec == Init /\ [][Next]_vars

-----------------------------------------------------------------------------
(* The trade. *)

IsTrade == study.kind = "trade"
IsStock == study.kind = "stock"
Answer == ResolvePrediction(study.trade, bars, study.maxHold)

\* Reference: the loop of the code, with its counter of bars held and the
\* verdict it returns with.
LoopStep(p, limit, last, bar) ==
    LET held == last.held + 1
    IN  IF last.verdict # None \/ bar.ts <= p.created THEN last
        ELSE [held |-> held,
              verdict |->
                IF HitStop(p, bar)
                THEN [status |-> "STOP_HIT", price |-> p.stop, gain |-> -1, risk |-> 1, holding |-> held]
                ELSE IF HitTarget(p, bar)
                THEN [status |-> "TARGET_HIT", price |-> p.target, gain |-> Abs(p.target - p.entry),
                      risk |-> Abs(p.entry - p.stop), holding |-> held]
                ELSE IF held >= limit
                THEN [status |-> "EXPIRED", price |-> bar.close,
                      gain |-> IF p.direction = "BUY" THEN bar.close - p.entry ELSE p.entry - bar.close,
                      risk |-> Abs(p.entry - p.stop), holding |-> held]
                ELSE None]

LoopAfter(p, limit) ==
    LET after[n \in 0..Len(bars)] ==
          IF n = 0 THEN [held |-> 0, verdict |-> None] ELSE LoopStep(p, limit, after[n - 1], bars[n])
    IN  after

Walk(p, limit) ==
    IF Tradeable(p) /\ p.stop # None /\ p.target # None THEN LoopAfter(p, limit)[Len(bars)].verdict ELSE None

AsCall(p) == [side |-> p.direction, clicked |-> p.created, entry |-> p.entry,
              stop |-> p.stop, tp1 |-> p.target]

\* Until the time barrier the tracker scores the trade alike, and a trade that
\* expired is one it had still open at that bar.
TrackerAgrees(p) ==
    LET call == AsCall(p)
        held == Held(p, bars, Len(bars))
        score == ResolveCall(call, bars)
    IN  CASE Answer = None -> score = OpenScore
          [] Answer # None /\ Answer.status = "EXPIRED" ->
                /\ Answer.holding = study.maxHold
                /\ ResolveCall(call, SubSeq(bars, 1, Len(bars) - (held - study.maxHold)))
                     = OpenScore
          [] OTHER -> /\ score.status = IF Answer.status = "STOP_HIT" THEN "LOSS" ELSE "WIN"
                      /\ score.price = Answer.price
                      /\ score.gain = Answer.gain /\ score.risk = Answer.risk
                      /\ score.time = p.created + Answer.holding

\* The backtest ends the trade on the same bar at the same price; only where
\* the data end does it close a trade the resolver leaves open.
BacktestAgrees(p) ==
    LET result == ResolveTrade(bars, 1, p.direction, p.stop, p.target, study.maxHold)
    IN  IF Answer = None
        THEN result.outcome = "timeout" /\ result.exit = Len(bars)
        ELSE /\ result.exit = 1 + Answer.holding
             /\ result.price = Answer.price
             /\ result.outcome = CASE Answer.status = "STOP_HIT" -> "loss"
                                   [] Answer.status = "TARGET_HIT" -> "win"
                                   [] Answer.status = "EXPIRED" -> "timeout"

\* The label the trade-selection model is trained on is the outcome the trade
\* gets, and the direction label is its sign where no bar touches both levels.
LabelsAgree(p) ==
    LET label == OutcomeLabel(bars, 1, study.maxHold, p.direction, p.entry, p.stop, p.target)
        barrier == p.target - bars[1].close
        direction == DirectionLabel(bars, 1, study.maxHold, barrier)
    IN  /\ label # None =>
             label = CASE Answer.status = "STOP_HIT" -> "STOP_FIRST"
                       [] Answer.status = "TARGET_HIT" -> "TARGET_FIRST"
                       [] Answer.status = "EXPIRED" -> "NO_MOVE"
        /\ p.direction = "BUY" /\ barrier > 0 /\ p.stop = bars[1].close - barrier =>
             /\ direction = "UP" => Answer.status = "TARGET_HIT"
             /\ direction = "DOWN" => Answer.status = "STOP_HIT"
             /\ direction = "NEUTRAL" => Answer.status # "TARGET_HIT"

\* The screener buys the stocks whose report recommends a trade, waits for those
\* whose report leans to one, and gives the levels of the report's plan.
ScreenerAgrees(basket) ==
    LET scan == ScanNse(basket)
        Report(k) == AnalyzeStock(basket[k], TRUE, study.indices)
        Leaning == {k \in DOMAIN basket : Report(k) # None /\ Report(k).leaning # None}
    IN  /\ {k \in DOMAIN basket : StockSetup(basket[k]) # None} = Leaning
        /\ \A k \in Leaning : StockSetup(basket[k]).levels = Report(k).plan
        /\ scan # None =>
             /\ Range(scan.buyNow) = {k \in Leaning : Report(k).recommendation # "WAIT"}
             /\ Range(scan.waiting) = Leaning \ Range(scan.buyNow)
        /\ scan = None => \E k \in DOMAIN basket : Report(k) = None \/ Report(k).recommendation = "WAIT"

\* The program scores a trade in six places: forward testing, the call tracker
\* it "mirrors" (resolver.py:8-12), the backtest, the outcome labels and the
\* direction labels.  They agree on what happened, the bar and the price; and the
\* declarative resolver the other modules and the proofs use answers as the loop
\* of resolve_prediction does, ties, limits and missing levels included.  So do the
\* two copies of the stock trade, the screener's and the report's, unless the
\* stock's ATR is 0, which only the report makes up for.
ScorersAgree ==
    /\ IsTrade => Answer = Walk(study.trade, study.maxHold)
    /\ IsTrade /\ Resolvable(study.trade) /\ bars # <<>> =>
        /\ TrackerAgrees(study.trade)
        /\ BacktestAgrees(study.trade)
        /\ LabelsAgree(study.trade)
    /\ IsStock /\ study.stock.atr # 0 =>
         ScreenerAgrees(<<study.stock, [study.stock EXCEPT !.chance = TakeAt]>>)

-----------------------------------------------------------------------------
(* The market. *)

IsMarket == study.kind = "market"

\* What a model is given of bar i, of all its features but the order blocks.
FeaturesAt(frame, i) ==
    [structure |-> StructureAt(frame, i), gap |-> FairValueGap(frame, i),
     liquidity |-> LiquidityPools(frame, i), patterns |-> CorePatterns(frame, i),
     confluence |-> Confluence(frame, i, study.reading.stack),
     channel |-> Donchian(frame, i), range |-> TrueRange(frame, i),
     move |-> DirectionalMove(frame, i), pivots |-> PivotPoints(frame, i),
     supertrend |-> Supertrend(frame, i, study.reading.atr)]

\* "Changing a FUTURE candle must NOT change any feature value at an earlier
\* bar" (tests/test_feature_leakage.py:5): the features of the bars there are
\* stay what they are when the next bar prints.
NoLookahead ==
    IsMarket => \A i \in 1..(Len(bars) - 1) : FeaturesAt(bars, i) = FeaturesAt(Front(bars), i)

\* The same of the order blocks, which are features of the model too
\* (engineering.py:58-59) and "computed causally" (smc.py:5-7).
OrderBlocksAreCausal ==
    IsMarket => \A i \in 1..(Len(bars) - 1) : OrderBlock(bars, i) = OrderBlock(Front(bars), i)

\* The market upside down.
Inverted(frame) ==
    [i \in 1..Len(frame) |-> Shape(Ceiling - frame[i].open, Ceiling - frame[i].low,
                                   Ceiling - frame[i].high, Ceiling - frame[i].close)]
Opposite(side) == CASE side = "BUY" -> "SELL" [] side = "SELL" -> "BUY" [] OTHER -> "WAIT"
InvertedReading(r) ==
    [r EXCEPT !.stack = -@, !.trend = IF @ = None THEN None ELSE -@, !.rsi = 100 - @,
              !.macd = -@, !.bias = Opposite(@)]

Directed == UNION {{t[1], t[2]} : t \in Twins}
TwinOf == [name \in Directed |->
             CHOOSE twin \in Directed : {<<name, twin>>, <<twin, name>>} \cap Twins # {}]
SwapNames(names) == {TwinOf[name] : name \in names \cap Directed}

InvertedStock(s) ==
    [s EXCEPT !.probs = [up |-> @.down, down |-> @.up, flat |-> @.flat], !.stack = -@,
              !.rsi = 100 - @, !.macd = -@, !.ahead = -@]
InvertedIndices(indices) ==
    [name \in DOMAIN indices |->
        IF indices[name] = None THEN None
        ELSE [rs |-> -indices[name].rs, above |-> ~indices[name].above, slope |-> -indices[name].slope]]

\* A stock's report on a side, the sector's rank apart, and the same of the stock
\* whose prices are turned round its last close.
ReportIsMirrored(s, indices) ==
    LET report == AnalyzeStock(s, TRUE, indices)
        mirror == AnalyzeStock(InvertedStock(s), TRUE, InvertedIndices(indices))
        twin == [Strong |-> "Weak", Weak |-> "Strong", Neutral |-> "Neutral", Unknown |-> "Unknown"]
    IN  IF report = None THEN mirror = None
        ELSE report.leaning # None =>
          /\ mirror.recommendation = Opposite(report.recommendation)
          /\ mirror.leaning = Opposite(report.leaning)
          /\ mirror.plan = [level \in DOMAIN report.plan |-> 4 * s.close - report.plan[level]]
          /\ mirror.state = [report.state EXCEPT !.trend = -@]
          /\ mirror.sector.label = twin[report.sector.label]
          /\ mirror.reasons = report.reasons

\* Every rule switched on with its default threshold.
AllRules == [rule \in DOMAIN Defaults |-> [enabled |-> TRUE, value |-> None]]

StructureIsTurned(here, there) ==
    \A field \in {"trend", "bos", "choch"} : there[field] = -here[field]

\* The signal of the market and that of the inverted one.
SignalIsMirrored(signal, opposite, flip) ==
    /\ opposite.decision = Opposite(signal.decision)
    /\ signal.plan # None => opposite.plan.stop = Ceiling - signal.plan.stop
    /\ \A news \in {-40, 0, 40} :
         CheckRules(AllRules, opposite, flip, InvertedReading(study.reading), -news, 1)
           = CheckRules(AllRules, signal, bars, study.reading, news, 1)

\* A rising and a falling market are read alike: inverting the prices swaps
\* every pattern for its twin, turns the structure, the gaps, the order blocks
\* and the liquidity round, and turns the signal and its plan round; the user's
\* checklist and a stock's report say the same of both.  A candle
\* that closes where it opened counts as buying volume, a bar that is near both
\* ends of its channel is read as bearish, the heuristic counts a SuperTrend that
\* never turns, as likely up as down is up, and an RSI of 0 is 50; none of them is
\* claimed about.
MirrorSymmetry ==
    /\ IsStock /\ study.stock.probs.up # study.stock.probs.down /\ study.stock.rsi # 0 =>
         ReportIsMirrored(study.stock, study.indices)
    /\ IsMarket /\ bars # <<>> =>
        LET i == Len(bars)
            flip == Inverted(bars)
        IN  /\ CorePatterns(flip, i) \cap Directed = SwapNames(CorePatterns(bars, i))
            /\ ExtendedPatternsAt(flip, i) \cap Directed = SwapNames(ExtendedPatternsAt(bars, i))
            /\ StructureIsTurned(StructureAt(bars, i), StructureAt(flip, i))
            /\ FairValueGap(flip, i) = -FairValueGap(bars, i)
            /\ \A k \in 1..i : OrderBlock(flip, k) = -OrderBlock(bars, k)
            /\ LiquidityPools(flip, i).sell = LiquidityPools(bars, i).buy
            /\ TrueRange(flip, i) = TrueRange(bars, i)
            /\ DirectionalMove(flip, i).plus = DirectionalMove(bars, i).minus
            /\ study.reading.bias # None /\ bars[i].close # bars[i].open
               /\ ~(NearSupport(bars, i) /\ NearResistance(bars, i)) =>
                 SignalIsMirrored(Analyze(bars, study.reading),
                                  Analyze(flip, InvertedReading(study.reading)), flip)

\* A trade the data ended, which the next bar may go on with.
CutShort(trade) == trade.outcome = "timeout" /\ trade.exit < trade.entry + study.maxHold

\* The bars a signal is given at, for the backtest of the outcome model.
Candidates(frame) ==
    {i \in 1..Len(frame) : Analyze(Context(frame, i), study.reading).decision # "WAIT"}

\* The trades of a history, after those of the history without its last bar.
TradesStand(earlier, trades) ==
    /\ Len(earlier) <= Len(trades)
    /\ \A k \in 1..Len(earlier) :
         /\ trades[k].entry = earlier[k].entry /\ trades[k].side = earlier[k].side
         /\ CutShort(earlier[k]) \/ trades[k] = earlier[k]

\* The trades taken of the candidates.
BookStands(book, candidates) ==
    /\ \A k, m \in 1..Len(book) : k < m => book[k].exit < book[m].entry
    /\ \A bar \in candidates :
         \E k \in 1..Len(book) : book[k].entry <= bar /\ bar <= book[k].exit

\* "The decision at bar i uses only candles [0..i]", and there is "one position
\* at a time" (backtest/engine.py:9-15): with more data the backtest makes the
\* same trades first, those that were over unchanged.  It and the outcome backtest
\* open no trade before the one before it is closed, and pass over no signal but
\* for a position they have open.
BacktestStands ==
    IsMarket /\ bars # <<>> =>
        LET trades == RunBacktest(bars, study.reading, study.maxHold)
            candidates == Candidates(bars)
        IN  /\ TradesStand(RunBacktest(Front(bars), study.reading, study.maxHold), trades)
            /\ BookStands(trades, DOMAIN Offers(bars, study.reading, study.maxHold))
            /\ BookStands(Simulate(candidates, Len(bars), study.maxHold), candidates)

-----------------------------------------------------------------------------
(* The assistant. *)

\* Every group of words by itself, with the side it may name, and a pattern.
Messages ==
    [words : {words \in SUBSET {"here", "safe", "why", "stop", "risk", "target", "where", "buy",
                                "sell", "direction", "hi"} :
                Cardinality(words \ {"buy", "sell"}) <= 1 /\ ~({"buy", "sell"} \subseteq words)},
     pattern : {None}]
    \cup [words : {{"safe"}}, pattern : {"engulf_bull"}]

\* The taps: every price of the chart, a third of a unit above one, and one
\* that no trade can be built at.
Taps == {3 * price : price \in 0..Ceiling} \cup {3 * Half + 1}

OneSided(marks) ==
    \/ marks.stop < marks.entry /\ marks.entry < marks.tp1 /\ marks.tp1 < marks.tp2
    \/ marks.stop > marks.entry /\ marks.entry > marks.tp1 /\ marks.tp1 > marks.tp2

\* The assistant never answers with another decision than the signal's, and
\* draws a full plan only with its stop on the losing side.
Consistent(signal, reply) ==
    /\ reply.decision \in {None, signal.decision}
    /\ None \notin {reply.marks[line] : line \in DOMAIN reply.marks} => OneSided(reply.marks)
    /\ signal.decision = "WAIT" /\ reply.marks.tp1 # None => reply.about \in {"what_if", "watch"}

\* "Tap a price -> is this a good place to trade?": a side the assistant picks
\* itself is never one it calls a bad spot, and the AI's trade it is compared
\* with risks as much.  The lines are drawn at the tap.  The entry the reply
\* names is half a cent off at the most, so that it stays within the trade
\* where a cent is no wider than the trade's two stops.
TapIsFair(answer, words, tap) ==
    LET trade == answer.reply.trade
    IN  /\ words \cap {"buy", "sell"} = {} => PlaceVerdict(bars, trade.side, tap) # "bad"
        /\ Abs(answer.ai.stop - tap) = Abs(trade.stop - tap)
        /\ answer.reply.marks = [line \in DOMAIN NoMarks |-> IF line = "entry" THEN tap ELSE trade[line]]
        /\ 2 * Abs(trade.entry - tap) <= Cent
        /\ Cent <= 2 * Abs(trade.stop - tap) =>
              trade.entry \in (trade.stop..trade.tp1) \cup (trade.tp1..trade.stop)

\* x is at most y, or above it by half a cent or less.
AtMostToTheCent(x, y) == 2 * (x - y) <= Cent

\* The price watched for is inside the channel and no worse than the last one,
\* to the cent: where a price is a few cents it may leave the channel.  Nothing
\* is drawn only where half a cent is a price of the channel.
WatchIsBetter(signal, reply) ==
    LET channel == Donchian(bars, Len(bars))
        watched == reply.marks.entry
        last    == 3 * signal.entry
    IN  IF reply.marks = NoMarks THEN AtMostToTheCent(3 * channel.lower, 0)
        ELSE /\ AtMostToTheCent(3 * channel.lower, watched)
             /\ AtMostToTheCent(watched, 3 * channel.upper)
             /\ IF reply.marks.stop < watched THEN AtMostToTheCent(watched, last)
                                              ELSE AtMostToTheCent(last, watched)

\* A message, with the model failing and with the model answering.
MessageIsGrounded(signal, reply, retold) ==
    /\ Consistent(signal, reply)
    /\ retold.marks = reply.marks
    /\ reply.about = "watch" => WatchIsBetter(signal, reply)

TapIsGrounded(signal, answer, words, tap) ==
    /\ Consistent(signal, answer.reply)
    /\ answer.reply.about = "what_if" => TapIsFair(answer, words, tap)

Grounded(signal) ==
    LET Ask(message, tap, llm) == Chat(signal, bars, study.reading, message, tap, llm)
    IN  /\ \A message \in Messages :
             MessageIsGrounded(signal, Ask(message, None, "fails").reply,
                               Ask(message, None, "answers").reply)
        /\ \A tap \in Taps, words \in {{}, {"buy"}, {"sell"}} :
             TapIsGrounded(signal, Ask([words |-> words, pattern |-> None], tap, "unavailable"),
                           words, tap)

\* What the assistant draws on the chart is a trade one could take, whatever
\* was asked, and stays as it is when the language model words the answer.  The
\* entry it names is that of the lines to half a cent (assistant.py:163-172,
\* :201-215), no nearer.
AssistantIsGrounded ==
    IsMarket /\ Len(bars) \in Channel..Talks => Grounded(Analyze(bars, study.reading))

-----------------------------------------------------------------------------
(* The folds. *)

\* "Every value is out-of-sample" (outcome_backtest.py:39-41): so it is in the
\* evaluations by bars, of the models they fit.  The "Out-of-sample AUC" of
\* meta.py:226 is of calls made later, not of calls made after the fitted ones
\* were decided, and the samples of outcome_training, "non-overlapping" with a
\* final slice held back (:7), do overlap, and the slice is never judged.
OutOfSample ==
    study.kind = "folds" =>
        /\ IsOutOfSample(study.n, study.folds, study.h)
        /\ LeavesOpen(study.n, study.folds, study.h)

=============================================================================
