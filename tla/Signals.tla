------------------------------ MODULE Signals ------------------------------
(***************************************************************************)
(* From candles to a signal and its checklist: the confirmation gate       *)
(* (app/decision/engine.py), the risk plan (app/risk/manager.py), the      *)
(* service that joins them (app/service.py) and the user's own rules       *)
(* (app/decision/rules.py).                                                *)
(*                                                                         *)
(* The structural and candle features come from the modules below; what    *)
(* the moving averages, oscillators and the model say of the last bar is   *)
(* given as a `reading':                                                   *)
(*   stack     sign of the order of ema_9, ema_21, ema_50 (0: neither)     *)
(*   trend     sign of ema_50 - ema_200, None without enough history       *)
(*   trending  adx >= 20                                                   *)
(*   rsi       0..100                                                      *)
(*   macd      sign of macd_hist                                           *)
(*   bias      the model's direction; conf, its confidence in per cent;    *)
(*             None where there is no model and the heuristic stands in    *)
(*   atr       1.5 ATR in units of price, the distance of the stop         *)
(*   wild      100 * atr / close in per cent                               *)
(***************************************************************************)
EXTENDS CandlePatterns

CONSTANTS
    MinConfidence,      \* settings.min_confidence, per cent
    MinConfirmations,   \* settings.min_confirmations, 1..5
    MinRewardRisk       \* settings.min_rr, in tenths

ASSUME SignalAssumption ==
    /\ MinConfidence \in 0..100
    /\ MinConfirmations \in 1..5
    /\ MinRewardRisk \in Nat \ {0}
    /\ None \notin [stop : Int, target : Int, target2 : Int, rr : Int]

\* float(row.get("rsi", 50) or 50): an RSI of exactly 0 is read as 50.
RsiOf(reading) == IF reading.rsi = 0 THEN 50 ELSE reading.rsi

\* volume_delta: a candle that closes where it opened counts as buying.
BuyingVolume(b) == b.close >= b.open

\* candle_body_pct above 0.3, either way.
DecisiveBody(b) == Span(b) > 0 /\ 10 * Body(b) > 3 * Span(b)

-----------------------------------------------------------------------------

\* Mutant of RsiRange: the lower bound is not turned for shorts.
UnturnedRange(side) == IF side = "BUY" THEN 45..72 ELSE 45..55

\* Where momentum confirms a side.
RsiRange(side) == IF side = "BUY" THEN 45..72 ELSE 28..55

\* The confirmations of bar b that hold in the direction of the bias.
Confirmed(b, reading, structure, patterns, confluence) ==
    IF reading.bias = "BUY"
    THEN Fired([trend |-> reading.stack > 0 /\ reading.trending,
                volume |-> BuyingVolume(b),
                momentum |-> reading.macd > 0 /\ RsiOf(reading) \in RsiRange("BUY"),
                structure |-> structure.trend > 0 \/ structure.bos > 0,
                candlestick |-> /\ BullScore(patterns) > 0 \/ (Bull(b) /\ DecisiveBody(b))
                                /\ confluence >= 0])
    ELSE Fired([trend |-> reading.stack < 0 /\ reading.trending,
                volume |-> ~BuyingVolume(b),
                momentum |-> reading.macd < 0 /\ RsiOf(reading) \in RsiRange("SELL"),
                structure |-> structure.trend < 0 \/ structure.bos < 0,
                candlestick |-> /\ BearScore(patterns) > 0 \/ (Bear(b) /\ DecisiveBody(b))
                                /\ confluence <= 0])

Confirmations(bars, reading) ==
    LET i == Len(bars)
    IN  Confirmed(bars[i], reading, StructureAt(bars, i), CorePatterns(bars, i),
                  Confluence(bars, i, reading.stack))

\* The chances and the confidence that signs tilt, in units of 1/300.
Tilted(tilt) ==
    LET Clip(p) == IF p < 15 THEN 15 ELSE IF p > 270 THEN 270 ELSE p
        up == Clip(99 + 40 * tilt)
        down == Clip(99 - 40 * tilt)
    IN  [up |-> up, down |-> down, side |-> Max2(15, 300 - up - down),
         conf |-> (120 + 10 * Abs(tilt)) \div 3]

\* HeuristicPredictor.predict: six signs of the last bar, of which the
\* SuperTrend is one.
HeuristicPrediction(bars, reading) ==
    LET i == Len(bars)
        score == 2 * Flag(reading.stack > 0) + Flag(reading.macd > 0) + Flag(reading.rsi > 50)
                 + Flag(Supertrend(bars, i, 2 * reading.atr).direction > 0)
                 + Flag(StructureAt(bars, i).trend > 0)
    IN  Tilted(score - 3)

\* ModelPrediction.direction: ties go to BUY, then to SELL.
Direction3(chances) ==
    LET most == Max2(chances.up, Max2(chances.down, chances.side))
    IN  CASE most = chances.up -> "BUY"
          [] most # chances.up /\ most = chances.down -> "SELL"
          [] OTHER -> "WAIT"

\* AnalysisService.predictor: the model if there is one, else the heuristic.
Predicted(bars, reading) ==
    LET Read(guess) == [reading EXCEPT !.bias = Direction3(guess), !.conf = guess.conf]
    IN  IF reading.bias # None THEN reading ELSE Read(HeuristicPrediction(bars, reading))

\* DecisionEngine.evaluate: a majority of the confirmations and the confidence.
Evaluate(bars, reading) ==
    IF /\ reading.bias \in Side
       /\ Cardinality(Confirmations(bars, reading)) >= MinConfirmations
       /\ reading.conf >= MinConfidence
    THEN reading.bias ELSE "WAIT"

\* RiskManager.build_plan with tp1_r = 2 and tp2_r = 3; None without a side or
\* a range.
BuildPlan(side, entry, distance) ==
    LET sign == IF side = "BUY" THEN 1 ELSE -1
    IN  IF side \notin Side \/ distance <= 0 \/ entry <= 0 THEN None
        ELSE [stop |-> entry - sign * distance,
              target |-> entry + 2 * sign * distance,
              target2 |-> entry + 3 * sign * distance,
              rr |-> 20]

MeetsMinRewardRisk(plan) == plan # None /\ plan.rr >= MinRewardRisk

\* A side that has no plan worth taking becomes WAIT.
Signal(side, conf, entry, distance) ==
    LET plan == BuildPlan(side, entry, distance)
    IN  IF MeetsMinRewardRisk(plan)
        THEN [decision |-> side, conf |-> conf, entry |-> entry, plan |-> plan]
        ELSE [decision |-> "WAIT", conf |-> conf, entry |-> entry, plan |-> None]

\* AnalysisService.analyze on the frame `bars'.
Analyze(bars, reading) ==
    LET Judged(predicted) == Signal(Evaluate(bars, predicted), predicted.conf,
                                    bars[Len(bars)].close, reading.atr)
    IN  Judged(Predicted(bars, reading))

\* AnalysisService.ai_direction for a model whose chances are taken as they
\* are: even where the signal is to wait, the AI has a side.  That the chances of
\* the network are compared with their own median is left out, and of a model
\* that is undecided the side is BUY; no property depends on which side it is.
AiDirection(bars, reading) ==
    LET Likelier(guess) == IF guess.up >= guess.down THEN "BUY" ELSE "SELL"
    IN  IF reading.bias # None THEN (IF reading.bias = "SELL" THEN "SELL" ELSE "BUY")
        ELSE Likelier(HeuristicPrediction(bars, reading))

-----------------------------------------------------------------------------
(* The checklist.  A threshold of 0 is read as the default (value or 60.0);*)
(* a rule that cannot be judged is n/a.                                    *)

Defaults == [min_confidence |-> 60, with_trend |-> None, min_rr |-> 15, not_stretched |-> 70,
             candle_confirm |-> None, news_agrees |-> 35, max_trades |-> 3, calm_market |-> 3]

OrDefault(rule, value) == IF value \in {None, 0} THEN Defaults[rule] ELSE value

\* news_agrees alone keeps a threshold of 0.
CheckRule(rule, value, signal, bars, reading, news, taken) ==
    LET side == signal.decision
        need == OrDefault(rule, value)
        strong == IF value = None THEN 35 ELSE value
        Verdict(judged, good) == IF ~judged THEN "n/a" ELSE IF good THEN "pass" ELSE "fail"
    IN  CASE side = "WAIT" -> "n/a"
          [] side # "WAIT" /\ rule = "min_confidence" -> Verdict(TRUE, signal.conf >= need)
          [] side # "WAIT" /\ rule = "with_trend" ->
                Verdict(reading.trend # None, IF side = "BUY" THEN reading.trend > 0
                                                              ELSE reading.trend <= 0)
          [] side # "WAIT" /\ rule = "min_rr" -> Verdict(signal.plan # None, signal.plan.rr >= need)
          [] side # "WAIT" /\ rule = "not_stretched" ->
                Verdict(TRUE, IF side = "BUY" THEN reading.rsi < need
                                              ELSE reading.rsi > 100 - need)
          [] side # "WAIT" /\ rule = "candle_confirm" ->
                Verdict(TRUE, CorePatterns(bars, Len(bars)) # {})
          [] side # "WAIT" /\ rule = "news_agrees" ->
                Verdict(news # None, IF side = "BUY" THEN news > -strong ELSE news < strong)
          [] side # "WAIT" /\ rule = "max_trades" -> Verdict(TRUE, taken < need)
          [] side # "WAIT" /\ rule = "calm_market" -> Verdict(TRUE, reading.wild <= need)

\* check_rules: the verdict of every rule that is switched on.
CheckRules(settings, signal, bars, reading, news, taken) ==
    [rule \in {r \in DOMAIN Defaults : settings[r].enabled} |->
        CheckRule(rule, settings[rule].value, signal, bars, reading, news, taken)]

=============================================================================
