----------------------------- MODULE Assistant -----------------------------
(***************************************************************************)
(* The trading assistant behind POST /chat: the deterministic one          *)
(* (app/chat/assistant.py), the Claude-backed one around it                *)
(* (app/chat/llm.py) and the endpoint (app/api/main.py).                   *)
(*                                                                         *)
(* A message is the groups of words it contains and the pattern it names   *)
(* (None without one); the wording of the answers is left out.  A reply    *)
(* keeps the lines drawn on the chart, `marks', and what the answer says   *)
(* about one trade.  Prices are thirds of a unit, so that half an ATR is   *)
(* whole.  The assistant rounds some of its prices to two decimals, which  *)
(* is coarse for an instrument that costs less than a unit; the eight      *)
(* decimals of a plan are finer than any price and left out.               *)
(***************************************************************************)
EXTENDS Signals

CONSTANT Cent   \* a cent in thirds of a unit: what two decimals can tell apart

ASSUME AssistantAssumption == Cent \in Nat \ {0}

\* round(price, 2): the nearest whole number of cents, of two the even one.
Rounded(price) ==
    LET below == price - (price % Cent)
        past  == 2 * (price % Cent)
    IN  IF past < Cent \/ (past = Cent /\ (price \div Cent) % 2 = 0) THEN below ELSE below + Cent

TradeAt(side, entry, plan) ==
    [side |-> side, entry |-> entry, stop |-> plan.stop, tp1 |-> plan.target, tp2 |-> plan.target2]
NoTrade == [side |-> None, entry |-> None, stop |-> None, tp1 |-> None, tp2 |-> None]

Marks(entry, plan) ==
    [entry |-> entry, stop |-> plan.stop, tp1 |-> plan.target, tp2 |-> plan.target2]
NoMarks == [entry |-> None, stop |-> None, tp1 |-> None, tp2 |-> None]

Reply(about, marks, decision) ==
    [about |-> about, marks |-> marks, decision |-> decision, trade |-> NoTrade]

\* The signal's plan in thirds of a unit.
PlanOf(signal) ==
    IF signal.plan = None THEN None
    ELSE [level \in {"stop", "target", "target2"} |-> 3 * signal.plan[level]]

\* _plan_markers: the middle of the entry zone is the signal's entry.
PlanMarkers(signal) ==
    IF signal.plan = None THEN NoMarks ELSE Marks(3 * signal.entry, PlanOf(signal))

-----------------------------------------------------------------------------
(* Where in its channel a price is: at least, at most, so many per cent up.*)

AtLeastUp(price, channel, percent) ==
    LET height == channel.upper - channel.lower
    IN  IF height = 0 THEN price > 3 * channel.lower
        ELSE 100 * (price - 3 * channel.lower) >= 3 * percent * height
AtMostUp(price, channel, percent) ==
    LET height == channel.upper - channel.lower
    IN  IF height = 0 THEN price <= 3 * channel.lower
        ELSE 100 * (price - 3 * channel.lower) <= 3 * percent * height

\* _bias: at least two of four signs point up.
Bias(bars, reading) ==
    LET i == Len(bars)
        score == Flag(reading.stack > 0) + Flag(reading.macd > 0)
                 + Flag(StructureAt(bars, i).trend > 0)
                 + Flag(Supertrend(bars, i, 2 * reading.atr).direction > 0)
    IN  IF score >= 2 THEN "BUY" ELSE "SELL"

\* Mutant of LocationSide: the trend is followed wherever the price is.
TrendSide(bars, reading, price) == Bias(bars, reading)

\* _location_side: sell the ceiling, buy the floor, else follow the trend.
LocationSide(bars, reading, price) ==
    LET channel == Donchian(bars, Len(bars))
    IN  IF AtLeastUp(price, channel, 60) THEN "SELL"
        ELSE IF AtMostUp(price, channel, 40) THEN "BUY"
        ELSE Bias(bars, reading)

\* _place_verdict: how good a spot a price is for a side.
PlaceVerdict(bars, side, price) ==
    LET channel == Donchian(bars, Len(bars))
    IN  IF side = "BUY"
        THEN CASE AtMostUp(price, channel, 35) -> "good"
               [] ~AtMostUp(price, channel, 35) /\ AtLeastUp(price, channel, 75) -> "bad"
               [] OTHER -> "ok"
        ELSE CASE AtLeastUp(price, channel, 65) -> "good"
               [] ~AtLeastUp(price, channel, 65) /\ AtMostUp(price, channel, 25) -> "bad"
               [] OTHER -> "ok"

-----------------------------------------------------------------------------
(* The answers that build a plan of their own. *)

\* _what_if: a trade at a price, on the side the words name or the place asks
\* for.  SELL words are looked for first.  The lines are drawn at the price; the
\* entry the reply names is rounded.
WhatIf(signal, bars, reading, price, words) ==
    LET Idea(side, plan) ==
          IF plan = None THEN Reply("apology", NoMarks, None)
          ELSE [Reply("what_if", Marks(price, plan), signal.decision)
                  EXCEPT !.trade = TradeAt(side, Rounded(price), plan)]
        OnSide(side) == Idea(side, BuildPlan(side, price, 3 * reading.atr))
    IN  OnSide(CASE "sell" \in words -> "SELL"
                 [] "sell" \notin words /\ "buy" \in words -> "BUY"
                 [] OTHER -> LocationSide(bars, reading, price))

\* _where: the signal's plan, or while waiting the better price that is
\* watched for (_exact_plan_while_waiting): rounded first, so that the plan is
\* of the rounded price, and none of one that is rounded to nothing.
Where(signal, bars, reading) ==
    LET price == 3 * signal.entry
        channel == Donchian(bars, Len(bars))
        Better(side) == Rounded(IF side = "BUY" THEN Max2(3 * channel.lower, price - reading.atr)
                                                ELSE Min2(3 * channel.upper, price + reading.atr))
        Drawn(watched, plan) == IF plan = None THEN NoMarks ELSE Marks(watched, plan)
        Watch(side, watched) == Drawn(watched, BuildPlan(side, watched, 3 * reading.atr))
        Await(side) == Reply("watch", Watch(side, Better(side)), signal.decision)
    IN  IF signal.plan # None THEN Reply("where", PlanMarkers(signal), signal.decision)
        ELSE Await(Bias(bars, reading))

\* _stop: without a trade, a guess for a long one, rounded.
Stop(signal, reading) ==
    IF signal.plan # None
    THEN Reply("stop", [NoMarks EXCEPT !.stop = 3 * signal.plan.stop], signal.decision)
    ELSE Reply("stop", [NoMarks EXCEPT !.stop = Rounded(3 * (signal.entry - reading.atr))], None)

\* _targets.
Targets(signal) ==
    IF signal.plan = None THEN Reply("target", NoMarks, None)
    ELSE Reply("target", [PlanMarkers(signal) EXCEPT !.entry = None, !.stop = None], signal.decision)

\* _risk, without a trade, is a rule and says nothing of the signal.
Risk(signal) ==
    Reply("risk", PlanMarkers(signal), IF signal.plan = None THEN None ELSE signal.decision)

\* The answers that explain what there is: the signal's plan is drawn beside
\* them, but for a wait, which has none, and for the help.
Safety(signal) == Reply("safe", PlanMarkers(signal), signal.decision)
WhyWait(signal) == Reply("why_wait", NoMarks, signal.decision)
Direct(signal) == Reply("direction", PlanMarkers(signal), signal.decision)
Summary(signal) == Reply("summary", PlanMarkers(signal), signal.decision)
Help == Reply("help", NoMarks, None)

\* _pattern_lookup: the lesson, and whether the pattern is on the last candle.
PatternLookup(bars, pattern) ==
    LET i == Len(bars)
        present == CorePatterns(bars, i) \cup ExtendedPatternsAt(bars, i)
    IN  Reply(IF pattern \in present THEN "lesson_now" ELSE "lesson", NoMarks, None)

-----------------------------------------------------------------------------

\* TradingAssistant.respond: a tap first, then the pattern named, then the
\* groups of words in this order.
Respond(signal, bars, reading, message, tap) ==
    LET words == message.words
        Says(group) == words \cap group # {}
    IN  IF tap # None THEN WhatIf(signal, bars, reading, tap, words)
        ELSE IF message.pattern # None THEN PatternLookup(bars, message.pattern)
        ELSE IF Says({"here"}) THEN WhatIf(signal, bars, reading, 3 * signal.entry, words)
        ELSE IF Says({"safe"}) THEN Safety(signal)
        ELSE IF Says({"why"}) /\ signal.decision = "WAIT" THEN WhyWait(signal)
        ELSE IF Says({"stop"}) THEN Stop(signal, reading)
        ELSE IF Says({"risk"}) THEN Risk(signal)
        ELSE IF Says({"target"}) THEN Targets(signal)
        ELSE IF Says({"where"}) THEN Where(signal, bars, reading)
        ELSE IF Says({"buy", "sell", "direction"}) THEN Direct(signal)
        ELSE IF Says({"hi"}) THEN Help
        ELSE Summary(signal)

\* LLMAssistant.respond: the deterministic answer comes first and stands where
\* the model is not available or fails; else the text is the model's, and of
\* the grounded answer only the marks, the decision and the confidence stay.
RespondWithLLM(grounded, llm) ==
    IF llm # "answers" THEN grounded ELSE [grounded EXCEPT !.about = "llm", !.trade = NoTrade]

\* POST /chat: the answer and, for a tap, the AI's own trade at that price, of
\* which the response names the side and the levels only.
Chat(signal, bars, reading, message, tap, llm) ==
    LET Own(side, plan) == IF plan = None THEN NoTrade ELSE TradeAt(side, None, plan)
        OnSide(side) == Own(side, BuildPlan(side, tap, 3 * reading.atr))
    IN  [reply |-> RespondWithLLM(Respond(signal, bars, reading, message, tap), llm),
         ai |-> IF tap = None THEN NoTrade ELSE OnSide(AiDirection(bars, reading))]

=============================================================================
