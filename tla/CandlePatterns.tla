--------------------------- MODULE CandlePatterns ---------------------------
(***************************************************************************)
(* The candlestick detectors: the set the model is trained on              *)
(* (app/features/candlesticks.py) and the extended library that is only    *)
(* displayed (app/features/patterns_extra.py).  Each operator gives the    *)
(* names of the columns that are 1 on a bar; a name without its cdl_.      *)
(*                                                                         *)
(* A ratio is compared by multiplying out; a zero range, whose quotients   *)
(* are NaN in the code, fails every comparison but the ones a fillna(0.0)  *)
(* precedes.  The unit of price is larger than the tolerances of the code  *)
(* (0.15% and less), so that `nearly equal' is equal.                      *)
(***************************************************************************)
EXTENDS Structure, Functions

CONSTANTS
    TrendLag,       \* the close a trend is measured from, in bars (5)
    WaveSpan,       \* bars the average range is taken over (10)
    Nearness        \* sr_tolerance, in units of price

ASSUME PatternAssumption ==
    TrendLag \in Nat \ {0} /\ WaveSpan \in Nat \ {0} /\ Nearness \in Nat

Min2(x, y) == IF x <= y THEN x ELSE y
Max2(x, y) == IF x >= y THEN x ELSE y

\* The names whose column is 1.
Fired(columns) == {name \in DOMAIN columns : columns[name]}

-----------------------------------------------------------------------------
(* Anatomy of a candle. *)

Span(b) == b.high - b.low
Body(b) == Abs(b.close - b.open)
Top(b) == Max2(b.open, b.close)
Bottom(b) == Min2(b.open, b.close)
Upper(b) == b.high - Top(b)
Lower(b) == Bottom(b) - b.low
Bull(b) == b.close > b.open
Bear(b) == b.close < b.open

\* A part of the range, in per cent of it.
AtLeast(part, percent, b) == Span(b) > 0 /\ 100 * part >= percent * Span(b)
AtMost(part, percent, b) == Span(b) > 0 /\ 100 * part <= percent * Span(b)

SmallBody(percent, b) == Span(b) = 0 \/ AtMost(Body(b), percent, b)
LongBody(b) == AtLeast(Body(b), 60, b)
Doji(b) == SmallBody(10, b)
\* A former candle of zero range is no doji in the extended library.
DojiBefore(b) == AtMost(Body(b), 10, b)

\* The body of `inner' lies inside that of `outer'.
Inside(inner, outer) == Top(inner) <= Top(outer) /\ Bottom(inner) >= Bottom(outer)

-----------------------------------------------------------------------------
(* The trained set: b is the candle, p the one before it, q the one before *)
(* that.                                                                   *)

CoreSingle(b) == Fired([
    doji            |-> Doji(b),
    dragonfly_doji  |-> Doji(b) /\ AtLeast(Lower(b), 60, b) /\ AtMost(Upper(b), 10, b),
    gravestone_doji |-> Doji(b) /\ AtLeast(Upper(b), 60, b) /\ AtMost(Lower(b), 10, b),
    pin_bull        |-> /\ SmallBody(34, b) /\ Lower(b) >= 2 * Body(b)
                        /\ AtLeast(Lower(b), 50, b) /\ AtMost(Upper(b), 25, b),
    pin_bear        |-> /\ SmallBody(34, b) /\ Upper(b) >= 2 * Body(b)
                        /\ AtLeast(Upper(b), 50, b) /\ AtMost(Lower(b), 25, b)])

CoreDouble(p, b) == Fired([
    engulf_bull    |-> Bull(b) /\ Bear(p) /\ b.close >= p.open /\ b.open <= p.close,
    engulf_bear    |-> Bear(b) /\ Bull(p) /\ b.close <= p.open /\ b.open >= p.close,
    harami_bull    |-> Bear(p) /\ Bull(b) /\ Inside(b, p) /\ Body(b) < Body(p),
    harami_bear    |-> Bull(p) /\ Bear(b) /\ Inside(b, p) /\ Body(b) < Body(p),
    inside_bar     |-> b.high <= p.high /\ b.low >= p.low,
    tweezer_top    |-> b.high = p.high /\ Bull(p) /\ Bear(b),
    tweezer_bottom |-> b.low = p.low /\ Bear(p) /\ Bull(b)])

\* A middle candle that is small against a first one that has a body.
SmallMiddle(q, p) == Body(q) > 0 /\ 2 * Body(p) <= Body(q)

CoreTriple(q, p, b) == Fired([
    morning_star |-> Bear(q) /\ SmallMiddle(q, p) /\ Bull(b) /\ 2 * b.close > q.open + q.close,
    evening_star |-> Bull(q) /\ SmallMiddle(q, p) /\ Bear(b) /\ 2 * b.close < q.open + q.close])

CorePatterns(bars, i) ==
    UNION {CoreSingle(bars[i]),
           IF i > 1 THEN CoreDouble(bars[i - 1], bars[i]) ELSE {},
           IF i > 2 THEN CoreTriple(bars[i - 2], bars[i - 1], bars[i]) ELSE {}}

\* cdl_bull_score and cdl_bear_score.
BullScore(patterns) == Cardinality(patterns \cap
    {"pin_bull", "engulf_bull", "harami_bull", "tweezer_bottom", "dragonfly_doji", "morning_star"})
BearScore(patterns) == Cardinality(patterns \cap
    {"pin_bear", "engulf_bear", "harami_bear", "tweezer_top", "gravestone_doji", "evening_star"})

\* The close is next to the floor or to the ceiling of the channel.
NearSupport(bars, i) ==
    Donchian(bars, i) # None /\ Abs(bars[i].close - Donchian(bars, i).lower) <= Nearness
NearResistance(bars, i) ==
    Donchian(bars, i) # None /\ Abs(bars[i].close - Donchian(bars, i).upper) <= Nearness

\* A bullish setup at the floor or a bearish one at the ceiling, in tenths.
\* A bearish setup with a falling bias replaces what a bullish one gave.
Setup(bottom, top, rising, falling) ==
    CASE top /\ falling -> -10
      [] ~(top /\ falling) /\ bottom /\ rising -> 10
      [] ~(top /\ falling) /\ bottom /\ ~rising /\ ~falling -> 6
      [] ~(top /\ falling) /\ ~(bottom /\ (rising \/ ~falling)) /\ top /\ ~rising -> -6
      [] OTHER -> 0

\* candlestick_confluence; `average' is the sign of ema_9 - ema_21.
Confluence(bars, i, average) ==
    LET patterns == CorePatterns(bars, i)
        trend == StructureAt(bars, i).trend
    IN  Setup(BullScore(patterns) > 0 /\ NearSupport(bars, i),
              BearScore(patterns) > 0 /\ NearResistance(bars, i),
              average > 0 \/ trend > 0, average < 0 \/ trend < 0)

-----------------------------------------------------------------------------
(* The patterns that are displayed but not trained on: b is the candle the  *)
(* pattern ends with, p, q, ... the ones before it.  A pattern with a        *)
(* bullish and a bearish form is written twice there, and here.              *)

\* uptrend and downtrend: the previous close against the one TrendLag bars ago.
Uptrend(bars, i) == i > TrendLag /\ bars[i - 1].close > bars[i - TrendLag].close
Downtrend(bars, i) == i > TrendLag /\ bars[i - 1].close < bars[i - TrendLag].close

\* The candle's range is half again the average of the last WaveSpan.
WideRange(bars, i) ==
    /\ i >= WaveSpan
    /\ Span(bars[i]) > 0
    /\ \A k \in (i - WaveSpan + 1)..i : Span(bars[k]) > 0
    /\ 2 * WaveSpan * Span(bars[i])
         >= 3 * FoldFunction(+, 0, [k \in (i - WaveSpan + 1)..i |-> Span(bars[k])])

LongLowerWick(b) == SmallBody(30, b) /\ Lower(b) >= 2 * Body(b) /\ AtMost(Upper(b), 25, b)
LongUpperWick(b) == SmallBody(30, b) /\ Upper(b) >= 2 * Body(b) /\ AtMost(Lower(b), 25, b)

ExtendedSingle(bars, i) ==
    LET b == bars[i] IN Fired([
    marubozu_bull    |-> Bull(b) /\ AtLeast(Body(b), 90, b),
    marubozu_bear    |-> Bear(b) /\ AtLeast(Body(b), 90, b),
    spinning_top     |-> /\ SmallBody(30, b) /\ ~Doji(b)
                         /\ AtLeast(Upper(b), 25, b) /\ AtLeast(Lower(b), 25, b),
    long_legged_doji |-> Doji(b) /\ AtLeast(Upper(b), 30, b) /\ AtLeast(Lower(b), 30, b),
    four_price_doji  |-> Span(b) = 0,
    high_wave        |-> SmallBody(30, b) /\ AtLeast(Upper(b) + Lower(b), 85, b) /\ WideRange(bars, i),
    belt_hold_bull   |-> Bull(b) /\ LongBody(b) /\ AtMost(Lower(b), 3, b),
    belt_hold_bear   |-> Bear(b) /\ LongBody(b) /\ AtMost(Upper(b), 3, b),
    hanging_man      |-> LongLowerWick(b) /\ Uptrend(bars, i),
    inverted_hammer  |-> LongUpperWick(b) /\ Downtrend(bars, i)])

\* twice the midpoint of a body
Middle2(b) == b.open + b.close

ExtendedDouble(bars, i) ==
    LET b == bars[i]
        p == bars[i - 1]
        LongBear == Bear(p) /\ LongBody(p)
        LongBull == Bull(p) /\ LongBody(p)
    IN  Fired([
    piercing           |-> LongBear /\ Bull(b) /\ b.open < p.low /\ 2 * b.close > Middle2(p) /\ b.close < p.open,
    dark_cloud         |-> LongBull /\ Bear(b) /\ b.open > p.high /\ 2 * b.close < Middle2(p) /\ b.close > p.open,
    kicker_bull        |-> Bear(p) /\ Bull(b) /\ b.open >= p.open /\ b.low > p.high,
    kicker_bear        |-> Bull(p) /\ Bear(b) /\ b.open <= p.open /\ b.high < p.low,
    outside_bar        |-> b.high > p.high /\ b.low < p.low,
    gap_up             |-> b.low > p.high,
    gap_down           |-> b.high < p.low,
    matching_low       |-> Bear(p) /\ Bear(b) /\ b.close = p.close,
    matching_high      |-> Bull(p) /\ Bull(b) /\ b.close = p.close,
    counterattack_bull |-> LongBear /\ Bull(b) /\ b.open < p.low /\ b.close = p.close,
    counterattack_bear |-> LongBull /\ Bear(b) /\ b.open > p.high /\ b.close = p.close,
    homing_pigeon      |-> LongBear /\ Bear(b) /\ b.open <= p.open /\ b.close >= p.close /\ Body(b) < Body(p),
    on_neck            |-> Downtrend(bars, i) /\ LongBear /\ Bull(b) /\ b.open < p.low /\ b.close = p.low,
    thrusting          |-> /\ Downtrend(bars, i) /\ LongBear /\ Bull(b) /\ b.open < p.low
                           /\ b.close > p.close /\ 2 * b.close < Middle2(p),
    separating_bull    |-> Bear(p) /\ Bull(b) /\ LongBody(b) /\ b.open = p.open,
    separating_bear    |-> Bull(p) /\ Bear(b) /\ LongBody(b) /\ b.open = p.open])

\* Three white soldiers and three black crows.
Soldiers(q, p, b) ==
    /\ \A c \in {q, p, b} : Bull(c) /\ LongBody(c)
    /\ p.close > q.close /\ b.close > p.close
    /\ p.open >= q.open /\ p.open <= q.close /\ b.open >= p.open /\ b.open <= p.close
Crows(q, p, b) ==
    /\ \A c \in {q, p, b} : Bear(c) /\ LongBody(c)
    /\ p.close < q.close /\ b.close < p.close
    /\ p.open <= q.open /\ p.open >= q.close /\ b.open <= p.open /\ b.open >= p.close

ExtendedTriple(bars, i) ==
    LET b == bars[i]
        p == bars[i - 1]
        q == bars[i - 2]
        TriStar == DojiBefore(q) /\ DojiBefore(p) /\ Doji(b)
        Bulls == Bull(q) /\ Bull(p) /\ Bull(b)
        Rising == b.close > p.close /\ p.close > q.close
    IN  Fired([
    three_white_soldiers  |-> Soldiers(q, p, b),
    three_black_crows     |-> Crows(q, p, b),
    identical_three_crows |-> Crows(q, p, b) /\ p.open = q.close /\ b.open = p.close,
    three_inside_up       |-> /\ Bear(q) /\ LongBody(q) /\ Bull(p) /\ p.open >= q.close /\ p.close <= q.open
                              /\ Bull(b) /\ b.close > q.open,
    three_inside_down     |-> /\ Bull(q) /\ LongBody(q) /\ Bear(p) /\ p.open <= q.close /\ p.close >= q.open
                              /\ Bear(b) /\ b.close < q.open,
    three_outside_up      |-> /\ Bear(q) /\ Bull(p) /\ p.close >= q.open /\ p.open <= q.close
                              /\ Bull(b) /\ b.close > p.close,
    three_outside_down    |-> /\ Bull(q) /\ Bear(p) /\ p.close <= q.open /\ p.open >= q.close
                              /\ Bear(b) /\ b.close < p.close,
    abandoned_baby_bull   |-> Bear(q) /\ DojiBefore(p) /\ p.high < q.low /\ Bull(b) /\ b.low > p.high,
    abandoned_baby_bear   |-> Bull(q) /\ DojiBefore(p) /\ p.low > q.high /\ Bear(b) /\ b.high < p.low,
    morning_doji_star     |-> Bear(q) /\ LongBody(q) /\ DojiBefore(p) /\ Bull(b) /\ 2 * b.close > Middle2(q),
    evening_doji_star     |-> Bull(q) /\ LongBody(q) /\ DojiBefore(p) /\ Bear(b) /\ 2 * b.close < Middle2(q),
    tri_star_bull         |-> TriStar /\ Downtrend(bars, i),
    tri_star_bear         |-> TriStar /\ Uptrend(bars, i),
    advance_block         |-> /\ Bulls /\ Rising /\ Body(p) < Body(q) /\ Body(b) < Body(p)
                              /\ Upper(b) > Upper(p) /\ Upper(p) > Upper(q),
    deliberation          |-> Bulls /\ Rising /\ LongBody(q) /\ LongBody(p) /\ SmallBody(30, b),
    stick_sandwich        |-> Bear(q) /\ Bull(p) /\ Bear(b) /\ b.close = q.close /\ b.open > p.close,
    upside_tasuki_gap     |-> /\ Bull(q) /\ Bull(p) /\ p.low > q.high /\ Bear(b)
                              /\ b.open > p.open /\ b.open < p.close /\ b.close < p.open /\ b.close > q.close,
    downside_tasuki_gap   |-> /\ Bear(q) /\ Bear(p) /\ p.high < q.low /\ Bull(b)
                              /\ b.open < p.open /\ b.open > p.close /\ b.close > p.open /\ b.close < q.close,
    unique_three_river    |-> /\ Bear(q) /\ LongBody(q) /\ Bear(p) /\ p.low < q.low /\ p.close > q.close
                              /\ p.open <= q.open /\ Bull(b) /\ SmallBody(30, b) /\ b.close < p.close])

ExtendedFive(bars, i) ==
    LET b == bars[i]
        first == bars[i - 4]
        Rests == \A k \in 1..3 : bars[i - k].high <= first.high /\ bars[i - k].low >= first.low
    IN  Fired([
    rising_three_methods  |-> Bull(first) /\ LongBody(first) /\ Rests /\ Bull(b) /\ LongBody(b) /\ b.close > first.close,
    falling_three_methods |-> Bear(first) /\ LongBody(first) /\ Rests /\ Bear(b) /\ LongBody(b) /\ b.close < first.close])

ExtendedPatternsAt(bars, i) ==
    UNION {ExtendedSingle(bars, i),
           IF i > 1 THEN ExtendedDouble(bars, i) ELSE {},
           IF i > 2 THEN ExtendedTriple(bars, i) ELSE {},
           IF i > 4 THEN ExtendedFive(bars, i) ELSE {}}

\* The patterns of both modules that say the same thing of a rising and of a
\* falling market.
Twins == {
    <<"pin_bull", "pin_bear">>, <<"engulf_bull", "engulf_bear">>, <<"harami_bull", "harami_bear">>,
    <<"tweezer_bottom", "tweezer_top">>, <<"morning_star", "evening_star">>,
    <<"dragonfly_doji", "gravestone_doji">>, <<"marubozu_bull", "marubozu_bear">>,
    <<"belt_hold_bull", "belt_hold_bear">>, <<"hanging_man", "inverted_hammer">>,
    <<"piercing", "dark_cloud">>, <<"kicker_bull", "kicker_bear">>, <<"gap_up", "gap_down">>,
    <<"matching_low", "matching_high">>, <<"counterattack_bull", "counterattack_bear">>,
    <<"separating_bull", "separating_bear">>, <<"three_white_soldiers", "three_black_crows">>,
    <<"three_inside_up", "three_inside_down">>, <<"three_outside_up", "three_outside_down">>,
    <<"abandoned_baby_bull", "abandoned_baby_bear">>, <<"morning_doji_star", "evening_doji_star">>,
    <<"tri_star_bull", "tri_star_bear">>, <<"upside_tasuki_gap", "downside_tasuki_gap">>,
    <<"rising_three_methods", "falling_three_methods">>}

=============================================================================
