----------------------------- MODULE Structure -----------------------------
(***************************************************************************)
(* The smart-money features of a price history (app/features/smc.py):      *)
(* swing points, the structural trend with its breaks, fair value gaps,    *)
(* order blocks and liquidity pools, and the indicators of                 *)
(* app/indicators/technical.py that are made of prices alone (the moving   *)
(* averages and the oscillators divide and stay out; what they say of the  *)
(* last bar is given to module Signals).  Each operator gives the column's *)
(* value at bar i of the frame `bars'; what the frame holds after bar i    *)
(* must not matter to a model, and that is what the properties are about.  *)
(* Prices are integers; a distance is kept as a difference, not divided by *)
(* the price.                                                              *)
(***************************************************************************)
EXTENDS Resolver

CONSTANTS
    Width,          \* bars on each side of a swing point
    MinGap,         \* a quarter of the ATR: the smallest gap that counts
    Lookback,       \* bars in which liquidity is looked for
    Channel,        \* period of the Donchian channel (20)
    AtrPeriod       \* bars the ATR of the SuperTrend needs (10)

ASSUME StructureAssumption ==
    /\ Width \in Nat \ {0} /\ MinGap \in Nat /\ Lookback \in Nat \ {0}
    /\ Channel \in Nat \ {0} /\ AtrPeriod \in Nat \ {0}
    /\ None \notin [lower : Int, upper : Int]

Flag(condition) == IF condition THEN 1 ELSE 0

-----------------------------------------------------------------------------

Around(bars, j) == {k \in (j - Width)..(j + Width) : k # j}
HasBothSides(bars, j) == j - Width >= 1 /\ j + Width <= Len(bars)

SwingHigh(bars, j) ==
    HasBothSides(bars, j) /\ \A k \in Around(bars, j) : bars[k].high < bars[j].high

SwingLow(bars, j) ==
    HasBothSides(bars, j) /\ \A k \in Around(bars, j) : bars[k].low > bars[j].low

\* Mutant of ConfirmedAt: a swing counts on the bar that prints it.
Unconfirmed(i) == i

\* The swing that becomes known at bar i.
ConfirmedAt(i) == i - Width

\* What bar n shows the walk: the levels of the swing it confirms, if it
\* confirms one, and its close.
Shown(bars, n) ==
    LET j == ConfirmedAt(n)
    IN  [high  |-> IF SwingHigh(bars, j) THEN bars[j].high ELSE None,
         low   |-> IF SwingLow(bars, j) THEN bars[j].low ELSE None,
         close |-> bars[n].close]

\* One step of the walk: the levels not broken yet, the trend, and what the bar
\* was.  The upper level is looked at first.
StructureStep(last, bar) ==
    LET high == IF bar.high # None THEN bar.high ELSE last.high
        low  == IF bar.low # None THEN bar.low ELSE last.low
        up   == high # None /\ bar.close > high
        down == ~up /\ low # None /\ bar.close < low
    IN  [high  |-> IF up THEN None ELSE high,
         low   |-> IF down THEN None ELSE low,
         trend |-> IF up THEN 1 ELSE IF down THEN -1 ELSE last.trend,
         bos   |-> Flag(up /\ last.trend >= 0) - Flag(down /\ last.trend <= 0),
         choch |-> Flag(up /\ last.trend < 0) - Flag(down /\ last.trend > 0)]

Unstructured == [high |-> None, low |-> None, trend |-> 0, bos |-> 0, choch |-> 0]

StructureWalk(shown) ==
    LET walk[n \in 0..Len(shown)] ==
          IF n = 0 THEN Unstructured ELSE StructureStep(walk[n - 1], shown[n])
    IN  walk

\* market_structure after bar i.
StructureAt(bars, i) == StructureWalk([n \in 1..i |-> Shown(bars, n)])[i]

\* fvg_size: positive above the gap, negative below it, 0 without one.
FairValueGap(bars, i) ==
    IF i <= 2 THEN 0
    ELSE LET above == bars[i].low - bars[i - 2].high
             below == bars[i - 2].low - bars[i].high
         IN  CASE above > 0 /\ above >= MinGap -> above
               [] below > 0 /\ below >= MinGap -> -below
               [] OTHER -> 0

\* The order block is flagged on the candle before the one that makes it.
OrderBlock(bars, i) ==
    IF i + 1 > Len(bars) THEN 0
    ELSE LET this == bars[i]
             next == bars[i + 1]
         IN  Flag(/\ this.close < this.open
                  /\ next.close > next.open /\ next.close > this.high)
             - Flag(/\ this.close > this.open
                    /\ next.close < next.open /\ next.close < this.low)

\* The least of the distances of two or more levels.
Nearest(distance) ==
    IF Cardinality(DOMAIN distance) < 2 THEN None
    ELSE distance[CHOOSE k \in DOMAIN distance :
                    \A m \in DOMAIN distance : distance[k] <= distance[m]]

\* sell_liquidity_dist and buy_liquidity_dist: how far the nearest of two or
\* more earlier highs above, and lows below, is.
LiquidityPools(bars, i) ==
    LET window == IF i <= Lookback THEN {} ELSE (i - Lookback)..(i - 1)
        Up(k) == bars[k].high - bars[i].high
        Down(k) == bars[i].low - bars[k].low
    IN  [sell |-> Nearest([k \in {k \in window : Up(k) >= 0} |-> Up(k)]),
         buy  |-> Nearest([k \in {k \in window : Down(k) >= 0} |-> Down(k)])]

-----------------------------------------------------------------------------
(* The indicators.  None is pandas' missing value: a comparison with it is  *)
(* false.                                                                  *)

Least(prices) == CHOOSE price \in prices : \A other \in prices : price <= other
Greatest(prices) == CHOOSE price \in prices : \A other \in prices : other <= price

\* donchian_lower and donchian_upper, None until the channel is filled.
Donchian(bars, i) ==
    LET window == (i - Channel + 1)..i
    IN  IF i < Channel THEN None ELSE [lower |-> Least({bars[k].low : k \in window}),
                                       upper |-> Greatest({bars[k].high : k \in window})]

\* The first bar has no previous close.
TrueRange(bars, i) ==
    Greatest({bars[i].high - bars[i].low} \cup
             (IF i = 1 THEN {} ELSE {Abs(bars[i].high - bars[i - 1].close),
                                     Abs(bars[i].low - bars[i - 1].close)}))

\* plus_dm and minus_dm, of which at most one is positive.
DirectionalMove(bars, i) ==
    LET up == IF i = 1 THEN 0 ELSE bars[i].high - bars[i - 1].high
        down == IF i = 1 THEN 0 ELSE bars[i - 1].low - bars[i].low
    IN  [plus |-> IF up > down /\ up > 0 THEN up ELSE 0,
         minus |-> IF down > up /\ down > 0 THEN down ELSE 0]

\* The floor pivots of the previous bar, in thirds of a unit.
PivotPoints(bars, i) ==
    IF i = 1 THEN None
    ELSE LET b == bars[i - 1]
             p == b.high + b.low + b.close
         IN  [pivot |-> p, r1 |-> 2 * p - 3 * b.low, s1 |-> 2 * p - 3 * b.high,
              r2 |-> p + 3 * (b.high - b.low), s2 |-> p - 3 * (b.high - b.low)]

Below(a, b) == a # None /\ b # None /\ a < b

\* The bands of bar n, in halves of a unit, `reach' away from its middle and
\* missing before the first ATR, and its close.
Banded(bars, n, reach) ==
    LET Band(sign) == IF n < AtrPeriod THEN None
                      ELSE bars[n].high + bars[n].low + 2 * sign * reach
    IN  [upper |-> Band(1), lower |-> Band(-1), close |-> 2 * bars[n].close]

\* A bar keeps the band of the bar before it unless the new one is tighter or
\* was broken; the band before the first ATR is missing, no comparison replaces
\* it, and so none is ever drawn: the direction stays at its first value, 1.
SupertrendStep(last, before, bar) ==
    LET upper == IF Below(bar.upper, last.upper) \/ Below(last.upper, before.close)
                 THEN bar.upper ELSE last.upper
        lower == IF Below(last.lower, bar.lower) \/ Below(before.close, last.lower)
                 THEN bar.lower ELSE last.lower
        up    == CASE last.line = None -> TRUE
                   [] last.line # None /\ last.line = last.upper -> Below(upper, bar.close)
                   [] OTHER -> ~Below(bar.close, lower)
    IN  [upper |-> upper, lower |-> lower,
         line |-> IF up THEN lower ELSE upper,
         direction |-> IF up THEN 1 ELSE -1]

SupertrendWalk(banded) ==
    LET walk[n \in 1..Len(banded)] ==
          IF n = 1 \/ n < AtrPeriod
          THEN [upper |-> banded[n].upper, lower |-> banded[n].lower, line |-> None, direction |-> 1]
          ELSE SupertrendStep(walk[n - 1], banded[n - 1], banded[n])
    IN  walk

\* supertrend after bar i.
Supertrend(bars, i, reach) == SupertrendWalk([n \in 1..i |-> Banded(bars, n, reach)])[i]

=============================================================================
