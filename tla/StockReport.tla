---------------------------- MODULE StockReport ----------------------------
(***************************************************************************)
(* The stock reports: the screener (app/screener.py), the explained report *)
(* of one stock (app/intelligence.py) and the strength of its sector       *)
(* (app/sector.py).  Two copies of one rule choose the trade, and the      *)
(* report argues for and against it.                                       *)
(*                                                                         *)
(* Downloads, training and the indicators are the readings of a `stock':   *)
(*   history   "fails", "short", "thin" (too few labels) or "enough"       *)
(*   model     is the outcome model there?                                 *)
(*   probs     the direction model's [up, down, flat]                      *)
(*   chance    the outcome model's p_target, per cent                      *)
(*   close, atr, stack, adx, rsi, macd    of its last bar                  *)
(*   ahead     its lead over the Nifty, per cent                           *)
(*   past      per cent of similar setups that won, None without any       *)
(*   sector    the sector it is mapped to, None where it is in no table    *)
(* and of an `index', None where it cannot be had: [rs, above, slope].     *)
(* Prices of a plan are halves of a unit.                                  *)
(***************************************************************************)
EXTENDS Resolver, SequencesExt

CONSTANTS
    TakeAt,         \* the outcome model's threshold, per cent
    SectorNames     \* keys of SECTOR_INDICES, in their order

\* What a plan, a setup, a scan, the state of a market, a sector's row
\* and a report are, and what a report may talk about.
StockPlans == [entry : Int, stop : Int, target1 : Int, target2 : Int]
StockSetups == [action : Side, chance : Int, take : BOOLEAN, levels : StockPlans]
Scans == [buyNow : Seq(Nat), waiting : Seq(Nat)]
MarketStates == [trend : Int, strong : BOOLEAN, volatility : {"low", "normal", "high"}]
SectorRows == [sector : Range(SectorNames), rank : Nat \cup {None},
               label : {"Strong", "Weak", "Neutral", "Unknown"}]
Topics == {"trend", "momentum", "rsi", "strength", "history", "sector", "volatility"}
StockReports == [recommendation : Direction, leaning : Side \cup {None},
                 plan : StockPlans \cup {None}, state : MarketStates,
                 sector : SectorRows \cup {None},
                 reasons : [for : SUBSET Topics, against : SUBSET Topics]]

ASSUME StockAssumption ==
    /\ TakeAt \in 0..100 /\ SectorNames \in Seq(STRING)
    /\ None \notin Side /\ None \notin StockPlans
    /\ None \notin Range(SectorNames) /\ None \notin SectorRows
    /\ None \notin [rs : Int, above : BOOLEAN, slope : Int]
    /\ None \notin StockSetups /\ None \notin Scans /\ None \notin StockReports

\* A stable sort, the highest score first: the members of S, numbers, in that order.
Sorted(S, score) ==
    LET Before(a, b) == score[a] > score[b] \/ (score[a] = score[b] /\ a < b)
    IN  [n \in 1..Cardinality(S) |->
            CHOOSE k \in S : Cardinality({m \in S : Before(m, k)}) = n - 1]

-----------------------------------------------------------------------------
(* The sectors. *)

SectorScore(index) == index.rs + (IF index.above THEN 2 ELSE -2) + index.slope

SectorLabel(score) == IF score > 3 THEN "Strong" ELSE IF score < -3 THEN "Weak" ELSE "Neutral"

\* sector_rankings: the sectors that can be had, the strongest first.
SectorRankings(indices) ==
    LET known == {k \in DOMAIN SectorNames : indices[SectorNames[k]] # None}
        score == [k \in known |-> SectorScore(indices[SectorNames[k]])]
        order == Sorted(known, score)
    IN  [n \in DOMAIN order |-> [sector |-> SectorNames[order[n]], rank |-> n,
                                 label |-> SectorLabel(score[order[n]])]]

\* sector_for_stock: None for a stock of no sector.
SectorForStock(stock, nifty, indices) ==
    LET rows == {row \in Range(SectorRankings(indices)) : row.sector = stock.sector}
    IN  IF stock.sector = None THEN None
        ELSE IF ~nifty \/ rows = {} THEN [sector |-> stock.sector, rank |-> None, label |-> "Unknown"]
        ELSE CHOOSE row \in rows : TRUE

Supports(side, context) ==
    CASE context = None \/ context.label \in {"Unknown", "Neutral"} -> "neutral"
      [] OTHER -> IF (side > 0) = (context.label = "Strong") THEN "support" ELSE "against"

-----------------------------------------------------------------------------
(* The two copies of the trade. *)

\* direction_side: the likeliest direction, the first of equals.
DirectionSide(probs) ==
    IF probs.up >= probs.down /\ probs.up >= probs.flat THEN 1
    ELSE IF probs.down >= probs.flat THEN -1
    ELSE 0

\* OutcomePredictor.assess.
Takes(stock) == stock.chance >= TakeAt

LevelsAt(side, close, atr) ==
    [entry |-> 2 * close, stop |-> 2 * (close - side * atr),
     target1 |-> 2 * close + side * 3 * atr, target2 |-> 2 * close + side * 5 * atr]

\* _stock_setup: None where there is nothing to say.
StockSetup(stock) ==
    LET side == DirectionSide(stock.probs)
    IN  IF stock.history # "enough" \/ side = 0 THEN None
        ELSE [action |-> IF side > 0 THEN "BUY" ELSE "SELL", chance |-> stock.chance,
              take |-> Takes(stock), levels |-> LevelsAt(side, stock.close, stock.atr)]

\* scan_nse: the setups of the basket that are taken and those that are not,
\* each the likeliest first, as positions in the basket.
ScanNse(basket) ==
    LET Ranked(take) ==
          Sorted({k \in DOMAIN basket : StockSetup(basket[k]) # None
                                        /\ StockSetup(basket[k]).take = take},
                 [k \in DOMAIN basket |-> basket[k].chance])
    IN  IF \A k \in DOMAIN basket : basket[k].model
        THEN [buyNow |-> Ranked(TRUE), waiting |-> Ranked(FALSE)]
        ELSE None

-----------------------------------------------------------------------------
(* The report. *)

\* _market_state: the trend, strong from an ADX of 25, and the volatility.
MarketState(stock) ==
    [trend |-> stock.stack, strong |-> stock.stack # 0 /\ stock.adx >= 25,
     volatility |-> IF stock.close = 0 THEN "low"
                    ELSE IF 100 * stock.atr >= 3 * stock.close THEN "high"
                    ELSE IF 100 * stock.atr <= stock.close THEN "low"
                    ELSE "normal"]

\* An RSI of 0 reads as 50 (`or 50').
StockRsi(stock) == IF stock.rsi = 0 THEN 50 ELSE stock.rsi

\* _reasons, and the sector after them: what speaks for and what against a
\* trade on a side.
Reasons(stock, side, context) ==
    LET Trend == stock.stack = side
        Momentum == stock.macd = side
        Stretched == IF side > 0 THEN StockRsi(stock) >= 72 ELSE StockRsi(stock) <= 28
        Leads == (stock.ahead > 0) = (side > 0)
        leads == IF Abs(stock.ahead) > 1 THEN {"strength"} ELSE {}
        past == IF stock.past # None THEN {"history"} ELSE {}
        sector == IF context # None /\ context.label # "Unknown" THEN {"sector"} ELSE {}
        wild == IF MarketState(stock).volatility = "high" THEN {"volatility"} ELSE {}
        for == (IF Trend THEN {"trend"} ELSE {}) \cup (IF Momentum THEN {"momentum"} ELSE {})
               \cup (IF Stretched THEN {} ELSE {"rsi"}) \cup (IF Leads THEN leads ELSE {})
               \cup (IF stock.past # None /\ stock.past >= 55 THEN past ELSE {})
               \cup (IF Supports(side, context) = "against" THEN {} ELSE sector)
    IN  [for |-> for,
         against |-> ({"trend", "momentum", "rsi"} \cup leads \cup past \cup sector \cup wild) \ for]

\* analyze_stock: the recommendation is the outcome model's, the rest context.
\* An ATR of 0 is taken for 2% of the price.
AnalyzeStock(stock, nifty, indices) ==
    LET side == DirectionSide(stock.probs)
        taken == stock.model /\ side # 0 /\ Takes(stock)
        lean == IF side > 0 THEN "BUY" ELSE IF side < 0 THEN "SELL" ELSE None
        argued == IF side = 0 THEN 1 ELSE side
        atr == IF stock.atr = 0 THEN stock.close \div 50 ELSE stock.atr
        context == SectorForStock(stock, nifty, indices)
    IN  IF stock.history # "enough" THEN None
        ELSE [recommendation |-> IF taken THEN lean ELSE "WAIT", leaning |-> lean,
              plan |-> IF side = 0 THEN None ELSE LevelsAt(side, stock.close, atr),
              state |-> MarketState(stock), sector |-> context,
              reasons |-> Reasons(stock, argued, context)]

=============================================================================
