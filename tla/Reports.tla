------------------------------- MODULE Reports -------------------------------
(***************************************************************************)
(* The pages that report performance: /forward/active, /completed, /stats, *)
(* /summary and /breakdown (app/api/forward.py, forward_analytics.py), and *)
(* the /learning pages over one pass of the pipeline                       *)
(* (app/api/learning.py).  All are read-only: each reads the tables when   *)
(* it is asked.  A rate or an average is left as the numbers it comes from.*)
(***************************************************************************)
EXTENDS Learning

CONSTANTS
    MinSignificance,    \* resolved trades below which no interval is read (30)
    MinMeaningful       \* and below which a win rate is not a claim (50)

ReportsAssumption == {MinSignificance, MinMeaningful} \subseteq Nat

ASSUME ReportsAssumption

-----------------------------------------------------------------------------
(* Forward testing *)

OfSymbol(symbol, i) == symbol \in {None, Context(i).symbol}

Composed(ids) == [k \in 1..Len(ids) |-> Compose(ids[k])]

\* /active: open predictions, oldest first.
Active(symbol) ==
    LET newest == NewestFirst({i \in Recorded : rows[i] = Pending /\ OfSymbol(symbol, i)})
    IN  Composed([k \in 1..Len(newest) |-> newest[Len(newest) + 1 - k]])

\* /completed: settled and cancelled ones, newest first.
Completed(symbol) == Composed(NewestFirst({i \in Recorded : rows[i] # Pending /\ OfSymbol(symbol, i)}))

Losses(records) == Cardinality({k \in Positions(records) : records[k].r < 0})

Gross(records, sign) == SumFunction([k \in Positions(records) |-> Max({0, sign * records[k].r})])

\* Only records with a realised result count.  A profit factor is infinite
\* without losses.
Aggregate(records) ==
    LET resolved == Picked(records, {k \in Positions(records) : records[k].r # None})
    IN  [resolved |-> Len(resolved), wins |-> Wins(resolved), losses |-> Losses(resolved),
         total |-> Curve(resolved).equity, gain |-> Gross(resolved, 1), loss |-> Gross(resolved, -1),
         drawdown |-> MaxDrawdown(resolved)]

\* /stats.  The total counts every record; that of one symbol leaves out the
\* cancelled.
Statistics(symbol) ==
    LET performance == Aggregate(Completed(symbol))
        open == Len(Active(symbol))
    IN  [performance |-> performance, open |-> open,
         total |-> IF symbol = None THEN Cardinality(Recorded) ELSE performance.resolved + open]

\* The key of a record in a breakdown; None stands for the bucket `unknown'.
BucketValue(by, record) ==
    CASE by = "regime" -> record.context.regime
      [] by = "confidence" -> ConfidenceBucket(record.context.conf)

\* Mutant of Grouped: records without a value are dropped.
GroupedIfKnown(records, by) ==
    LET groups == {BucketValue(by, records[k]) : k \in Positions(records)} \ {None}
        of(b) == Aggregate(Picked(records, {k \in Positions(records) : BucketValue(by, records[k]) = b}))
    IN  {[bucket |-> b, stats |-> of(b)] : b \in groups}

\* One row for each value that occurs.
Grouped(records, by) ==
    LET groups == {BucketValue(by, records[k]) : k \in Positions(records)}
        of(b) == Aggregate(Picked(records, {k \in Positions(records) : BucketValue(by, records[k]) = b}))
    IN  {[bucket |-> b, stats |-> of(b)] : b \in groups}

\* /breakdown
Breakdown(by, symbol) ==
    LET groups == Grouped(Completed(symbol), by)
    IN  [groups |-> groups, resolved |-> SumFunction([g \in groups |-> g.stats.resolved])]

\* The normal approximation of the interval excludes the coin flip: the
\* distance of w wins from n - w losses exceeds z standard errors of w / n.
IntervalExcludesHalf(w, n) ==
    (2 * w - n) * (2 * w - n) * n > 4 * Z2 * w * (n - w)

\* The status that "refuses to over-claim" (forward_analytics.py:154).
LiveVsBacktest(w, n) ==
    CASE n = 0 -> "no_data"
      [] n > 0 /\ n < MinSignificance -> "building_sample"
      [] n > 0 /\ n >= MinSignificance ->
            IF IntervalExcludesHalf(w, n) THEN "statistically_significant" ELSE "inconclusive"

\* /summary
Summarised(symbol) ==
    LET stats == Statistics(symbol)
        n == stats.performance.resolved
    IN  [stats |-> stats,
         confidence |-> IF n = 0 THEN "no_data" ELSE IF n < MinMeaningful THEN "insufficient_sample" ELSE "building",
         comparison |-> LiveVsBacktest(stats.performance.wins, n)]

-----------------------------------------------------------------------------
(* Learning *)

\* One pass of the pipeline over the tables as they are.
Pass ==
    LET settled == Dataset(Completed(None))
        verdicts == Validate(Patterns([k \in Positions(settled) |-> settled[Len(settled) + 1 - k]]))
    IN  [corpus |-> Len(settled), verdicts |-> verdicts, advice |-> Recommend(verdicts)]

CategoryOf(dimension) ==
    CASE dimension = "symbol" -> "Symbol Observation"
      [] dimension = "market_regime" -> "Regime Observation"
      [] dimension = "confidence_bucket" -> "Confidence Observation"
      [] dimension = "outcome_category" -> "Risk Observation"

AnyPattern == [symbol |-> None, regime |-> None, status |-> None, category |-> None]

\* A dimension that is asked for selects the group of its value, so that two of
\* them together select nothing.
FilterPatterns(verdicts, filter) ==
    LET on(v, dimension, value) == value = None \/ v.group = <<dimension, value>>
    IN  {v \in verdicts :
            /\ filter.status \in {None, v.status}
            /\ on(v, "symbol", filter.symbol)
            /\ on(v, "market_regime", filter.regime)
            /\ filter.category \in {None, CategoryOf(v.group[1])}}

\* /summary of the learning pages
Counts(verdicts) ==
    [s \in {"VALIDATED", "HYPOTHESIS", "INSUFFICIENT_DATA"} |-> Cardinality({v \in verdicts : v.status = s})]

\* The id of a recommendation is a hash of its pattern and type.
RecommendationKey(advised) == <<advised.group, advised.type>>

\* /recommendations
FilterAdvice(advice, category, confidence) ==
    {a \in advice : /\ category \in {None, CategoryOf(a.group[1])}
                    /\ confidence \in {None, a.confidence}}

\* /evidence: what stands behind the recommendations with an id; none when the
\* pass has no such recommendation (404).
EvidenceOf(key, advice) == {a.support : a \in {b \in advice : RecommendationKey(b) = key}}

=============================================================================
