------------------------------ MODULE Learning ------------------------------
(***************************************************************************)
(* The learning pipeline (app/learning) as operators on the records of a   *)
(* dataset: candidate patterns, their statistical validation with the      *)
(* correction for multiple comparisons, and the recommendations.  A        *)
(* dataset is a sequence of records [id, context, r, result], oldest       *)
(* first.  PValue, the p-value of w wins in n trades against a coin flip,  *)
(* comes from the error function and is a constant.                        *)
(***************************************************************************)
EXTENDS Retrieval, FiniteSetsExt

CONSTANTS
    Groups,             \* the (dimension, value) pairs in the order that patterns are sorted in
    PValue(_, _),       \* p-value of w wins in n trades, in parts of Certain
    Certain,            \* a p-value of one
    Alpha,              \* the significance threshold, in the same parts
    Z2,                 \* square of the interval's z, rounded (4 for 1.96^2)
    MinCorpus,          \* completed trades below which nothing is concluded
    MinEvidence,        \* the least group that is a pattern
    MinSample,          \* the least sample that is validated (30 in the code)
    Moderate, Strong    \* sample sizes of the confidence rubric (50, 100)

Dimensions == {"symbol", "market_regime", "confidence_bucket", "outcome_category"}

LearningAssumption ==
    /\ {Alpha, Certain, Z2, MinCorpus, MinEvidence, MinSample, Moderate, Strong} \subseteq Nat
    /\ MinEvidence > 0
    /\ Len(Groups) \in Nat
    /\ \A j, k \in 1..Len(Groups) : Groups[j] = Groups[k] => j = k
    /\ \A k \in 1..Len(Groups) : Groups[k][1] \in Dimensions
    /\ \A n \in 1..Cardinality(Ids) : \A w \in 0..n : PValue(w, n) \in 0..Certain

ASSUME LearningAssumption

Positions(dataset) == 1..Len(dataset)

\* A settled record as a row of a dataset; an open or cancelled one has no row.
LearningRecord(record) == [id |-> record.id, context |-> record.context, r |-> record.r, result |-> record.result]

Dataset(records) ==
    LET settled == Picked(records, {k \in Positions(records) : records[k].r # None})
    IN  [k \in 1..Len(settled) |-> LearningRecord(settled[k])]

Wins(records) == Cardinality({k \in Positions(records) : records[k].r > 0})

\* The cumulative result, its peak so far and the deepest fall below a peak.
Curve(records) ==
    LET step[k \in 0..Len(records)] ==
        IF k = 0 THEN [equity |-> 0, peak |-> 0, fall |-> 0]
        ELSE LET equity == step[k - 1].equity + records[k].r
                 peak == Max({step[k - 1].peak, equity})
             IN  [equity |-> equity, peak |-> peak, fall |-> Max({step[k - 1].fall, peak - equity})]
    IN  step[Len(records)]

MaxDrawdown(records) == Curve(records).fall

-----------------------------------------------------------------------------
(* Candidate patterns *)

ConfidenceBucket(conf) == IF conf = None THEN None ELSE Min({9, conf \div 10})

KeyOf(dimension, record) ==
    CASE dimension = "symbol" -> record.context.symbol
      [] dimension = "market_regime" -> record.context.regime
      [] dimension = "confidence_bucket" -> ConfidenceBucket(record.context.conf)
      [] dimension = "outcome_category" -> record.result

MembersOf(group, dataset) ==
    Picked(dataset, {k \in Positions(dataset) : KeyOf(group[1], dataset[k]) = group[2]})

CandidatePattern(k, dataset) == [at |-> k, group |-> Groups[k], evidence |-> MembersOf(Groups[k], dataset)]

\* The groups of a dataset that is large enough, each with its place and its
\* evidence; the smaller groups are dropped.
Patterns(dataset) ==
    {p \in {CandidatePattern(k, dataset) : k \in 1..Len(Groups)} :
        Len(dataset) >= MinCorpus /\ Len(p.evidence) >= MinEvidence}

-----------------------------------------------------------------------------
(* Validation *)

\* The Wilson interval of w wins in n excludes one half when the distance of
\* the rate exceeds z standard errors of the coin flip.
ExcludesBaseline(w, n) == (2 * w - n) * (2 * w - n) > Z2 * n

\* Is the interval narrower than tenths / 10?
WidthBelow(tenths, w, n) ==
    100 * Z2 * (4 * w * (n - w) + n * Z2) < tenths * tenths * n * (n + Z2) * (n + Z2)

Periods(records) ==
    LET n == Len(records)
    IN  <<SubSeq(records, 1, n \div 2), SubSeq(records, n \div 2 + 1, n)>>

\* Does the win rate of the two halves differ by less than tenths / 10?  One
\* record has no halves.
DiffersBelow(tenths, records) ==
    LET halves == Periods(records)
        gap == Wins(halves[1]) * Len(halves[2]) - Wins(halves[2]) * Len(halves[1])
    IN  /\ Len(records) >= 2
        /\ 10 * (IF gap < 0 THEN -gap ELSE gap) <= tenths * Len(halves[1]) * Len(halves[2])

\* The place of a test in its family, sorted by p-value, stably.
Rank(test, family) ==
    Cardinality({t \in family : t.p < test.p \/ (t.p = test.p /\ t.at <= test.at)})

WithinShare(test, family) == test.p * Cardinality(family) <= Rank(test, family) * Alpha

\* Mutant of BenjaminiHochberg: the first rank that fails ends the list.
StepDown(family) ==
    {t \in family : \A s \in family : Rank(s, family) <= Rank(t, family) => WithinShare(s, family)}

\* Everything up to the last rank whose p-value is at most rank / m * alpha.
BenjaminiHochberg(family) ==
    LET last == Max({0} \cup {Rank(t, family) : t \in {s \in family : WithinShare(s, family)}})
    IN  {t \in family : Rank(t, family) <= last}

\* Weak evidence is never promoted.
Classify(w, n, corrected) ==
    IF n < MinSample THEN "INSUFFICIENT_DATA"
    ELSE IF corrected /\ ExcludesBaseline(w, n) THEN "VALIDATED" ELSE "HYPOTHESIS"

\* A pattern with its figures and its verdict.
ValidatedPattern(p, corrected) ==
    LET w == Wins(p.evidence)
        n == Len(p.evidence)
    IN  [group |-> p.group, evidence |-> p.evidence, wins |-> w, sample |-> n,
         drawdown |-> MaxDrawdown(p.evidence), status |-> Classify(w, n, corrected)]

\* Every pattern with its verdict; the family that is corrected is all of
\* them, those too small to be validated included.
Validate(patterns) ==
    LET family == {[at |-> p.at, p |-> PValue(Wins(p.evidence), Len(p.evidence))] : p \in patterns}
        corrected == {t.at : t \in BenjaminiHochberg(family)}
    IN  {ValidatedPattern(p, p.at \in corrected) : p \in patterns}

-----------------------------------------------------------------------------
(* Recommendations *)

\* Mutant of RecommendationType: the bounds of the interval are mixed up.
TypeByOtherBound(pattern) ==
    IF 2 * pattern.wins < pattern.sample THEN "HISTORICAL_STRENGTH" ELSE "HISTORICAL_WEAKNESS"

Unstable(pattern) == pattern.sample >= 2 /\ ~DiffersBelow(4, pattern.evidence)

RecommendationType(pattern) ==
    IF Unstable(pattern) THEN "UNSTABLE_BEHAVIOUR"
    ELSE IF 2 * pattern.wins > pattern.sample /\ ExcludesBaseline(pattern.wins, pattern.sample)
    THEN "HISTORICAL_STRENGTH"
    ELSE "HISTORICAL_WEAKNESS"

\* The rubric: a point for every tier that the sample, the width and the
\* stability reach, and one for the evidence, which is as large as the sample.
RecommendationConfidence(pattern) ==
    LET score == Cardinality({size \in {Moderate, Strong} : pattern.sample >= size})
                 + Cardinality({t \in {2, 4} : WidthBelow(t, pattern.wins, pattern.sample)})
                 + Cardinality({t \in {2, 4} : DiffersBelow(t, pattern.evidence)})
                 + 1
    IN  IF score >= 5 THEN "HIGH" ELSE IF score >= 3 THEN "MEDIUM" ELSE "LOW"

\* What is said of a pattern, with the ids of its evidence.
Recommendation(v) ==
    [group |-> v.group, type |-> RecommendationType(v), confidence |-> RecommendationConfidence(v),
     sample |-> v.sample, support |-> {v.evidence[k].id : k \in Positions(v.evidence)}]

Recommend(verdicts) == {Recommendation(v) : v \in {w \in verdicts : w.status = "VALIDATED"}}

=============================================================================
