------------------------ MODULE DecisionIntelligence ------------------------
(***************************************************************************)
(* The composed view of one prediction (app/decision_intelligence): four   *)
(* sections read from the stores one after the other, the evidence graph,  *)
(* the statements for and against, what is missing, and the confidence in  *)
(* the assembled evidence.  Everything here is a function of the stored    *)
(* record and of what the three other engines answered.                    *)
(*                                                                         *)
(* Probabilities and win rates are percentages; scores and weights are in  *)
(* ten thousandths, in which every figure of the code is exact.            *)
(***************************************************************************)
EXTENDS Naturals, FiniteSets, FiniteSetsExt

CONSTANT None           \* Python's None

Contributors == {"prediction", "historical_memory", "similarity", "learning"}

(***************************************************************************)
(* A stored prediction is a record [id, symbol, direction, conf, outcome,  *)
(* planned, r]: its decision, the probability of its direction and of its  *)
(* outcome, whether an entry and a stop were stored, and its result once   *)
(* it is decided.                                                          *)
(***************************************************************************)

-----------------------------------------------------------------------------
(* The four sections *)

Section(status, source, payload, evidence) ==
    [status |-> status, source |-> source, payload |-> payload, evidence |-> evidence]

PredictionSection(record) ==
    Section("COMPLETE", record.id,
            [direction |-> record.direction, conf |-> record.conf, outcome |-> record.outcome,
             planned |-> record.planned],
            {record.id})

\* The read of the memory record: "found", "absent" or "raised".  A read that
\* raised counts as absent.
MemorySection(record, read) ==
    LET present == read = "found"
        resolved == record.r # None
    IN  Section(IF present /\ resolved THEN "COMPLETE" ELSE "INSUFFICIENT_DATA", record.id,
                [present |-> present, resolved |-> resolved], {record.id})

\* Similar cases that are asked for.
SimilarityK == 5

\* The read of the neighbours: None when it raised, or [available, cases, win],
\* where the cases are the neighbours found and win their win rate.
SimilaritySection(record, read) ==
    IF read = None \/ read.available = FALSE \/ read.cases = {}
    THEN Section("INSUFFICIENT_DATA", record.id, [count |-> 0, win |-> None], {})
    ELSE Section("COMPLETE", record.id, [count |-> Cardinality(read.cases), win |-> read.win],
                 read.cases)

\* The read of the learning provider: None without one or when it raised, or
\* [enough, patterns, matching]: whether the corpus is large enough, how many
\* patterns were validated and the recommendations about this very setup.
LearningSection(record, read) ==
    IF read = None \/ read.enough = FALSE
    THEN Section("INSUFFICIENT_DATA", record.id, [patterns |-> 0, matching |-> 0], {})
    ELSE Section(IF read.matching = {} THEN "INSUFFICIENT_DATA" ELSE "COMPLETE", record.id,
                 [patterns |-> read.patterns, matching |-> Cardinality(read.matching)],
                 read.matching)

\* What the engines may answer.
IsRead(read) ==
    /\ read.similar # None =>
         IsFiniteSet(read.similar.cases) /\ Cardinality(read.similar.cases) <= SimilarityK
    /\ read.learning # None => IsFiniteSet(read.learning.matching) /\ read.learning.patterns \in Nat

OverallStatus(sections) ==
    LET statuses == {sections[s].status : s \in Contributors}
    IN  IF "ERROR" \in statuses THEN "ERROR"
        ELSE IF statuses = {"COMPLETE"} THEN "COMPLETE" ELSE "PARTIAL"

\* The record is read once, before the other engines are asked.
Compose(record, reads) ==
    LET sections ==
            [s \in Contributors |->
                CASE s = "prediction" -> PredictionSection(record)
                  [] s = "historical_memory" -> MemorySection(record, reads.memory)
                  [] s = "similarity" -> SimilaritySection(record, reads.similar)
                  [] s = "learning" -> LearningSection(record, reads.learning)]
    IN  [id |-> record.id, status |-> OverallStatus(sections), sections |-> sections]

Complete(decision) == {s \in Contributors : decision.sections[s].status = "COMPLETE"}

-----------------------------------------------------------------------------
(* The explanation *)

\* The facets of a section and whether the composition carries them.
Facets(s, payload) ==
    CASE s = "prediction" ->
            {<<"confidence", payload.conf # None>>, <<"direction", TRUE>>, <<"risk", payload.planned>>}
      [] s = "historical_memory" -> {<<"records", payload.present>>, <<"aggregates", FALSE>>}
      [] s = "similarity" ->
            {<<"neighbours", payload.count > 0>>, <<"similarity_score", payload.win # None>>}
      [] s = "learning" ->
            {<<"patterns", payload.patterns > 0>>, <<"statistics", payload.patterns > 0>>,
             <<"recommendations", payload.matching > 0>>}

FacetNames ==
    {"confidence", "direction", "risk", "records", "aggregates", "neighbours", "similarity_score",
     "patterns", "statistics", "recommendations"}

Poor(percentage) == percentage # None /\ percentage < 50

For(decision) == Complete(decision)

\* Sections that say nothing, and figures that speak against the decision.
Against(decision) ==
    LET prediction == decision.sections["prediction"]
        similarity == decision.sections["similarity"]
    IN  {<<s, "absent">> : s \in Contributors \ Complete(decision)}
        \cup (IF Poor(prediction.payload.outcome) THEN {<<"prediction", "outcome">>} ELSE {})
        \cup (IF similarity.status = "COMPLETE" /\ Poor(similarity.payload.win)
              THEN {<<"similarity", "win rate">>} ELSE {})

\* A section that is not complete is missing as a whole; of a complete one, the
\* facets that were not composed are.
MissingOf(section, s) ==
    CASE section.status = "INSUFFICIENT_DATA" -> {<<s, None, "INSUFFICIENT_DATA">>}
      [] section.status \in {"ERROR", "EMPTY"} -> {<<s, None, "NOT_AVAILABLE">>}
      [] section.status = "COMPLETE" ->
            {<<s, facet[1], "NOT_SUPPORTED">> : facet \in {f \in Facets(s, section.payload) : ~f[2]}}

Missing(decision) == UNION {MissingOf(decision.sections[s], s) : s \in Contributors}

\* The graph of the evidence: the decision, its sections and their facets, each
\* with its state.
FacetNodes(section, s) ==
    {[path |-> <<s, facet[1]>>,
      status |-> IF section.status # "COMPLETE" THEN section.status
                 ELSE IF facet[2] THEN "COMPLETE" ELSE "EMPTY"] : facet \in Facets(s, section.payload)}

Graph(decision) ==
    {[path |-> <<>>, status |-> decision.status]}
    \cup UNION {{[path |-> <<s>>, status |-> decision.sections[s].status]}
                \cup FacetNodes(decision.sections[s], s) : s \in Contributors}

-----------------------------------------------------------------------------
(* The confidence in the evidence *)

Full == 10000

Weight(factor) ==
    CASE factor = "historical_memory" -> 1500
      [] factor = "evidence_quality" -> 2500
      [] OTHER -> 2000

\* How good the evidence of a factor is, in thousandths.  Eight neighbours are
\* full evidence, and any neighbour at all is worth 300.
Value(decision, factor) ==
    LET payload == decision.sections[factor].payload
    IN  IF factor = "evidence_quality" THEN 250 * Cardinality(Complete(decision))
        ELSE IF factor \notin Complete(decision) THEN 0
        ELSE CASE factor = "prediction" -> IF payload.conf # None THEN 1000 ELSE 600
               [] factor = "similarity" -> Max({300, Min({1000, 125 * payload.count})})
               [] OTHER -> 1000

\* Figures that contradict the direction, and complete sections without source.
Conflicts(decision) ==
    LET prediction == decision.sections["prediction"]
        similarity == decision.sections["similarity"]
    IN  (IF prediction.payload.direction \in {"BUY", "SELL"} /\ Poor(prediction.payload.outcome)
         THEN {<<"OUTCOME_DISAGREEMENT", "prediction">>} ELSE {})
        \cup (IF similarity.status = "COMPLETE" /\ Poor(similarity.payload.win)
              THEN {<<"SIMILARITY_DISAGREEMENT", "similarity">>} ELSE {})
        \cup {<<"INCOMPLETE_PROVENANCE", s>> :
                s \in {c \in Complete(decision) : decision.sections[c].source = None}}

ConflictPenalty == 1000

\* Mutant of Gap: any evidence counts in full.
GapOfTheAbsent(decision, factor) ==
    IF Value(decision, factor) = 0 THEN Weight(factor) ELSE 0

Gap(decision, factor) == (Weight(factor) * (1000 - Value(decision, factor))) \div 1000

Penalty(decision) ==
    Gap(decision, "prediction") + Gap(decision, "historical_memory") + Gap(decision, "similarity")
    + Gap(decision, "learning") + Gap(decision, "evidence_quality")
    + ConflictPenalty * Cardinality(Conflicts(decision))

Score(decision) == IF Penalty(decision) > Full THEN 0 ELSE Full - Penalty(decision)

\* The penalties are summed in floating point, and a score of 0.20 comes out
\* just below the bound of LOW.  No score falls on another bound.
Level(score) ==
    IF score >= 7500 THEN "HIGH"
    ELSE IF score >= 5000 THEN "MEDIUM"
    ELSE IF score > 2000 THEN "LOW" ELSE "INSUFFICIENT"

\* What the objects are ordered by: complete sections, attributed sections, the
\* breadth of the sample up to ten, and the absence of conflicts.
Prioritisation(decision) ==
    LET attributed == {s \in Contributors : decision.sections[s].source # None}
        sample == decision.sections["similarity"].payload.count
                  + decision.sections["learning"].payload.patterns
    IN  1250 * Cardinality(Complete(decision)) + 500 * Cardinality(attributed)
        + 200 * Min({10, sample}) + 250 * (4 - Min({4, Cardinality(Conflicts(decision))}))

Assess(decision) ==
    [score |-> Score(decision), level |-> Level(Score(decision)),
     priority |-> Prioritisation(decision), conflicts |-> Conflicts(decision)]

=============================================================================
