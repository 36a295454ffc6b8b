------------------------------ MODULE Knowledge ------------------------------
(***************************************************************************)
(* The readers of the historical memory while other threads write to it:   *)
(* the dataset builder of the learning pipeline, the similarity search and *)
(* the embedding backfill all walk through the pages of search().  Each    *)
(* page is one read of the predictions table; predictions are inserted,    *)
(* settled and enriched between two pages.                                 *)
(***************************************************************************)
EXTENDS Reports, SequencesExt

CONSTANTS
    PageSize,       \* records of a page (500 in the code)
    CandidateCap,   \* candidates that a search compares (1000)
    Neighbourhood,  \* k
    Threshold,      \* min_similarity, squared, as [num, den]
    Filters,        \* the filters of similarity searches
    InitialTables,  \* bound: what earlier processes left, [rows, built, embedded]
    MaxWalks,       \* bound: datasets and searches begun
    MaxWrites,      \* bound: writes of other threads
    MaxFaults       \* bound: embeddings that fail

VARIABLES
    walk,           \* the walk in progress, None between walks
    dataset,        \* the last dataset that was built, None before
    learned,        \* what the pipeline made of it: patterns with verdicts
    advice,         \* and the recommendations
    found,          \* the last answer of a similarity search, None before
    walks, writes, faults

results == <<dataset, learned, advice, found>>
vars == <<rows, built, vectors, walk, dataset, learned, advice, found, walks, writes, faults>>

\* The records that a page can have, and the vectors that they can get.
Records ==
    {RecordWith(i, row, isBuilt, isEmbedded) :
        i \in Ids, row \in {Pending} \cup Outcomes, isBuilt \in BOOLEAN, isEmbedded \in BOOLEAN}

Embeddings == {FeatureVector(record) : record \in Records}

\* A walk through the pages: the records that it keeps, each with the vector
\* that was read with it; those of the page that are still to be embedded, and
\* those that failed; and the predictions that no page may leave out, with the
\* vectors that they have when it begins.
Walks ==
    [kind : {"dataset", "similar", "backfill"}, filter : Filters \cup {AnyRecord},
     self : Ids \cup {None}, cursor : Ids \cup {None},
     got : Seq([record : Records, vector : Embeddings \cup {None}]),
     todo : Seq(Records), ended : BOOLEAN, failed : SUBSET Ids,
     query : Embeddings \cup {{}},
     steady : SUBSET [id : Ids, vector : Embeddings \cup {None}]]

KnowledgeAssumption ==
    /\ {PageSize, CandidateCap, Neighbourhood} \subseteq Nat \ {0}
    /\ {MaxWalks, MaxWrites, MaxFaults} \subseteq Nat
    /\ \A table \in InitialTables :
         /\ table.rows \in [Ids -> {None, Pending} \cup Outcomes]
         /\ table.embedded \subseteq table.built
         /\ table.built \subseteq {i \in Ids : table.rows[i] # None}
    /\ None \notin Embeddings /\ None \notin Walks

ASSUME KnowledgeAssumption

-----------------------------------------------------------------------------
(* The writers *)

Insert(i) ==
    /\ rows[i] = None
    /\ rows' = [rows EXCEPT ![i] = Pending]
    /\ UNCHANGED <<built, vectors>>

Settle(i, outcome) ==
    /\ rows[i] = Pending
    /\ rows' = [rows EXCEPT ![i] = outcome]
    /\ UNCHANGED <<built, vectors>>

\* The memory builder adds the reasoning row.
Build(i) ==
    /\ rows[i] # None
    /\ built' = built \cup {i}
    /\ UNCHANGED <<rows, vectors>>

\* One prediction is embedded again, over what was there.
Rebuild(i) ==
    /\ rows[i] # None
    /\ vectors' = [vectors EXCEPT ![i] = FeatureVector(Compose(i))]
    /\ UNCHANGED <<rows, built>>

Write ==
    /\ writes < MaxWrites
    /\ writes' = writes + 1
    /\ \E i \in Ids : Insert(i) \/ Build(i) \/ Rebuild(i) \/ \E outcome \in Outcomes : Settle(i, outcome)
    /\ UNCHANGED <<walk, walks, faults>> /\ UNCHANGED results

-----------------------------------------------------------------------------
(* Walking through the pages *)

Begin(kind, filter, self, steady) ==
    [kind |-> kind, filter |-> filter, self |-> self, cursor |-> None,
     got |-> <<>>, todo |-> <<>>, ended |-> FALSE, failed |-> {},
     query |-> IF self = None THEN {} ELSE vectors[self],
     steady |-> {[id |-> i, vector |-> vectors[i]] : i \in steady}]

Settled(filter) == {i \in Recorded : rows[i] # Pending /\ Matches(i, filter)}

BeginDataset ==
    /\ walk = None /\ walks < MaxWalks
    /\ walk' = Begin("dataset", AnyRecord, None, Settled(AnyRecord))
    /\ walks' = walks + 1
    /\ UNCHANGED <<rows, built, vectors, writes, faults>> /\ UNCHANGED results

\* A search by a prediction whose embedding is missing is refused.
BeginSimilar(i, filter) ==
    /\ walk = None /\ walks < MaxWalks
    /\ vectors[i] # None
    /\ walk' = Begin("similar", filter, i, Settled(filter))
    /\ walks' = walks + 1
    /\ UNCHANGED <<rows, built, vectors, writes, faults>> /\ UNCHANGED results

BeginBackfill ==
    /\ walk = None
    /\ walk' = Begin("backfill", AnyRecord, None, built)
    /\ UNCHANGED <<rows, built, vectors, walks, writes, faults>> /\ UNCHANGED results

\* What each walker keeps of the records of a page.
Kept(page) ==
    Picked(page, {k \in Positions(page) :
        CASE walk.kind = "dataset" -> page[k].r # None
          [] walk.kind = "similar" -> vectors[page[k].id] # None
          [] walk.kind = "backfill" -> page[k].built})

\* A similarity search stops at the cap.
TurnPage ==
    /\ walk # None /\ ~walk.ended /\ walk.todo = <<>>
    /\ LET page == Search(walk.filter, PageSize, walk.cursor)
           kept == Kept(page.records)
           all == walk.got \o [k \in 1..Len(kept) |-> [record |-> kept[k], vector |-> vectors[kept[k].id]]]
           full == walk.kind = "similar" /\ Len(all) >= CandidateCap
       IN  walk' = [walk EXCEPT
               !.got = IF full THEN SubSeq(all, 1, CandidateCap) ELSE all,
               !.todo = IF walk.kind = "backfill" THEN kept ELSE <<>>,
               !.cursor = page.next,
               !.ended = full \/ page.next = None]
    /\ UNCHANGED <<rows, built, vectors, walks, writes, faults>> /\ UNCHANGED results

-----------------------------------------------------------------------------
(* The dataset, and what is learnt from it *)

Sorted(records) == Reverse(records)

BuildDataset ==
    /\ walk # None /\ walk.kind = "dataset" /\ walk.ended
    /\ LET records == Sorted(Dataset([k \in 1..Len(walk.got) |-> walk.got[k].record]))
           verdicts == Validate(Patterns(records))
       IN  /\ dataset' = [records |-> records, steady |-> {s.id : s \in walk.steady}]
           /\ learned' = verdicts
           /\ advice' = Recommend(verdicts)
    /\ walk' = None
    /\ UNCHANGED <<rows, built, vectors, found, walks, writes, faults>>

-----------------------------------------------------------------------------
(* The similarity search *)

AnswerSimilar ==
    /\ walk # None /\ walk.kind = "similar" /\ walk.ended
    /\ LET near == Neighbours(walk.query, walk.self, Range(walk.got), Threshold, Neighbourhood)
       IN  found' = [neighbours |-> near, summary |-> Summary(near), self |-> walk.self,
                     query |-> walk.query,
                     oldest |-> IF walk.got = <<>> THEN None ELSE walk.got[Len(walk.got)].record.id,
                     capped |-> Len(walk.got) >= CandidateCap,
                     steady |-> {s \in walk.steady : s.vector # None /\ vectors[s.id] = s.vector}]
    /\ walk' = None
    /\ UNCHANGED <<rows, built, vectors, dataset, learned, advice, walks, writes, faults>>

-----------------------------------------------------------------------------
(* The backfill of the embeddings *)

\* The next record of the page: it is embedded as it was when the page was
\* read, unless somebody embedded it meanwhile; a record that fails is counted
\* and left.
EmbedNext ==
    /\ walk # None /\ walk.todo # <<>>
    /\ LET record == Head(walk.todo)
       IN  \/ /\ vectors' = [vectors EXCEPT ![record.id] = IF @ = None THEN FeatureVector(record) ELSE @]
              /\ walk' = [walk EXCEPT !.todo = Tail(@)]
              /\ UNCHANGED faults
           \/ /\ vectors[record.id] = None /\ faults < MaxFaults
              /\ walk' = [walk EXCEPT !.todo = Tail(@), !.failed = @ \cup {record.id}]
              /\ faults' = faults + 1
              /\ UNCHANGED vectors
    /\ UNCHANGED <<rows, built, walks, writes>> /\ UNCHANGED results

EndBackfill ==
    /\ walk # None /\ walk.kind = "backfill" /\ walk.ended /\ walk.todo = <<>>
    /\ walk' = None
    /\ UNCHANGED <<rows, built, vectors, walks, writes, faults>> /\ UNCHANGED results

-----------------------------------------------------------------------------

\* Earlier processes left predictions, some of them enriched, and some of these
\* embedded by a backfill.
Init ==
    /\ \E table \in InitialTables :
          /\ rows = table.rows /\ built = table.built
          /\ vectors = [i \in Ids |->
                IF i \in table.embedded THEN FeatureVector(RecordOf(i, TRUE, FALSE)) ELSE None]
    /\ walk = None /\ dataset = None /\ learned = {} /\ advice = {} /\ found = None
    /\ walks = 0 /\ writes = 0 /\ faults = 0

Read ==
    \/ BeginDataset \/ BuildDataset
    \/ \E i \in Ids, filter \in Filters : BeginSimilar(i, filter)
    \/ AnswerSimilar
    \/ BeginBackfill \/ EmbedNext \/ EndBackfill

Next == Write \/ TurnPage \/ Read

Spec == Init /\ [][Next]_vars

-----------------------------------------------------------------------------
(* Properties *)

\* Every recommendation is earned by completed trades of its group: by all that
\* were completed when the dataset was begun, at least MinSample, and the side
\* it names is the side of the majority ("evidence-bound").
Earned ==
    \A a \in advice :
        LET member(i) == KeyOf(a.group[1], Compose(i)) = a.group[2]
            won == {i \in a.support : rows[i].r > 0}
        IN  /\ \A i \in a.support : rows[i].r # None /\ member(i)
            /\ {i \in dataset.steady : rows[i].r # None /\ member(i)} \subseteq a.support
            /\ a.sample = Cardinality(a.support) /\ a.sample >= MinSample
            /\ a.type = "HISTORICAL_STRENGTH" => 2 * Cardinality(won) > a.sample
            /\ a.type = "HISTORICAL_WEAKNESS" => 2 * Cardinality(won) < a.sample

\* The correction controls the false discoveries of the whole family: a pattern
\* is validated exactly when it is large enough, its interval excludes the coin
\* flip, and some p-value at least as large as its own is within its share of
\* alpha, m / rank of it (the step-up rule of Benjamini and Hochberg).
FamilyIsCorrected ==
    LET p(v) == PValue(v.wins, v.sample)
        atMost(v) == Cardinality({u \in learned : p(u) <= p(v)})
        share(v) == \E u \in learned : p(u) >= p(v) /\ p(u) * Cardinality(learned) <= atMost(u) * Alpha
    IN  \A v \in learned :
            v.status = "VALIDATED" <=>
                v.sample >= MinSample /\ share(v) /\ ExcludesBaseline(v.wins, v.sample)

\* The groups of a breakdown leave nothing out.
GroupsAddUp(by, symbol) ==
    LET whole == Statistics(symbol).performance
        parts == Breakdown(by, symbol)
    IN  /\ parts.resolved = whole.resolved
        /\ \A figure \in {"wins", "losses", "total", "gain", "loss"} :
              SumFunction([g \in parts.groups |-> g.stats[figure]]) = whole[figure]

\* What the trades from the i-th to the j-th lost together.
LossOfRun(e, i, j) == -SumFunction([k \in i..j |-> e[k].r])

\* The worst loss of any run of consecutive trades, from whichever end.
IsWorst(fall, e) ==
    /\ fall = Max({0} \cup {LossOfRun(e, i, j) : i, j \in 1..Len(e)})
    /\ fall = MaxDrawdown(Reverse(e))

\* Whoever asks for the performance is told the same: the groups of a
\* breakdown leave nothing out and add up to the statistics, whose drawdown is
\* the worst loss of any run of consecutive trades, whichever end the curve is
\* walked from (the rollups of the memory walk it oldest first, the pages of
\* forward testing newest first); and the summary calls significant what the
\* pipeline's interval tells from a coin flip.
ReportsAgree ==
    walk = None =>
        LET all == Summarised(None)
            completed == Completed(None)
            e == Dataset(completed)
            figures == all.stats.performance
        IN  /\ \A symbol \in {None} \cup {Context(i).symbol : i \in Ids}, by \in {"regime", "confidence"} :
                  GroupsAddUp(by, symbol)
            /\ all.stats.total = all.stats.open + Len(completed)
            /\ IsWorst(figures.drawdown, e)
            /\ Len(e) >= MinSignificance /\ ExcludesBaseline(figures.wins, Len(e)) =>
                  all.comparison = "statistically_significant"

\* A recommendation that was given can be traced by its id in every later pass
\* that still gives it: its evidence has all the trades it was given for.  Each
\* is of one validated pattern that the pages of patterns list, in one tier of
\* confidence.
Traceable ==
    walk = None /\ advice # {} =>
        LET now == Pass
            counts == Counts(now.verdicts)
        IN  /\ \A a \in advice : \A support \in EvidenceOf(RecommendationKey(a), now.advice) : a.support \subseteq support
            /\ \A a \in now.advice :
                  LET asked == [AnyPattern EXCEPT !.status = "VALIDATED", !.category = CategoryOf(a.group[1])]
                  IN  /\ \E v \in FilterPatterns(now.verdicts, asked) : v.group = a.group /\ v.sample = Cardinality(a.support)
                      /\ \E tier \in {"HIGH", "MEDIUM", "LOW"} : a \in FilterAdvice(now.advice, asked.category, tier)
            /\ counts["VALIDATED"] = Cardinality(now.advice)
            /\ counts["VALIDATED"] + counts["HYPOTHESIS"] + counts["INSUFFICIENT_DATA"] = Cardinality(now.verdicts)

\* A recommendation stands: the trades it cites earn it, and the trades that
\* earn it are the ones it can be traced to.
RecommendationsStand == Earned /\ Traceable

\* The neighbours of a search are the nearest: none is the query or comes
\* twice, they are in order, and a settled trade whose vector stood still
\* during the search is left out only for nearer ones, for the threshold, or
\* because it is older than the last candidate under the cap.
NeighboursAreTheNearest ==
    found # None =>
        LET near == found.neighbours
            scored(s) == [id |-> s.id, score |-> Cosine(found.query, s.vector)]
            before(m, n) == Above(m.score, n.score) \/ (~Above(n.score, m.score) /\ m.id < n.id)
            listed == {near[p].id : p \in 1..Len(near)}
        IN  /\ found.self \notin listed /\ Len(near) <= Neighbourhood
            /\ \A p, q \in 1..Len(near) : p < q => before(near[p], near[q])
            /\ \A s \in found.steady :
                  \/ s.id \in listed \cup {found.self}
                  \/ Above(Threshold, scored(s).score)
                  \/ Len(near) = Neighbourhood /\ before(near[Len(near)], scored(s))
                  \/ found.capped /\ Older(s.id, found.oldest)

\* A backfill of the embeddings that comes to its end has left no prediction
\* without a vector that was enriched when it began, other than those that
\* failed, however the pages moved meanwhile ("embed every enriched Memory Record
\* that has no populated embedding yet", embedding.py:198).
BackfillLeavesNone ==
    [][walk # None /\ walk.kind = "backfill" /\ walk' = None =>
         \A s \in walk.steady : vectors[s.id] # None \/ s.id \in walk.failed]_vars

=============================================================================
