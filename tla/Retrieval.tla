------------------------------ MODULE Retrieval ------------------------------
(***************************************************************************)
(* Historical memory as it is read (app/memory/retrieval.py): a prediction *)
(* and its satellites composed into a record, the AND-composed filter, the *)
(* descending order by (created_at, prediction_id) and the keyset pages;   *)
(* and the nearest neighbours of a record by the cosine of their feature   *)
(* vectors (app/similarity).                                             *)
(* The rows are those of the tables that other threads write.              *)
(***************************************************************************)
EXTENDS Integers, Sequences, FiniteSets

CONSTANTS
    Ids,            \* prediction ids, ordered as their strings are
    Context(_),     \* what a prediction is recorded with: created, symbol, regime, conf
    Outcomes,       \* the ways of settling: [status, r], r None when cancelled
    None

VARIABLES
    rows,           \* predictions: [status, r] by id, None before the insert
    built,          \* ids that have a row in memory_reasoning
    vectors         \* memory_embeddings: the stored vector by id, None when NULL or absent

Pending == [status |-> "PENDING", r |-> None]

Recorded == {i \in Ids : rows[i] # None}

TradeResults == {"WIN", "LOSS", "EXPIRED", "CANCELLED", "OPEN"}

RetrievalAssumption ==
    /\ Ids \subseteq Nat /\ IsFiniteSet(Ids)
    /\ \A i \in Ids : Context(i).created \in Nat
    /\ \A outcome \in Outcomes : outcome.r = None \/ outcome.r \in Int
    /\ None \notin Ids /\ None \notin Outcomes /\ None # Pending
    /\ None \notin TradeResults /\ None # TRUE

ASSUME RetrievalAssumption

\* Conversion of a status into the result that consumers read.
TradeResult(status) ==
    CASE status = "TARGET_HIT" -> "WIN"
      [] status = "STOP_HIT" -> "LOSS"
      [] status \in {"EXPIRED", "CANCELLED"} -> status
      [] OTHER -> "OPEN"

\* The outcome of a filter is a status, or one of the two aliases.
NormalizedOutcome(outcome) ==
    CASE outcome = "WIN" -> "TARGET_HIT" [] outcome = "LOSS" -> "STOP_HIT" [] OTHER -> outcome

RecordWith(i, row, isBuilt, isEmbedded) ==
    [id |-> i, context |-> Context(i), status |-> row.status, r |-> row.r,
     result |-> TradeResult(row.status), built |-> isBuilt, embedded |-> isEmbedded]

RecordOf(i, isBuilt, isEmbedded) == RecordWith(i, rows[i], isBuilt, isEmbedded)

\* The record of prediction i: everything is read when it is asked for.
Compose(i) == RecordOf(i, i \in built, vectors[i] # None)

AnyRecord == [symbol |-> None, outcome |-> None, confMin |-> None, from |-> None]

\* Every field that is given must agree; a record without a confidence is not
\* in a band of confidences.
Matches(i, filter) ==
    LET context == Context(i)
    IN  /\ filter.symbol \in {None, context.symbol}
        /\ NormalizedOutcome(filter.outcome) \in {None, rows[i].status}
        /\ filter.confMin # None => context.conf # None /\ context.conf >= filter.confMin
        /\ filter.from # None => context.created >= filter.from

\* The order of the pages: i comes after j, which is newer, or has the later
\* id of two that were created at once.
Older(i, j) ==
    LET ci == Context(i).created
        cj == Context(j).created
    IN  ci < cj \/ (ci = cj /\ i < j)

NewestFirst(ids) ==
    [k \in 1..Cardinality(ids) |-> CHOOSE i \in ids : Cardinality({j \in ids : Older(i, j)}) = k - 1]

\* Mutant of Matched: the cursor is compared by the time of creation alone.
MatchedByTime(filter, cursor) ==
    {i \in Recorded : /\ Matches(i, filter)
                      /\ cursor = None \/ Context(i).created < Context(cursor).created}

\* What lies behind the cursor, the key of the last record of the page before.
Matched(filter, cursor) ==
    {i \in Recorded : Matches(i, filter) /\ (cursor = None \/ Older(i, cursor))}

\* One call of search(): a page, and the cursor of the next if there is more.
Search(filter, limit, cursor) ==
    LET ordered == NewestFirst(Matched(filter, cursor))
        more == Len(ordered) > limit
        page == IF more THEN SubSeq(ordered, 1, limit) ELSE ordered
    IN  [records |-> [k \in 1..Len(page) |-> Compose(page[k])],
         next |-> IF more THEN page[limit] ELSE None]

\* The records of a sequence at the places P, in their order.
Picked(s, P) ==
    [n \in 1..Cardinality(P) |-> s[CHOOSE k \in P : Cardinality({j \in P : j < k}) = n - 1]]

-----------------------------------------------------------------------------
(* The feature vector of a record and the search over the stored ones.  The *)
(* one-hot blocks of a vector are the set of its features; the scaled       *)
(* numbers beside them are left out.  The cosine of two such vectors is     *)
(* |A \cap B| / sqrt(|A| |B|), which is compared by its square.             *)

\* A missing value encodes as all zeros.
OneHot(name, value) == IF value = None THEN {} ELSE {<<name, value>>}

\* The vector knows the outcome, and whether an embedding was there before it.
FeatureVector(record) ==
    OneHot("symbol", record.context.symbol)
    \cup OneHot("market_regime", record.context.regime)
    \cup OneHot("trade_result", record.result)
    \cup OneHot("reasoning_present", IF record.built THEN TRUE ELSE None)
    \cup OneHot("embedding_present", IF record.embedded THEN TRUE ELSE None)

\* The square of the cosine, as a fraction.
Cosine(query, vector) ==
    LET common == Cardinality(query \cap vector)
    IN  IF common = 0 THEN [num |-> 0, den |-> 1]
        ELSE [num |-> common * common, den |-> Cardinality(query) * Cardinality(vector)]

Above(a, b) == a.num * b.den > b.num * a.den

\* Mutant of Nearer: of two alike the later id comes first.
NearerBackwards(a, b) == Above(a.score, b.score) \/ (~Above(b.score, a.score) /\ a.id > b.id)

\* Highest similarity first, ties broken by the id.
Nearer(a, b) ==
    \/ Above(a.score, b.score)
    \/ ~Above(b.score, a.score) /\ a.id < b.id

\* The k best of the candidates, without the query itself; a candidate is a
\* record with the vector that was read with it.
Neighbours(query, self, candidates, threshold, k) ==
    LET scored == {[id |-> c.record.id, score |-> Cosine(query, c.vector), result |-> c.record.result,
                    r |-> c.record.r] : c \in {d \in candidates : d.record.id # self}}
        admitted == {n \in scored : ~Above(threshold, n.score)}
        place(n) == Cardinality({m \in admitted : Nearer(m, n)}) + 1
        best == {n \in admitted : place(n) <= k}
    IN  [p \in 1..Cardinality(best) |-> CHOOSE n \in best : place(n) = p]

\* What is said of the neighbours: facts about those that have resolved.
Summary(neighbours) ==
    LET all == 1..Len(neighbours)
        resolved == {p \in all : neighbours[p].r # None}
    IN  [sample |-> Len(neighbours), resolved |-> Cardinality(resolved),
         wins |-> Cardinality({p \in resolved : neighbours[p].r > 0})]

=============================================================================
