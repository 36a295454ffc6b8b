---------------------------- MODULE MemoryBuilder ----------------------------
(***************************************************************************)
(* Historical Memory (app/memory): MemoryBuilder turns terminal            *)
(* predictions into reasoning rows, embedding placeholders and aggregate   *)
(* rollups, through MemoryStore, whose every write is a transaction of its *)
(* own.  The embedding generator (app/similarity/embedding.py) fills the   *)
(* placeholders in.                                                        *)
(*                                                                         *)
(* Between two store calls of a builder the monitor settles predictions,   *)
(* the generator and other builders write, a write may fail, the process   *)
(* may die.  A prediction is its rank in created_at; a rollup row is the   *)
(* set of predictions it was computed from, from which all its figures     *)
(* follow.                                                                 *)
(***************************************************************************)
EXTENDS Integers, FiniteSets, Sequences

CONSTANTS
    MaxPredictions, \* bound: predictions ever recorded
    Buckets,        \* keys (dimension, bucket, model_version) of rollups
    BucketsOf,      \* per prediction, the keys it counts in
    Builders,       \* threads in build(), backfill() or refresh_aggregates()
    Retrying,       \* those whose caller starts a backfill again and again
    Limits,         \* limits backfill() is called with (0: none)
    WritesFail      \* may a write of the store raise?

VARIABLES
    status,         \* predictions: "open", "scored" or "withdrawn"
    reasoning,      \* predictions with a row in memory_reasoning
    embedding,      \* per prediction, its row in memory_embeddings
    rollup,         \* per key, its row in memory_aggregates ({}: none)
    job             \* per builder, the call it is in

vars == <<status, reasoning, embedding, rollup, job>>

Predictions == 1..MaxPredictions

ASSUME MemoryAssumption ==
    /\ MaxPredictions \in Nat
    /\ BucketsOf \in [Predictions -> SUBSET Buckets]
    /\ Retrying \subseteq Builders
    /\ Limits \subseteq Nat
    /\ WritesFail \in BOOLEAN

\* todo: predictions the call has still to handle, newest first; batch: is it
\* a backfill; seen, left: what refresh_aggregates read and has yet to write.
IdleJob == [phase |-> "idle", todo |-> <<>>, batch |-> FALSE, seen |-> {}, left |-> {}]

-----------------------------------------------------------------------------
(* What the builder reads *)

\* Mutant of Terminal: list_all instead of list_completed.
AllRecorded == Predictions

\* PredictionStore.list_completed
Terminal == {p \in Predictions : status[p] \in {"scored", "withdrawn"}}

\* Terminal predictions that carry a realised R: what compute_aggregates counts.
Scored == {p \in Predictions : status[p] = "scored"}

Members(k, ps) == {p \in ps : k \in BucketsOf[p]}
BucketsWith(ps) == {k \in Buckets : Members(k, ps) # {}}

\* The terminal predictions, newest first, up to the limit.
NewestFirst(ps, limit) ==
    LET ranked == [i \in 1..Cardinality(ps) |->
                   CHOOSE p \in ps : Cardinality({q \in ps : q >= p}) = i]
    IN  IF limit = 0 THEN ranked
        ELSE SubSeq(ranked, 1, IF limit < Len(ranked) THEN limit ELSE Len(ranked))

-----------------------------------------------------------------------------
(* Calls *)

\* The call goes on after its first prediction.
Handled(b) ==
    LET rest == Tail(job[b].todo)
    IN  [job EXCEPT ![b].todo = rest,
                    ![b].phase = IF rest = <<>> THEN "refresh" ELSE "scan"]

\* build(p): a prediction that is missing or open is skipped.
BeginBuild(b, p) ==
    /\ job[b].phase = "idle"
    /\ p \in Terminal
    /\ job' = [job EXCEPT ![b] = [IdleJob EXCEPT !.phase = "reason", !.todo = <<p>>]]
    /\ UNCHANGED <<status, reasoning, embedding, rollup>>

BeginBackfill(b, limit) ==
    /\ job[b].phase = "idle"
    /\ Terminal # {}
    /\ job' = [job EXCEPT ![b] = [IdleJob EXCEPT !.phase = "scan", !.batch = TRUE,
                                                 !.todo = NewestFirst(Terminal, limit)]]
    /\ UNCHANGED <<status, reasoning, embedding, rollup>>

BeginRebuild(b) ==
    /\ job[b].phase = "idle"
    /\ job' = [job EXCEPT ![b].phase = "refresh"]
    /\ UNCHANGED <<status, reasoning, embedding, rollup>>

\* backfill: reasoning_exists decides whether the prediction is built already.
Scan(b) ==
    /\ job[b].phase = "scan"
    /\ job' = IF Head(job[b].todo) \in reasoning THEN Handled(b)
              ELSE [job EXCEPT ![b].phase = "reason"]
    /\ UNCHANGED <<status, reasoning, embedding, rollup>>

\* _enrich: upsert_reasoning
WriteReasoning(b) ==
    /\ job[b].phase = "reason"
    /\ reasoning' = reasoning \cup {Head(job[b].todo)}
    /\ job' = [job EXCEPT ![b].phase = "check"]
    /\ UNCHANGED <<status, embedding, rollup>>

\* _enrich: embedding_exists
CheckEmbedding(b) ==
    /\ job[b].phase = "check"
    /\ job' = IF embedding[Head(job[b].todo)] # "none" THEN Handled(b)
              ELSE [job EXCEPT ![b].phase = "embed"]
    /\ UNCHANGED <<status, reasoning, embedding, rollup>>

\* MemoryStoreError: a backfill counts the failure and goes on, build() and
\* refresh_aggregates() raise.
Abandoned(b) == IF job[b].batch /\ job[b].phase \in {"reason", "embed"} THEN Handled(b)
                ELSE [job EXCEPT ![b] = IdleJob]

\* Mutant of CreateEmbedding: an upsert instead of the strict insert.
UpsertPlaceholder(b) ==
    /\ job[b].phase = "embed"
    /\ embedding' = [embedding EXCEPT ![Head(job[b].todo)] = "placeholder"]
    /\ job' = Handled(b)
    /\ UNCHANGED <<status, reasoning, rollup>>

\* _enrich: create_embedding, a strict insert.  If somebody was faster it
\* raises MemoryConflictError.
CreateEmbedding(b) ==
    /\ job[b].phase = "embed"
    /\ IF embedding[Head(job[b].todo)] = "none"
       THEN /\ embedding' = [embedding EXCEPT ![Head(job[b].todo)] = "placeholder"]
            /\ job' = Handled(b)
       ELSE /\ job' = Abandoned(b)
            /\ UNCHANGED embedding
    /\ UNCHANGED <<status, reasoning, rollup>>

\* refresh_aggregates: list_completed, then compute_aggregates
ReadCompleted(b) ==
    /\ job[b].phase = "refresh"
    /\ job' = [job EXCEPT ![b] = IF BucketsWith(Scored) = {} THEN IdleJob
                                 ELSE [IdleJob EXCEPT !.phase = "rollup", !.seen = Scored,
                                                      !.left = BucketsWith(Scored)]]
    /\ UNCHANGED <<status, reasoning, embedding, rollup>>

\* Mutant of UpsertAggregate: a row that is there already is left alone.
InsertAggregate(b, k) ==
    /\ job[b].phase = "rollup"
    /\ k \in job[b].left
    /\ rollup' = IF rollup[k] # {} THEN rollup
                 ELSE [rollup EXCEPT ![k] = Members(k, job[b].seen)]
    /\ job' = [job EXCEPT ![b] = IF job[b].left = {k} THEN IdleJob
                                 ELSE [job[b] EXCEPT !.left = job[b].left \ {k}]]
    /\ UNCHANGED <<status, reasoning, embedding>>

\* refresh_aggregates: one upsert_aggregate per row.
UpsertAggregate(b, k) ==
    /\ job[b].phase = "rollup"
    /\ k \in job[b].left
    /\ rollup' = [rollup EXCEPT ![k] = Members(k, job[b].seen)]
    /\ job' = [job EXCEPT ![b] = IF job[b].left = {k} THEN IdleJob
                                 ELSE [job[b] EXCEPT !.left = job[b].left \ {k}]]
    /\ UNCHANGED <<status, reasoning, embedding>>

\* The write that is due raises.
WriteFails(b) ==
    /\ WritesFail
    /\ job[b].phase \in {"reason", "embed", "rollup"}
    /\ job' = Abandoned(b)
    /\ UNCHANGED <<status, reasoning, embedding, rollup>>

-----------------------------------------------------------------------------
(* The others *)

\* The forward-testing engine settles a prediction, or a caller withdraws it.
Resolve(p, how) ==
    /\ status[p] = "open"
    /\ status' = [status EXCEPT ![p] = how]
    /\ UNCHANGED <<reasoning, embedding, rollup, job>>

\* build_and_store, store_embedding: the generator upserts a vector.  Its own
\* backfill takes built records only, but rebuild_embedding embeds whatever
\* prediction it is asked for, an open or unbuilt one as well.
StoreEmbedding(p) ==
    /\ embedding' = [embedding EXCEPT ![p] = "vector"]
    /\ UNCHANGED <<status, reasoning, rollup, job>>

\* The process dies, at any point and as often as it likes, and comes back.
Restart ==
    /\ job' = [b \in Builders |-> IdleJob]
    /\ UNCHANGED <<status, reasoning, embedding, rollup>>

Init ==
    /\ status = [p \in Predictions |-> "open"]
    /\ reasoning = {}
    /\ embedding = [p \in Predictions |-> "none"]
    /\ rollup = [k \in Buckets |-> {}]
    /\ job = [b \in Builders |-> IdleJob]

BuilderStep(b) ==
    \/ \E p \in Predictions : BeginBuild(b, p)
    \/ \E limit \in Limits : BeginBackfill(b, limit)
    \/ BeginRebuild(b)
    \/ Scan(b) \/ WriteReasoning(b) \/ CheckEmbedding(b) \/ CreateEmbedding(b)
    \/ ReadCompleted(b)
    \/ \E k \in Buckets : UpsertAggregate(b, k)
    \/ WriteFails(b)

Next ==
    \/ \E b \in Builders : BuilderStep(b)
    \/ \E p \in Predictions : \E how \in {"scored", "withdrawn"} : Resolve(p, how)
    \/ \E p \in Predictions : StoreEmbedding(p)
    \/ Restart

Spec == Init /\ [][Next]_vars

\* Somebody keeps calling backfill, "the primary mechanism" (builder.py:225), a
\* call that is not interrupted goes on, and a write that is tried again and
\* again does not fail every time.  Another builder may stop anywhere.
Fairness ==
    \A b \in Retrying :
        /\ SF_vars(BeginBackfill(b, 0))
        /\ WF_vars(Scan(b)) /\ WF_vars(CheckEmbedding(b)) /\ WF_vars(ReadCompleted(b))
        /\ WF_vars(job[b].phase \in {"reason", "embed", "rollup"} /\ BuilderStep(b))
        /\ \A p \in Predictions :
              /\ SF_vars(job[b].phase = "reason" /\ Head(job[b].todo) = p /\ WriteReasoning(b))
              /\ SF_vars(job[b].phase = "embed" /\ Head(job[b].todo) = p /\ CreateEmbedding(b))
        /\ \A k \in Buckets : SF_vars(UpsertAggregate(b, k))

\* Crashes come to an end.
FairSpec == Spec /\ Fairness /\ <>[][~Restart]_vars

-----------------------------------------------------------------------------
(* Properties *)

JobType == [phase : {"idle", "scan", "reason", "check", "embed", "refresh", "rollup"},
            todo : Seq(Predictions), batch : BOOLEAN,
            seen : SUBSET Predictions, left : SUBSET Buckets]

TypeOK ==
    /\ status \in [Predictions -> {"open", "scored", "withdrawn"}]
    /\ reasoning \subseteq Predictions
    /\ embedding \in [Predictions -> {"none", "placeholder", "vector"}]
    /\ rollup \in [Buckets -> SUBSET Predictions]
    /\ job \in [Builders -> JobType]

\* "so a vector later populated by the Similarity Engine is never overwritten
\* with NULL" (builder.py:117-118), with the vector stored between a builder's
\* check and its insert as well.
VectorsSurvive ==
    [][\A p \in Predictions : embedding[p] = "vector" => embedding'[p] = "vector"]_vars

\* What the builders write is of completed predictions only: the reasoning, a
\* placeholder, which never precedes it, and the rollups.  A vector may be of
\* any prediction: rebuild_embedding asks for no reasoning (embedding.py:187).
MemoryIsOfTheCompleted ==
    /\ \A p \in reasoning : status[p] # "open"
    /\ \A p \in Predictions : embedding[p] = "placeholder" => p \in reasoning
    /\ \A k \in Buckets : rollup[k] \subseteq Members(k, Scored)

\* `build`, `backfill` and `rebuild-aggregates` "converge to the same final
\* state on repeat" (docs/api/historical-memory.md:191): the rollups end as the
\* completed predictions have them, and stay so.
RollupsConverge == <>[](\A k \in Buckets : rollup[k] = Members(k, Scored))

=============================================================================
