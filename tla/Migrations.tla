----------------------------- MODULE Migrations -----------------------------
(***************************************************************************)
(* The schema of prediction_history.db and how a starting process brings   *)
(* it up to date (run_migrations in app/database/migrations.py, called by  *)
(* the constructors of PredictionStore and MemoryStore, app/api/main.py).  *)
(*                                                                         *)
(* executescript commits what is open and runs its statements one by one   *)
(* outside a transaction, so each of them is a step that lasts; only the   *)
(* version's row has a transaction, of its own.  SQLite is external: one   *)
(* writer at a time, and a statement that finds the database locked for    *)
(* longer than the busy timeout raises.                                    *)
(***************************************************************************)
EXTENDS Integers, Sequences

CONSTANTS
    Processes,      \* starts of the program that may overlap
    Releases,       \* how many of MIGRATIONS a deployed release knows
    MaxFaults       \* bound: crashes and raised statements

VARIABLES
    schema,         \* names of the tables and indexes that exist
    recorded,       \* versions in schema_migrations
    process,        \* per process, where its start stands
    faults          \* crashes and raised statements so far

migrationVars == <<schema, recorded, process, faults>>

-----------------------------------------------------------------------------
(* The scripts: what each statement creates, and the table it is on. *)

Table(t) == [creates |-> t, on |-> t]
Index(i, t) == [creates |-> i, on |-> t]

CreatePredictions ==
    <<Table("predictions"), Index("idx_pred_once", "predictions"),
      Index("idx_pred_status", "predictions"),
      Index("idx_pred_symbol_created", "predictions")>>

CreateMemoryReasoning ==
    <<Table("memory_reasoning"),
      Index("idx_mem_reasoning_confidence", "memory_reasoning")>>

CreateMemoryEmbeddings ==
    <<Table("memory_embeddings"), Index("idx_mem_emb_once", "memory_embeddings"),
      Index("idx_mem_emb_kind", "memory_embeddings")>>

CreateMemoryAggregates ==
    <<Table("memory_aggregates"), Index("idx_mem_agg_dimension", "memory_aggregates")>>

MemoryRetrievalIndexes ==
    <<Index("idx_pred_sector_status", "predictions"),
      Index("idx_pred_regime_status", "predictions"),
      Index("idx_pred_predmodel_status", "predictions"),
      Index("idx_pred_timeframe_created", "predictions")>>

CreateLearningRuns ==
    <<Table("learning_runs"), Index("idx_learning_runs_created", "learning_runs")>>

CreateLearningPatterns ==
    <<Table("learning_patterns"), Index("idx_learning_patterns_run", "learning_patterns"),
      Index("idx_learning_patterns_key", "learning_patterns")>>

CreateLearningPatternStats ==
    <<Table("learning_pattern_stats"), Index("idx_learning_stats_run", "learning_pattern_stats"),
      Index("idx_learning_stats_key", "learning_pattern_stats"),
      Index("idx_learning_stats_status", "learning_pattern_stats")>>

CreateLearningRecommendations ==
    <<Table("learning_recommendations"),
      Index("idx_learning_recs_run", "learning_recommendations"),
      Index("idx_learning_recs_pattern", "learning_recommendations"),
      Index("idx_learning_recs_category", "learning_recommendations"),
      Index("idx_learning_recs_confidence", "learning_recommendations")>>

MIGRATIONS ==
    <<CreatePredictions, CreateMemoryReasoning, CreateMemoryEmbeddings,
      CreateMemoryAggregates, MemoryRetrievalIndexes, CreateLearningRuns,
      CreateLearningPatterns, CreateLearningPatternStats, CreateLearningRecommendations>>

Versions == 1..Len(MIGRATIONS)

\* The tables and indexes of a migration.
Objects(version) == {MIGRATIONS[version][k].creates : k \in 1..Len(MIGRATIONS[version])}

ASSUME MigrationsAssumption ==
    /\ Releases \subseteq Versions
    /\ MaxFaults \in Nat

-----------------------------------------------------------------------------

\* phase: down, before the read of schema_migrations, applying, serving;
\* store: which constructor is at it, PredictionStore's (1) or MemoryStore's
\* (2); done: the versions it read and applied; line: statements of the current
\* migration that have run.
Start == [phase : {"down", "read", "apply", "serve"}, store : 1..2,
          release : Versions \cup {0}, done : SUBSET Versions, line : Nat]

Down == [phase |-> "down", store |-> 1, release |-> 0, done |-> {}, line |-> 0]

Pending(p) == (1..process[p].release) \ process[p].done

\* sorted(MIGRATIONS): the lowest version not skipped.
Current(p) == CHOOSE v \in Pending(p) : \A w \in Pending(p) : v <= w

Script(p) == MIGRATIONS[Current(p)]
Statement(p) == Script(p)[process[p].line + 1]

\* Mutant of Accepted: without IF NOT EXISTS.
AcceptedOnce(statement) ==
    /\ statement.on \in schema \/ statement.creates = statement.on
    /\ statement.creates \notin schema

\* CREATE ... IF NOT EXISTS: only an index on a table that is not there raises.
Accepted(statement) == statement.on \in schema \/ statement.creates = statement.on

Launch(p, release) ==
    /\ process[p].phase = "down"
    /\ process' = [process EXCEPT ![p] = [Down EXCEPT !.phase = "read", !.release = release]]
    /\ UNCHANGED <<schema, recorded, faults>>

\* applied_versions: the bookkeeping table is created if need be, and read.
ReadApplied(p) ==
    /\ process[p].phase = "read"
    /\ process' = [process EXCEPT ![p].phase = "apply", ![p].done = recorded]
    /\ UNCHANGED <<schema, recorded, faults>>

\* A statement that cannot run ends the start; nothing of it is kept.
RunStatement(p) ==
    /\ process[p].phase = "apply"
    /\ Pending(p) # {}
    /\ process[p].line < Len(Script(p))
    /\ IF Accepted(Statement(p))
       THEN /\ schema' = schema \cup {Statement(p).creates}
            /\ process' = [process EXCEPT ![p].line = @ + 1]
       ELSE /\ process' = [process EXCEPT ![p] = Down]
            /\ UNCHANGED schema
    /\ UNCHANGED <<recorded, faults>>

ScriptIsThrough(p) == process[p].line = Len(Script(p))

\* The INSERT of the version, and its commit.
RecordVersion(p) ==
    /\ process[p].phase = "apply"
    /\ Pending(p) # {}
    /\ ScriptIsThrough(p)
    /\ Current(p) \notin recorded
    /\ recorded' = recorded \cup {Current(p)}
    /\ process' = [process EXCEPT ![p].done = @ \cup {Current(p)}, ![p].line = 0]
    /\ UNCHANGED <<schema, faults>>

\* Another process recorded it first: IntegrityError ends the start.
VersionTaken(p) ==
    /\ process[p].phase = "apply"
    /\ Pending(p) # {}
    /\ ScriptIsThrough(p)
    /\ Current(p) \in recorded
    /\ process' = [process EXCEPT ![p] = Down]
    /\ UNCHANGED <<schema, recorded, faults>>

\* Mutant of Returned: MemoryStore's constructor trusts PredictionStore's.
ReturnedAtRead(p) == process[p].phase = "apply"

Returned(p) == process[p].phase = "apply" /\ Pending(p) = {}

\* run_migrations returns; lifespan builds the second store, then serves.
NextStore(p) ==
    /\ Returned(p)
    /\ process' = IF process[p].store = 1
                  THEN [process EXCEPT ![p].phase = "read", ![p].store = 2,
                                       ![p].done = {}, ![p].line = 0]
                  ELSE [process EXCEPT ![p].phase = "serve", ![p].line = 0]
    /\ UNCHANGED <<schema, recorded, faults>>

\* The process dies, at whatever point, or what it runs finds the database
\* locked for too long and raises.
Dies(p) ==
    /\ faults < MaxFaults
    /\ process[p].phase # "down"
    /\ faults' = faults + 1
    /\ process' = [process EXCEPT ![p] = Down]
    /\ UNCHANGED <<schema, recorded>>

MigrationInit ==
    /\ schema = {}
    /\ recorded = {}
    /\ process = [p \in Processes |-> Down]
    /\ faults = 0

StartStep(p) ==
    \/ \E release \in Releases : Launch(p, release)
    \/ ReadApplied(p)
    \/ RunStatement(p)
    \/ RecordVersion(p) \/ VersionTaken(p)
    \/ NextStore(p)

MigrationNext == \E p \in Processes : StartStep(p) \/ Dies(p)

MigrationSpec == MigrationInit /\ [][MigrationNext]_migrationVars

\* A start goes on until it serves or raises, and one that ended is launched
\* again (docker-compose.yml:18, restart: unless-stopped).
StartingSpec == MigrationSpec /\ \A p \in Processes : WF_migrationVars(StartStep(p))

-----------------------------------------------------------------------------
(* Properties *)

MigrationTypeOK ==
    /\ schema \subseteq UNION {Objects(v) : v \in Versions}
    /\ recorded \subseteq Versions
    /\ process \in [Processes -> Start]
    /\ faults \in 0..MaxFaults

\* A version in schema_migrations has all its tables and indexes, whoever ran
\* which of its statements and died after which: only then is it right that
\* every later start skips it (migrations.py:386).
RecordedIsInstalled == \A v \in recorded : Objects(v) \subseteq schema

\* A process that serves finds every table and index its release was written
\* against, also when starts of other releases ran and failed beside it.
ServesOnItsSchema ==
    \A p \in Processes :
        process[p].phase = "serve" =>
            \A v \in 1..process[p].release : Objects(v) \subseteq schema

\* "Safe to call on every startup" (migrations.py:373): once the faults are
\* over every process gets to serve, whatever half of a migration they left;
\* a start that loses the race for a version is retried and finds it applied.
StartsInTheEnd == \A p \in Processes : <>[](process[p].phase = "serve")

=============================================================================
