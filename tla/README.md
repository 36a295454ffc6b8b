# Aegis Trading AI: TLA+ models, model checking and proofs

Aegis is a FastAPI service that reads markets, makes trade calls and keeps an honest record of how
they turn out. Nothing it does places an order; what it must get right is the *record*: that every
call is stored once, judged by the same rule whenever somebody looks, never rewritten afterwards,
summed up without double counting and retold without embellishment - while requests, background tasks
and worker threads interleave, fetches fail and the process restarts. That record is the core of
these modules; around it stand the parts that decide what a call is and the parts that talk about it.

## 1. The system

| part | state it keeps | operations | who touches it |
|---|---|---|---|
| forward testing (`app/forward_testing`, `app/api/forward*.py`) | the `predictions` table: what was captured at creation, status, outcome | `record`, `update_status`, `update_resolution`, `monitor_once`, `statistics`; lists, summary, breakdowns | request handlers on the event loop; passes in worker threads |
| monitor (`app/forward_testing/monitor.py`) | one asyncio task, the thread of its pass | `start`, `stop`, `_loop`, `run_pass` | whoever owns the monitor |
| paper tracker (`app/tracking/tracker.py`, `app/api/main.py`) | the `calls` table; the auto-log setting in memory | POST /calls, /calls/ai, /round, /autolog; GET /calls; DELETE /calls, /calls/recent; `_autolog_loop` | coroutines that await candle fetches between reading and writing |
| historical memory (`app/memory`) | `memory_reasoning`, `memory_embeddings`, `memory_aggregates` | `build`, `backfill`, `refresh_aggregates`; composed reads in pages | handlers, the `on_resolved` hook; the embedding generator (`app/similarity`) writes embeddings |
| learning, similarity (`app/learning`, `app/similarity`, `app/api/learning.py`) | none of their own | datasets, patterns, validation, recommendations; nearest neighbours; embedding backfill | request handlers over the tables that others write |
| candle providers and the live socket (`app/stream`, `/ws/signals`) | a handler's buffer; the market's history is outside | `fetch_history`, `stream_candles`, the poll fallback | everything above; one handler per client |
| database (`app/database`) | `schema_migrations` and the schema | `run_migrations`, `get_connection` | every start of the program |
| agent (`app/agent`, `app/api/agent.py`) | sessions in memory, plans, authorizations | suggest, plan, authorize, execute | request handlers, tools, a language model |
| workflow (`app/workflow`) | workflow definitions and states | definition checks, state transitions | library code and tests; the runtime is not written yet |
| decision intelligence (`app/decision_intelligence`) | none | composition, evidence graph, confidence, priority | conversation, `app/api/intelligence.py` |
| conversation (`app/conversation`, `app/api/chat.py`) | sessions and their turns | classify, resume, retrieve, prompt, answer | request handlers, a language model |
| signals (`app/features`, `app/indicators`, `app/decision`, `app/risk`, `app/service.py`) | the `rules` table; otherwise pure | features, gate, plan, checklist | the socket, the assistant, the backtest |
| assistant (`app/chat`) | none | a reply with the lines it draws on a chart | POST /chat |
| stock reports (`app/screener.py`, `intelligence.py`, `sector.py`) | none | a trade per stock, its reasons, the ranking | command line, request handlers |
| backtest, training, evaluation | model files | walks along bars, labels, splits | offline |
| nightly retrain (`app/scripts`) | model files, a history file | `main` | a scheduler |

How they interact: candles become features, features and the model's reading a signal and a plan; a
recommendation is recorded with POST /forward/prediction; a monitoring pass fetches candles, asks the
resolver and writes the outcome; terminal predictions feed memory; learning and similarity page through
memory; decision intelligence composes one prediction with all of these; the conversation answers from the
composition. The paper tracker is an older, separate record with its own table and its own resolver,
judged lazily whenever somebody lists the calls. Backtests and training score trades once more, each with
a walk of its own.

What is hard in it:

* A handler reads, awaits a fetch and writes what it read; several passes hold the same open records with
  candles of different age; a pass's thread outlives the task that was cancelled.
* The newest candle a provider serves is still moving; a socket breaks and becomes a poll.
* Writes of several steps are not one transaction (scripts of migrations, building memory, rollups), and
  the process may die between any two. Two processes start beside each other.
* Readers walk through pages of tables while other threads write.
* The same rule is written several times (six walks score a trade; two reports choose one).
* Features must not know the next candle, and evaluations must not judge what was fitted.
* A language model sits in three places, and may fail, or be handed less than the reply says.

`PROJECT.json` lists these hazards line by line, with the properties that catch them, or why none does.

## 2. Modules

| module | models | extends |
|---|---|---|
| `Resolver` | `resolve_prediction` as "the verdict at the first index that decides", and `resolve_call` of the tracker in the same form | |
| `Market` | price history, the bar in progress, the feed | `Resolver` |
| `ForwardTesting` | predictions table, passes, readers, restarts | `Market` |
| `ForwardLedger` | the promise of forward testing, abstractly | |
| `CallTracker` | calls table and every handler on it | `Market` |
| `MonitorLifecycle` | the monitor's task, its threads, its callers | |
| `MemoryBuilder` | builder, store, generator, rollups | |
| `LiveStream` | one client of /ws/signals and the stream of its provider | `Market` |
| `Migrations` | schema, migrations, overlapping starts | |
| `Planner`, `Executor`, `Agent` | plan; authorization; run; routes and sessions of /agent | each other |
| `Adviser` | the tool registry and the planning advice of a language model | `Planner` |
| `WorkflowDefinition` | the validator of definitions, iteration by iteration | |
| `WorkflowSession` | one run of a validated workflow under an external runtime | `WorkflowDefinition` |
| `Retrieval` | composed records, filter, order, keyset pages, cosine neighbours | |
| `Learning` | patterns, validation with step-up correction, recommendations | `Retrieval` |
| `Reports` | the pages of /forward and /learning | `Learning` |
| `Knowledge` | readers that walk through pages while other threads write | `Reports` |
| `DecisionIntelligence` | sections, evidence graph, conflicts, confidence, priority | |
| `AnswerPipeline` | intents, entities, retrieval, prompt budget, provider failures | `DecisionIntelligence` |
| `Conversation` | sessions, turns and the /chat/* responses | `AnswerPipeline` |
| `Structure`, `CandlePatterns` | smart-money features and price-only indicators; both candlestick libraries | `Resolver` |
| `Signals` | gate, plan, service, checklist | `CandlePatterns` |
| `Backtest` | training labels and both backtests | `Signals` |
| `WalkForward` | the splits of the evaluations, purged or not | |
| `StockReport` | screener, stock report, sector strength | `Resolver` |
| `Assistant` | the legacy POST /chat | `Signals` |
| `*_proofs` | theorems about `ForwardTesting` (with `Resolver` and `MonitorLifecycle`), `CallTracker` and `LiveStream` (both in `Market_proofs`), `MemoryBuilder` and `Migrations` (both in `Database_proofs`), `Agent` (with `Planner`, `Executor`, `Adviser` and the registry of `MCAgent`), `WorkflowSession` (with `WorkflowDefinition`), `Conversation` (with `AnswerPipeline` and `DecisionIntelligence`), `Knowledge` (with `Retrieval`, `Learning` and `Reports`), `MCResearch` (with the pure modules) | their module, `TLAPS` |
| `MCForwardTesting`, `MCCallTracker`, `MCMemoryBuilder`, `MCAgent`, `MCWorkflow`, `MCLiveStream`, `MCKnowledge`, `MCAnswers` | instances for TLC | |
| `MCResearch` | the pure parts on every short history | `Backtest`, `WalkForward`, `Assistant`, `StockReport` |

### What is abstracted everywhere

Prices are integers, because the code compares and subtracts them; where the code halves a distance the
unit is a half or a third. A realised R is the pair (gain, risk) the code divides and rounds. Candle times
are bar numbers. Names, texts, sizes and second targets, where nothing depends on them, are left out. A store
method that runs under its lock in one transaction is one step; a request whose handler awaits nothing is
one step, or a sequence of steps that no other request comes between. Operators commented "Mutant of X" are deliberately wrong variants that
show that a property depends on X; no specification uses them.

### Resolver

The code walks candles and returns at the first that touches a barrier, stop before target, or - in
forward testing only - is the `max_hold_bars`-th after the origin. The modules say the same without
a loop, so that it can be reasoned about; `MCResearch` holds the loop as a recursive function `Walk` and
compares.

### Market

`closed[s]` are the completed bars, `forming[s]` the bar in progress. `Tick` widens it, `CloseBar`
completes it and opens the next. `Feed(s, window)` is `fetch_history`: the last `window` bars, the
last of them the one in progress (`ServesForming`), which the providers mark closed like the others.
The market is external to the program, the feed is not.

### ForwardTesting, ForwardLedger

`rows` is the table, a row's position its age. `pass[w]` is what worker `w` holds: the rows to do
(`todo`, read once by `BeginPass`), then the candles of the oldest (`Fetch`), then `Settle`, which
asks the resolver and writes through `Resolved` - `update_resolution`, which reads the row and refuses a terminal one, or writes,
under the store's lock. The lock is of one process and the `UPDATE` itself has no guard (`store.py:203-221`, `:237-241`): monitors in
two processes over one file are not covered. `FetchFails` skips the row, `PassFails` is any other exception, which the loop
swallows. `reader[r]` walks the three reads of `statistics()`. `Record` and `UpdateStatus` are callers of
the API and of the store. `Restart` forgets every pass and reader. Workers model both several
monitors and the thread a cancelled task leaves behind.

The ledger is a list of entries: `Log` appends an open one, `Settle` gives one the verdict that the history has for it at that moment,
`Withdraw` closes one by hand, `Advance` completes a bar. No passes,
no snapshots, no failures. `ForwardTesting!Ledger` maps the table to it.

### CallTracker

`calls` is the table. `listing[l]` is a GET /calls between its awaits: the snapshot of the whole
table, the markets still to score (`ScoreMarket`, or `SkipMarket` when the fetch raises), then
`SaveAll`, which updates by id whatever is in the table by then. `logger[g]` is a POST /calls/ai,
or the auto-log loop (`AutoLoop`), between its fetch and `_record_ai_call` (`LogPick`, `NoPick`).
`PlaceRound` inserts both bets of a POST /round without an await between them; `RoundCutShort` is the
process dying between the two. `Added` is `INSERT` under the partial unique index: a second AI pick
of a candle is dropped. `Clear`, `RemoveLast`, `RecordCall`, `SetAutolog` are the other handlers.

### MonitorLifecycle

`task` is `self._task`; `loops[t]` says where the loop's coroutine stands, whether it was cancelled,
and what its worker thread does; `stopper[c]` is the task a `stop()` awaits. One step is one turn of the
event loop; threads end on their own time, or never.

### MemoryBuilder

A builder's call goes store call by store call: `Scan` (`reasoning_exists`), `WriteReasoning`,
`CheckEmbedding`, `CreateEmbedding` (a strict insert), `ReadCompleted`, one `UpsertAggregate` per
row. `WriteFails` is the `MemoryStoreError` that `backfill` counts and the others raise. In
between, `Resolve` settles predictions, `StoreEmbedding` is the generator, `Restart` the process. The generator's backfill asks whether a
prediction is enriched, `rebuild_embedding` (`embedding.py:187`) does not, so `StoreEmbedding` may write the vector of any prediction.
A rollup row is the set of predictions it was computed from.

### Migrations

The nine scripts are modelled object by object (`Objects`, `Script`). `executescript` commits what is open
and runs each statement by itself, so `RunStatement` is a step that lasts; `RecordVersion` is the
transaction of the version's row, `VersionTaken` the primary key that refuses it when another process was
first. `NextStore` goes from the `PredictionStore`'s constructor to the `MemoryStore`'s, which runs the
migrations again. `Dies` is a crash or a raised statement at any point. A release may know one version only, as
before Historical Memory.

### LiveStream

`TickIsSent`, `CloseIsSent` and `SendForming` are the exchange; `Drop` breaks the connection and loses
what is on the wire. The handler sends a history (`SendHistory`), then `Receive`s or `Poll`s; `Blocked` is the
refusal after which Binance is polled for good, `Reconnect` the retry, `HistoryFails` and `Upset` the
failures that end a connection attempt or the socket, `Leave` the client. A provider that is polled from
the start is Yahoo.

### Planner, Executor, Agent, Adviser

A request goes through `AskForPlan` (POST /agent/plan: `_select` and the checks that refuse at once are
its guard), `SortTools` (one layer found, or one tool of it placed, of `_topological_order`) and
`AnswerPlan` or `RefusePlan`; `Authorize` is one step; `Execute` begins a run, `ExecuteStep` is one step of
`Executor.execute` - denied, skipped, unavailable, completed or failed, in the order of the checks in
`_run_step` - and its end. The handlers await nothing, so `Free` keeps every other request out until the
one in progress has ended; what does come in between is the end of the process (`Restart`), at any step.

The server keeps only the sessions. `plan` and `authorization` are in the hands of a client, who may send
them back after a restart, to a release with another `Catalog`, or an authorization that belongs to
another plan of the same tools: a plan is identified by the hash of its tool sequence, so
`authorization.tools = plan.tools` is all `_validate` asks for. The client here sends plans and
authorizations that the server made. Tool ids are numbers, because the registry sorts by id. `Fails` is an
invoker that raises or reports a failure; the echo invoker the program ships never does. Likewise every
tool of the default registry is available and read-only: `Restricted` and `Catalogs` are what the library
supports and its tests use.

A run is over with `EndRun`; `Overall` is the outcome the result carries. A session that was deleted, or
lost with the process, is "DROPPED"; the states after PLANNING are never entered by any route.

`Adviser` has the registry's operations and the adviser as operators: what a provider answers or raises becomes a
suggestion or a normalised error, and the task a client makes of the suggestion is one the planner takes.

### WorkflowDefinition, WorkflowSession

`Take` is a definition that `create()` accepted, or one that `from_dict` read back unchecked; `CheckShape` is every check of
`validate` that needs no search. `VisitRoot` and `VisitNext` are the turns of `_has_cycle`, with its colours and its stack of calls (`frames`);
`BeginSearch`, `SearchNext`, `EndSearch` those of `_reachable_from`. The issues are a set of codes with their subjects.
`WorkflowSession` puts a runtime around the value objects: `WalkTo` follows any transition of the current step,
`ReportCompleted` reports a step again, `Transition` asks for any state, `TakeCheckpoint` stores what the session is at.
The program has no such runtime, so that part is external and as impatient as the operations allow.

### Retrieval, Learning, Reports, Knowledge

`rows`, `built` and `vectors` are the tables that readers see. `RecordOf` and `Compose` put a prediction and its satellites
together; `Search` is one keyset page of what `Matches`. `Learning` turns a dataset into groups, validated patterns
(`BenjaminiHochberg`; the p-value comes from the error function and is the constant `PValue`, from a table of the real values in the
instance) and recommendations. `Reports` are the pages that tell performance. `Knowledge` has the processes: `TurnPage`
is one read of one page by whoever is walking - a dataset (`BeginDataset` ... `BuildDataset`), a similarity search
(`BeginSimilar` ... `AnswerSimilar`) or the embedding backfill (`BeginBackfill`, `EmbedNext`, `EndBackfill`) - and between two pages
others `Insert`, `Settle`, `Build` and `Rebuild`.

### DecisionIntelligence, AnswerPipeline, Conversation

`Compose` makes the four sections out of the record and what the other engines answer (found, absent, raised); `Graph`, `For`, `Against`,
`Missing`, `Score`, `Level` and `Prioritisation` are functions of them, with scores in ten thousandths, where the code's figures are whole.
`AnswerPipeline` goes from a message - the registry's words in it, an identifier, a ticker - over `Classify`, `Retrieve`, `BuildPrompt` with its `Trim`
to `NormaliseError` and the HTTP status. `Conversation` keeps the sessions: `Post`, `PostNew`, `PostBlank`, `Create`, `Close`, `Expire`, while `Arrive` and
`Settle` change the store. A turn stays recorded when its answer fails; the answers themselves are stored nowhere.

### Structure, CandlePatterns, Signals, Backtest, Assistant, WalkForward, StockReport

Each operator gives a column's value at bar `i` of a frame `bars`, so "does not look ahead" is a statement about two frames that
agree up to `i`. What divides (moving averages, oscillators) enters as a `reading`. The loops that carry something from bar to bar are recursive functions of
their steps: `StructureWalk` (the last swings, the trend), `SupertrendWalk` (the band), `Backtest!BookWalk` (until when a position is open, the trades taken).
`Backtest!Offers` has a trade for every decisive bar, as if it were the only one, where `Backtester.run` analyses the bars it does not jump over; an analysis
leaves nothing behind, so the trades taken are the same. `Signals!Analyze` is the gate, the plan and the downgrade to WAIT; `Backtest` the labels and both walks;
`WalkForward` the splits as pairs of row sets, rows being bars, and calls in `MetaFold`; `Assistant!Rounded` the two decimals to which the assistant rounds
the price it watches, the entry it names and the stop it estimates, but not the lines at a tapped price; `Assistant!Chat` the endpoint with a model that answers, fails or is not there, whose reply
keeps the lines drawn on the chart; `StockReport` the two copies of the stock trade. `MCResearch` chooses a study, prints candles one at a
time, and asks the properties of every history so reached.

## 3. Runs

| run | question | result |
|---|---|---|
| `forward` | the loop's worker and one that may hang anywhere, callers writing statuses by hand, failing fetches and passes, restarts: does the table implement the ledger (`ImplementsLedger`), is every outcome the replay's (`VerdictIsReplay`), does `statistics()` count nothing twice (`NeverCountedTwice`), is a trade the market has decided settled in the end (`DecidedIsSettled`)? | holds |
| `tracker` | two overlapping listings, a request for a pick, the auto-log loop and its switch, rounds, undo, failed fetches, crashes, on the program's own feed: is a call decided at its first touch, are both bets of a round decided by the same bar, is there one AI pick per candle, does what was removed stay removed? | holds |
| `monitor` | one owner who stops and starts at will, threads that may hang for ever: one live loop, `running` tells the truth, a bad pass is followed by another | holds |
| `memory` | two builders, one of which may stop anywhere, the monitor, the generator, failing writes, a process that may die at any step: reasoning, placeholders and rollups are of completed predictions only, vectors are never lost, rollups converge | holds |
| `agent` | every dependency graph over three tools (cycles included), planning by goal and by keyword, five policies, every set of grants, failing and unavailable tools, a restart with another catalog at any step: plans fit their task, nothing runs that is not available, allowed, approved and ready, the audit trail tells the run, advice can be planned, every request ends | holds |
| `deployment` | two starts beside each other, each of a present or an early release, two crashes or raised statements: who serves has its schema, and in the end both serve | holds |
| `workflow` | every graph over three steps, 512 over four, malformed definitions: do the searches find exactly the cycles and the unreachable steps, can what validates be walked to an end, does a session keep its record? | holds |
| `live_stream` | Binance, Binance behind a block, Yahoo; broken connections, lost messages, failing fetches: closed candles are final and come once, and the chart catches up | holds |
| `knowledge` | datasets, similarity searches and embedding backfills over a table that others write: recommendations are earned and traceable, the correction is the step-up rule, all reports agree, neighbours are the nearest, a backfill leaves none | holds |
| `research` | every short history: do all walks that score a trade agree, does no feature, signal or backtest know the next candle, is a falling market read as a rising one turned round, does the backtest hold one position at a time and skip no signal, is no model judged on bars it saw where it is fitted and judged by bars, and what do the other two evaluations keep, is what the assistant draws a trade one could take, to the cent? | holds |
| `answers` | a session of three turns over ten messages while predictions arrive and are settled, six states of the engines, prompts of three sizes, four failures of the provider: the transcript explains the session, answers are cited and about their subject, confidence is of the evidence, the prompt drops only what it must | holds |
| `lookahead` | are the order blocks causal, as their module says? | violated: see the finding |

Every property of a passing run has a mutant in `PROJECT.json`: a one-operator change to the code's model, of
the kind a slip of the hand makes, under which the run finds it violated.

### Bounds, and why they are enough

* In `forward`, `tracker` and `live_stream` trades enter at 1 between levels at 0 and 2, and a bar touches the upper one or nothing: that is the target of a long and
  the stop of a short. *When* a bar decides matters there; *what* it decides is asked in `research`, where bars and levels range over all prices 0..2, missing
  levels and levels on the wrong side included, and a bar may span both.
* `forward`: `MaxBars` = 2 gives every order of "looked, then touched" with one bar between, a hold limit of 2 its
  boundary, and `MaxRows` = 2 a pass that must go on after a row; the requests are one that is recorded and a WAIT, which is
  not. Two workers, because every race here is between two holders of stale candles; one reader, since readers change nothing.
  The status written by hand (`ToPending`) is an open one, which a pass may meet at any point; a terminal one would only take the row out of
  the race.
* `tracker`: `MaxCalls` = 2 ids are a round, or an AI pick that a round meets; `ListWindow` = 3 sees all, `PickWindow` = 1 is the newest bar.
  Symmetry over listers, which are interchangeable.
* `monitor`: `MaxTasks` = 4 lets a new loop start while older ones still have a hanging thread.
* `memory`: two predictions and two buckets, one that all share and one that only the odd ones count in, so that two refreshes can
  disagree; the process may restart at any step, any number of times.
* `agent`: three tools give every shape of dependency that matters to the sort (none, chain, fork, join, cycle with
  and without a tail); a fourth name is not registered. One restart separates any two steps, and two
  catalogs make a tool of an old plan unavailable. One session: sessions do not touch each other.
* `deployment`: `Releases` = {1, 9}, `MaxFaults` = 2: a start that dies in a script, and one that dies repairing it. The scripts are the real ones.
* `workflow`: three steps have every cycle and tail, the graphs over four a diamond; `MaxEvents` = 3.
* `live_stream`: four bars with a history of 2 and a buffer of 3, so the buffer overflows; a reconnect can
  miss a bar and two polls can be more than a bar apart; `MaxWire` = 2, `MaxFaults` = 3.
* `knowledge`: four predictions, of which two were created at the same time, in pages of two: a page boundary falls between the two; `CandidateCap` = 2 is less than
  the table; thresholds are scaled to that (`MinSample` = 2). One walk, one concurrent write and one fault (`MaxWalks`, `MaxWrites`, `MaxFaults`), on a table that earlier processes left in various states.
* `research`: `MaxLength` = 3 candles with holds of 1 and 2 bars; markets of up to `MarketLength` = 5 candles of 8 shapes (40 patterns occur;
  the fifth candle and the one before it are of the 5 solid shapes, for a pattern with a doji or a long wick takes fewer) below `Ceiling` = 8 with the detectors' windows scaled down (swing width 1, channel 3, trend lag 3); the assistant is asked up to `Talks` = 4, and `Cent` = 6
  thirds of a unit is a price of two units, as coarse as two decimals are for an instrument of a few cents: ties occur, entries other than the tap, watched prices above the channel and ones rounded to nothing (below its floor is left to the theorem); `Histories` = 30 rows reach every
  branch of the splits.
* `answers`: `MaxSessions` = 1, because sessions share only the store, which changes between turns anyway; `MaxTurns` = 3: name a subject, ask, follow up. The sizes of the
  prompt's sections were measured on the code; the user's request is 5, 950 or 2100 tokens, the budget 2000.

`CHECK_DEADLOCK FALSE` stands where the model really comes to an end: all bars printed, all served, all turns taken.

### Fairness

* `ForwardTesting!FairSpec`: bars go on completing; the worker of the loop (`Loops`) begins its passes (weak), and a fetch, and
  a settlement, that is enabled again and again happens in the end (strong, because a
  failing fetch or a dying pass disables it). `_loop` has no exit but cancellation and catches every
  exception, so passes go on; that fetches do not fail for ever is an assumption on the provider. Of the other worker nothing is assumed.
* `MonitorLifecycle!HangingSpec`: the event loop gives every ready coroutine its turn. Nothing is
  assumed of threads.
* `MemoryBuilder!FairSpec`: a `Retrying` builder is somebody who keeps calling `backfill` without a limit; a call that is not
  interrupted goes on, a write tried for ever does not fail for ever, and crashes come to an end (`<>[][~Restart]_vars`): of a process that dies again and again
  nothing is promised.
* `Agent!FairSpec`: a handler that has begun goes on (`WF(ServerStep)`): it awaits nothing, and a tool that is
  invoked returns or raises. A tool that hangs would hang the process; no client is assumed to do anything.
* `Migrations!StartingSpec`: a start goes on and is launched again when it ended (`restart: unless-stopped`); faults are finitely many.
* `WorkflowSession!FairSpec`: the runtime of a running session walks on.
* `LiveStream!FairSpec`: the exchange goes on sending the bar in progress, and the handler gets its turns; faults are finitely many.
* `DecidedIsSettled` is stated as "again and again nothing decided is unsettled"; as decided trades stay decided, settled ones settled and rows are finitely
  many, that is the same as that every decided trade is settled in the end.
* `CallTracker`, `Knowledge`, `Conversation`: none. Calls are scored only when a client lists them, and
  nothing in the server does that on its own; a walk and a turn are requests.

### The finding

**An order block is flagged one bar too early** (`lookahead`). `order_blocks` (`app/features/smc.py:160`) writes the flag of bar
`i - 1` while it looks at bar `i`. The columns are model features, so a row of a training frame knows the direction of the next
candle, which the newest row of a live frame never does; `smc.py:5` says all are computed causally.

### Other disagreements between text and code

Met while modelling; they shape the models (each is how the code behaves there) but have no run of their own.

* Tracker: overlapping listings can overwrite a decision with an older OPEN (`main.py:588` against `:574`); calls are scored on the bar in progress (`main.py:581`, `tracker.py:49-50`); a
  round on a candle with an AI pick drops its AI bet (`main.py:636`); a spanning bar gives a round two losers (`tracker.py:61`); GET /calls sees the last 1000 candles
  only; `remove_last` deletes anybody's newest rows (`tracker.py:162`).
* Monitor: `stop()` clears `self._task` after its await, whatever it points to by then, so two owners can orphan a loop (`monitor.py:90`), and it leaves
  the thread running (`monitor.py:85`). `MonitorLifecycle` is checked with one owner, and its theorem assumes one.
* Forward testing: a record without levels, or accepted as BUY with direction WAIT, is never scored and never expires (`resolver.py:61`; `schemas.py:91`, `:105`); zero
  risk makes an R of 10^9 (`resolver.py:68`); a target on the losing side is booked as a gain (`resolver.py:89`).
* Memory: `backfill` asks for the reasoning row only, so a placeholder whose write failed is never made up for (`builder.py:203` against `:3-5`); `backfill(limit)` takes the
  newest, built or not (`builder.py:198`); `rebuild_embedding` embeds a prediction that is open or not enriched (`embedding.py:187`), where the backfill asks (`:213`); rollup rows may disagree until the next refresh (`builder.py:175-176`); a feature vector says OPEN for ever (`feature_vector.py:251`).
* Migrations are not transactional (`migrations.py:389` against `:11-12`); `IF NOT EXISTS` is what makes them repeatable.
* Live socket: the buffer holds the bar in progress twice after the history (`main.py:774`, `binance.py:159` against `base.py:22`); bars are lost on a reconnect and between two slow
  polls (`binance.py:133`, `:135`).
* Conversation: the evidence block (3829 to 4729 tokens) never fits the budget of 2000, so prompts that need it omit it while the reply says AVAILABLE
  with citations; a failed answer leaves the turn recorded, so its retry gets 409 (`chat.py:181`), and a session created for it is never returned; a message that names a
  symbol while a prediction is remembered is answered about the prediction; closing an expired session is not caught.
* Decision intelligence: a source that errors becomes INSUFFICIENT_DATA, not ERROR (`compose.py:18`); contradicting similar cases still raise the score; a
  score of exactly 0.20 is reported INSUFFICIENT.
* Assistant and indicators: the SuperTrend's band starts with NaN and keeps it, so its direction is always +1; the heuristic's confidence reaches 0.50 against a gate of 0.45 where
  `heuristic.py:52` speaks of 0.80; the assistant states prices for which it draws no line (`assistant.py:5`); the adviser accepts a tool that depends on itself, which the planner refuses.
* Assistant: prices are rounded to two decimals in some places only (`assistant.py:163`, `:170`, `:201`, `:205`, `:304`). For an instrument that costs less than a unit, such as XRPUSDT near 0.52, the
  entry a reply names differs from the line it draws by up to half a cent, and lies beyond the stop where the stop is nearer than that; the price it watches may leave its channel by as much, and of one
  that is rounded to 0 no line is drawn. `AssistantIsGrounded` says what is left: all of it to half a cent.
* Stock reports: an ATR of 0 makes the report plan with 2% of the price and the screener put the stop at the entry.
* Reports: /forward/summary may call a sample insufficient that live-vs-backtest calls significant; a filter by two dimensions on /learning/patterns selects nothing.
* Decision: `engine.py:3-6` speaks of every required confirmation, the code of a majority; a rule's threshold of 0 reads as the default; `candle_confirm` passes on a pattern against the trade.
* Training: meta.train splits calls with `TimeSeriesSplit` and no purge (`meta.py:219`), so that the outcome of a call it fits on may have been decided after those it judges were made, and calls that "Out-of-sample" (`:226`);
  outcome_training speaks of non-overlapping samples and a final untouched slice (`outcome_training.py:7`), but judges every row of a fold (`:117`) and never that slice; `LeavesOpen` states both.
  `baselines --overlapping` gives up the stride, and baselines scores a checkpoint that was fitted elsewhere, perhaps on the bars it is judged on; so would the nightly retrain, which trains without `train_df` (`nightly_retrain.py:116`).
* Training: the calibration tail of a walk-forward fold is not held out; labels near `dev_end` look into the untouched 15%; `train.py` carries weights and the best loss across folds.

## 4. Proofs

All theorems hold for every value of the constants that satisfies the named assumptions (`NoneAssumption`, `MarketAssumption`,
`ForwardTestingAssumption`, `CallTrackerAssumption`, `MonitorAssumption`, `MemoryAssumption`, `PlannerAssumption`,
`PermissionsAssumption`, `AssistantAssumption`, `AgentAssumption`, `InstanceAssumption`, `MigrationsAssumption`, `LiveStreamAssumption`, `DefinitionsAssumption`, `SessionAssumption`, `PipelineAssumption`, `ConversationAssumption`, `RetrievalAssumption`, `LearningAssumption`, `KnowledgeAssumption`, `StructureAssumption`, `PatternAssumption`, `SignalAssumption`, `BacktestAssumption`, `StockAssumption`, `ResearchAssumption`): any number of instruments, workers, listers, builders, tasks, rows, bars and faults, any
windows and hold limits, any tools, rules, policies and catalogs, workflow definitions of any size, any messages, stores, budgets and answers of the engines. A property of a run that a theorem states is the same formula.

* `ForwardTesting_proofs!DecisionOnPrefixStands`: what a history decides, every longer one decides alike.
  The first deciding index of the prefix is the first of the whole; `Held` at an index depends on the
  indices up to it, so the verdict is the same. This is what makes the moment of a pass irrelevant.

`ForwardTesting_proofs`:

* `TypeCorrect`: `TypeOK` is inductive by itself. `AuditTrailHolds` from it: the two writers of existing rows guard with `Updatable`.
  `OncePerOriginHolds`: origins never change, and `Record` is guarded by the index. (These two have no run: each holds by one guard of the code, whatever else happens.)
* `VerdictIsReplayHolds`, under `FaithfulFeed` (completed bars, a window reaching back to the first).
  The invariant is not inductive: a worker settles with candles it fetched earlier. The strengthening
  says that the candles a worker holds are a prefix of the completed bars of the row it handles; with
  `DecisionOnPrefixStands` the verdict on the prefix is the verdict on the whole, now and after every further bar.
* `NeverCountedTwiceHolds`: the strengthening says of a reader between its reads that what it saw as
  resolved is terminal still, and that what it saw exists still.
* `LedgerImplemented`, under `FaithfulFeed`: `Spec => ImplementsLedger`; each step is one of the ledger's or a
  stutter, `Settle` by the same prefix argument.
* `RunningTellsTheTruth` (`RunningWhileActive` of `MonitorLifecycle`), with `OneController`: every loop that lives is the one `self._task`
  points to. The strengthening says that whom a waiting `stop()` awaits is the task of the monitor.

`Market_proofs`, of the tracker: one invariant, `IInv`, over the table and the snapshot of every listing. `SoundTable` says of each that
ids and rounds were given out and occur once, and that the two bets of a round match in market, candle, band, time and openness; `Fits` says that
a snapshot holds both bets of a round whose bets are in the table, or neither; then one AI pick per candle, and what a logger holds. It gives

* `RoundsAreFair` (`RoundDecidedTogether`): a save writes both bets of a round from one scoring by one feed, or neither, however
  old the snapshot. The property without `Fits` is not inductive: a snapshot with one bet of a round would tear it.
* `OnePickHolds` (`OneAiPickPerCandle`) and `NothingEverComesBack` (`NothingComesBack`): a save updates rows by id and inserts none.
* `FirstTouchDecides` (`DecidedAtFirstTouch`), under `FullWindow` (a listing's feed reaches back to the first bar): `JInv` says that
  every decided row, of the table and of every snapshot, carries the verdict of the whole history. A snapshot's verdict comes from an
  older history, but histories only grow, and what a prefix decides stands. Without `FullWindow` the theorem is false: the touch may have left the window.

`Database_proofs`, of the memory: the invariant says what a builder between two store calls may hold: a prediction it is about to write is
completed and its work list is of completed ones, and before it stores a placeholder it has stored the reasoning; it gives `MemoryIsSound` and, as a step, `VectorsAreKept`. Of vectors `MemoryIsSound` says
nothing: the generator writes those of any prediction.

`Agent_proofs`: `TypeCorrect`, and from it three invariants. `SortInv` (what is placed, and what may be placed now, has all it needs
placed before) gives `PlansFit`, and `NoNeedlessRefusal`, because when no tool is ready those that remain all wait for one that
remains; `HeldInv` (plans the client holds depend backwards; no authorization lets a restricted tool pass as ALLOWED: `Strictest`
never goes below the floor) carries over to the run; `RunInv` (the step about to run is later than
every audit entry, and every earlier step is settled) gives `SettledWork`. None of the three properties is inductive without them. `AuditHolds` (`AuditTellsTheRun`) needs the trail as a sequence: entries
come in pairs, a step is announced and then closed by the entry its record asks for, in the order of the plan; what a run is at the middle of is the one step announced and not closed. Of the
adviser, for any registrations, requests and answers of a model: a registry lists its tools in the order of their ids, however they were registered (`RegistryIsOrdered`), and a suggestion that is not
refused is `Acceptable` (`SuggestIs`), so that its tools are distinct, are among those offered and need only one another: this is what the planner asks of a selection (`AdviceIsPlannable`).
`AdviceHolds` (`AdviceCanBePlanned`) states it of the instance's questions and answers.

`Database_proofs`, of the schema: the invariant says that a recorded version has all its objects, that what a start read as applied or applied itself is recorded, and that the
statements of its script that it has behind it are installed. `SkippedIsInstalled` is why a later start may skip a version;
`SchemaIsServed` (`ServesOnItsSchema`) follows for who serves.

`Market_proofs`, of the stream: `ClosedOnceAndFinalHolds`. The property speaks of what was sent; the invariant `SInv` also of what is still on its way: closed
candles on the wire are final, in their order, and later than every one that was sent; and while the handler polls, the bar it last saw open is later than all it sent. That is why a
candle comes once even when a broken socket becomes a poll.

`Workflow_proofs`, for definitions of any number of steps and transitions:

* `VerdictHolds` (`VerdictIsRight`): the two searches of the validator are right. `VInv` says of the depth-first search what its colours mean: the open calls are
  the path of the grey steps, the successors a call has behind it are black or open in the next call, and black steps lead only to black ones and hold no
  knot. Then a grey successor closes a knot (`GreyIsKnot`), and when all is black there is none (`AllBlack`). A graph without a terminal step has a
  knot because every step has a successor. Of the second search `VInv` says that what was visited is reachable, and that what it leads to is visited or on the stack.
  The steps are visited in the order of their ids; that `Ascending` lists each of them once (`AscendingHolds`) is counted with cardinalities.
* `RecordHolds` (`RunKeepsItsRecord`): the log holds completed steps only, each completed step occurs once, and the checkpoint is a
  prefix of the record. These are needed for the step that takes a checkpoint, and for a completion reported again.

`Conversation_proofs`, for sessions of any number and length. The assumptions are that stored predictions are numbered from one, that the
token counts are of the ten sections, and that at most five similar cases come back (`IsRead`; `similarity_k` of `build_engine`).

* `TranscriptHolds` (`TranscriptIsSound`): of a session, `Good` says that its entities are what its turns named last, that each turn
  answers what was asked (`Explained`), and that it waits for a subject exactly when its last turn asked without one (`Waiting`). The last is
  what makes the first two inductive: a turn that resumes a question takes over the intent of the turn before. `WinnerIs` shows that the
  classifier's order has one winner, because strength, priority and place decide between any two intents.
* `CitationsHold` (`AnswersAreCited`): every component that carries a decision's data cites the decision (`SliceIs`, `RetrieveIs`), and what is fetched is what the entities
  name (`FetchIs`). Between the answer and the next message the store goes on, so `CInv` says only that the
  decision was composed of the stored prediction as it was before or after it was settled (`Composed`).
* `TrimmingHolds` (`TrimsOnlyWhatItMust`): after `k` sections of the trimming order, what was dropped is the part of the first `k` that is present, up to the one that made the prompt fit;
  the running total is the cost of what is left (`GiveWayIs`, `TrimIs`).
* `ConfidenceHolds` (`ConfidenceIsOfTheEvidence`): each gap falls as its section is completed or gains cases (`GapsAre`), so that more evidence is no worse (`MoreIsNoWorse`).
  That HIGH rests on all four sections (`HighIs`) depends on `similarity_k`: five cases leave a gap of 750, and one
  missing section then costs more than the 2500 that HIGH allows. With seven cases or more a decision without a settled memory would be HIGH.

`Knowledge_proofs`, for tables, pages, caps, neighbourhoods and groups of any size. The assumptions are that ids and times of creation are numbers, that `None` is none of the
values it is told from, that a group is listed once (it is the key of a dictionary), that a result is a number or `None`, and that p-values are parts of `Certain`. The modules sort without a loop: the n-th is the one with
n - 1 before it. `PlaceIsTaken` and `InOrderIs` say that this is a sequence of the whole set, in order, by counting;
`NewestFirstIs` (pages), `PickedIs` (datasets) and `NeighboursAre` (searches) are its three uses.

* `PagesLoseNothingHolds`: what is kept comes newest first, nothing twice and nothing from before the cursor (`InTurn`), and every prediction that was there when the
  walk began is still ahead, was kept, lies beyond the cap, or needs nothing any more (`AccountedFor`). It is inductive only because creation times never change and rows are never removed.
* `BackfillLeavesNoneHolds` is what `AccountedFor` says when nothing is ahead and nothing is left of the page.
* `NeighboursAreTheNearestHolds`: `StoodStill` says of a vector that is now as it was at the beginning that it was so when its page was read. A vector is overwritten by
  `rebuild_embedding` only, by one that knows whether the prediction is enriched and embedded; that it cannot come back needs `VectorsTell` (a vector that says enriched is of a prediction that is).
  `AboveOrders` and `NearerOrders` show that score and id are a strict total order, by cross multiplication of the cosines.
* `FamilyIsCorrectedHolds`: `BenjaminiHochbergIs` shows that the rule, which admits all p-values up to the last rank within its share, admits a p-value
  exactly when some p-value at least as large is within the share of its own rank. Patterns, tests and verdicts correspond one to one (`ValidateCorrects`), so the family counts the same in all three.
* `RecommendationsStandHolds`: settled rows stay as they are, so what a dataset held of them is what the table says in every later state (`DatasetTells`), and what was settled
  when it was begun is in it (`DatasetHas`, from `AccountedFor`). Hence the trades of a group in a dataset are those of the table (`SupportIs`), the advice is earned
  (`AdviceIsEarned`), and stays so (`AdviceInv`). A later pass reads every completed trade (`PassIs`), so that it cites no fewer of them.
* `ReportsAgreeHolds` needs no more of the state than the tables' types; it is about the figures. A sum of the library is a fold that takes the members of a set in an order of its choice. By induction over finite sets (a family of parts, so that no
  operator is a parameter: `SetInduction`) it is any order's (`SumIs`), the same under other names (`SumOfImage`), and the sum of its parts (`SumOfParts`). Wins, losses, gains and total are sums of each record's share (`AggregateIs`), whence the rows of a breakdown
  add up (`RowsAddUp`). The curve is the prefix sums with the deepest fall so far (`CurveIs`), which is the worst run of records (`DeepestIsWorst`) and falls alike from the other end (`ReversedFalls`). Where Wilson's interval excludes a half,
  the normal approximation of the summary does (`IntervalsAgree`), because it is the narrower one.

`Research_proofs`, for histories, prices, hold limits, warm-ups, windows, lookbacks and folds of any size. The state is a study and the candles printed so far, and the invariant (`ResearchInvariant`) only
says what they are: what makes these theorems is the operators. `None` is a value of its own, so the assumptions say of each set of values it is told from that it is not in it. A walk is a recursive function; that it exists on
`0..n` and is what its step says (`WalkExists`) is shown once by induction over the set of bars for which it holds, and each walk is then an instance.

* `OutOfSampleHolds`: the rows of an evaluation's folds come in strides of the horizon (`StrideIs`, `EveryIsDisjoint`), and each fold trains `Gap` before what it validates on. The splits it speaks of are those of
  evaluations that fit what they judge and count in bars; of the other two it proves what they leave open (`EvaluationsLeaveOpen`): folds of calls with nothing between (`MetaFoldTouches`), and neighbouring rows whose labels overlap.
* `NoLookaheadHolds`: `FeaturesAreCausal` shows for each column that two frames that agree on bars 1 to `i` (`Agree`) have the same value at `i`; for the walks by induction over the bars.
  A frame and that frame without its last bar agree on every bar but the last.
* `AssistantIsGroundedHolds`: the plan is on the right side of its entry (`PlanIs`), the channel holds the last candle (`ChannelIs`), what is rounded moves by at most half a cent (`RoundedIs`), so a bound of a price bounds the rounded one to half a cent (`RoundedStays`), and each kind of answer draws the plan, a trade at the tap or a watch level (`PartsAre`, `WhereIs`,
  `WhatIfIs`, `RespondIs`).
* `ScorersAgreeHolds`: the declarative resolver is the loop of the code (`AnswerIsLoop`: a loop that has no verdict at a bar has met no deciding bar before it), and the tracker, the backtest, the outcome label and the direction label
  (`TrackerAgreesHolds`, `BacktestAgreesHolds`, `LabelsAgreeHolds`) find the same first touch. The trade of the screener is that of the stock report (`ScreenerAgreesHolds`).
* `BacktestStandsHolds`: of any offers, a book holds its trades one after the other, and every bar that offered one falls into a trade taken (`Kept`, `BookStandsHolds`). With one more candle every offer but the new one is as it was
  or was cut short by the end of the data (`ResolveGrows`, `HistoriesOffer`), and the two books stay alike up to there (`Alike`, `BooksGrow`); it needs that a decision is of its context only (`ContextGrows`).
* `MirrorSymmetryHolds`: two markets are `Turned` when each candle of the one is that of the other upside down, and two sets of names `Twinned` when each pattern of the one has its twin in the other (`NamesSwap` makes that the swap).
  The patterns follow by their number of candles (`CorePatternsTurn`, `ExtendedPatternsTurn`). The structure follows by induction along the walk, whose state keeps its last swings exchanged and turned, and the low one never above
  the high one (`Turns`, `StructureTurns`): without the latter one close could break both levels, and only one of the two is looked at first. From them the confluence, the votes and the plan (`ConfluenceTurns`, `EvaluateTurns`,
  `PlansTurn`), the checklist rule by rule (`RulesTurn`), and the report from the direction to the sector's label (`SideTurns`, `SectorsTurn`, `ReasonsTurn`). What the invariant does not claim about is where the steps fail:
  a doji's volume, a bar near both ends of its channel, a reading left to the heuristic, an RSI of 0, a tie of up and down. Of the instance it takes the readings and the stocks; the lemmas hold for any readings (`ReadRound`) and stocks (`StockRound`) that are turned.

## 5. Only model-checked

* All liveness (`DecidedIsSettled`, `NextPassComes`, `RollupsConverge`, `EveryRequestEnds`, `StartsInTheEnd`, `RunReachesItsEnd`,
  `ChartCatchesUp`): the prover does not handle fairness.

## 6. Not modelled

* Nightly retrain and its gate: `_score` calls `Predictor(model_path=...)` (`nightly_retrain.py:64`), a parameter `Predictor` does not have,
  so every evaluation raises a TypeError. With a champion it dies before training, without one after it, leaving `model_challenger.pt` behind; nothing is ever promoted
  or logged, against the repository's `README.md:174`. There is no behaviour of a gate to model. Were the call repaired, a second promotion on one day would overwrite the day's backup.
* The neural model, its training features and neighbours: torch, scikit-learn and pandas numerics without control.
* Configuration, schemas, dashboard, utilities; packaging; wording of texts and prompts.
* Parts of modelled components, named in the components' notes: the averages in rollups and reports, moving averages and oscillators, equity curves and fees, the
  `rules` table's storage, downloads and caches of the stock reports, the chat context of memory retrieval, serialisation and checksums.
