--------------------------- MODULE ForwardTesting ---------------------------
(***************************************************************************)
(* The forward-testing subsystem (app/forward_testing): the predictions    *)
(* table behind PredictionStore, ForwardTestingEngine.record, monitoring   *)
(* passes run by several worker threads, and readers of the statistics.    *)
(*                                                                         *)
(* Every store method runs under the store's lock, so it is one step;      *)
(* between two store calls of a pass, or two reads of statistics(), other  *)
(* threads run.  A prediction's id is its position in the table: rows are  *)
(* never deleted, and created_at, the order of the monitor's list, follows *)
(* insertion because the event loop records without an await.              *)
(***************************************************************************)
EXTENDS Market

CONSTANTS
    Requests,       \* bodies of POST /forward/prediction, without the candle
    StatusWrites,   \* statuses that callers of update_status ask for
    Workers,        \* threads that may be running monitor_once
    Loops,          \* those that the monitor's loop runs, pass after pass
    Readers,        \* callers of statistics()
    MaxHold,        \* max_hold_bars of the engine
    Window,         \* how many candles the injected fetcher returns
    MaxRows         \* bound: rows of the table

VARIABLES
    rows,           \* the predictions table
    pass,           \* per worker, the monitoring pass it is in
    reader          \* per reader, the statistics() call it is in

vars == <<closed, forming, rows, pass, reader>>

-----------------------------------------------------------------------------
(* Data *)

\* PredictionStatus.open_states and terminal_states
OpenStates == {"PENDING", "ENTRY_TRIGGERED", "ACTIVE"}
TerminalStates == {"TARGET_HIT", "STOP_HIT", "EXPIRED", "CANCELLED", "COMPLETED"}
Status == OpenStates \cup TerminalStates

Request == [symbol : Symbols, source : STRING, direction : Direction,
            recommendation : Direction, price : Int, entry : Level,
            stop : Level, target : Level]

\* PredictionRecord: what is fixed at creation, then the lifecycle columns
\* (status, and the columns update_resolution fills in, together).
Row == [symbol : Symbols, created : Int, source : STRING,
        direction : Direction, entry : Int, stop : Level, target : Level,
        status : Status, outcome : Outcome \cup {None}]

SameOrigin(a, b) == /\ a.symbol = b.symbol
                    /\ a.created = b.created
                    /\ a.source = b.source

Open(row) == row.status \in OpenStates
Terminal(row) == row.status \in TerminalStates

IdlePass == [phase |-> "idle", todo |-> {}, candles |-> <<>>]
IdleReader == [phase |-> "idle", resolved |-> {}, open |-> {}, total |-> 0]

ASSUME ForwardTestingAssumption ==
    /\ Requests \subseteq Request
    /\ StatusWrites \subseteq Status
    /\ Loops \subseteq Workers
    /\ MaxHold \in Nat \ {0}
    /\ Window \in Nat \ {0}
    /\ MaxRows \in Nat

-----------------------------------------------------------------------------
(* Recording *)

NewRow(req, ts) ==
    [symbol |-> req.symbol, created |-> ts, source |-> req.source,
     direction |-> req.direction,
     entry |-> IF req.entry = None THEN req.price ELSE req.entry,
     stop |-> req.stop, target |-> req.target,
     status |-> "ACTIVE", outcome |-> None]

\* The unique index (symbol, timeframe, created_candle_ts, source).
IsDuplicate(row) == \E i \in 1..Len(rows) : SameOrigin(rows[i], row)

\* POST /forward/prediction: only an actionable recommendation is recorded,
\* and a second one of the same origin is refused.  The origin candle is any
\* bar up to the one in progress (0: one before the modelled history).
Record(req, ts) ==
    /\ Len(rows) < MaxRows
    /\ req.recommendation \in Side
    /\ ~IsDuplicate(NewRow(req, ts))
    /\ rows' = Append(rows, NewRow(req, ts))
    /\ UNCHANGED <<closed, forming, pass, reader>>

-----------------------------------------------------------------------------
(* The store's updates *)

\* Mutant of Updatable: update_resolution does not look at the status.
AlwaysUpdatable(row) == TRUE

\* A terminal row is never written again.
Updatable(row) == ~Terminal(row)

\* update_status
UpdateStatus(i, status) ==
    /\ Updatable(rows[i])
    /\ rows[i].status # status
    /\ rows' = [rows EXCEPT ![i].status = status]
    /\ UNCHANGED <<closed, forming, pass, reader>>

\* update_resolution: the row is read and refused, or written, under the store's
\* lock.  The lock is the process's own; that one process monitors is assumed.
Resolved(i, outcome) ==
    IF Updatable(rows[i])
    THEN [rows EXCEPT ![i].status = outcome.status, ![i].outcome = outcome]
    ELSE rows

-----------------------------------------------------------------------------
(* Monitoring passes *)

\* Mutant of OpenTrades: the query forgets the open states before ACTIVE.
OnlyActive == {i \in 1..Len(rows) : rows[i].status = "ACTIVE" /\ Tradeable(rows[i])}

OpenTrades == {i \in 1..Len(rows) : Open(rows[i]) /\ Tradeable(rows[i])}

\* The rows of a pass are handled oldest first.
Oldest(w, i) == /\ i \in pass[w].todo
                /\ \A j \in pass[w].todo : i <= j

\* The pass of worker w goes on after row i.
Done(w, i) ==
    LET rest == pass[w].todo \ {i}
    IN  [pass EXCEPT ![w] = IF rest = {} THEN IdlePass
                            ELSE [phase |-> "fetch", todo |-> rest, candles |-> <<>>]]

\* monitor_once reads the open predictions and keeps those with a direction.
BeginPass(w) ==
    /\ pass[w].phase = "idle"
    /\ OpenTrades # {}
    /\ pass' = [pass EXCEPT ![w] = [phase |-> "fetch", todo |-> OpenTrades,
                                    candles |-> <<>>]]
    /\ UNCHANGED <<closed, forming, rows, reader>>

\* fetch_candles returns for row i; the worker holds these candles from now on.
Fetch(w, i) ==
    /\ pass[w].phase = "fetch"
    /\ Oldest(w, i)
    /\ pass' = [pass EXCEPT ![w].phase = "write", ![w].candles = Feed(rows[i].symbol, Window)]
    /\ UNCHANGED <<closed, forming, rows, reader>>

\* fetch_candles raises: the pass skips the row and goes on.
FetchFails(w, i) ==
    /\ pass[w].phase = "fetch"
    /\ Oldest(w, i)
    /\ pass' = Done(w, i)
    /\ UNCHANGED <<closed, forming, rows, reader>>

\* resolve_prediction on the candles fetched, then update_resolution.
Settle(w, i) ==
    /\ pass[w].phase = "write"
    /\ Oldest(w, i)
    /\ LET outcome == ResolvePrediction(rows[i], pass[w].candles, MaxHold)
       IN  rows' = IF outcome = None THEN rows ELSE Resolved(i, outcome)
    /\ pass' = Done(w, i)
    /\ UNCHANGED <<closed, forming, reader>>

\* Anything else raised inside a pass ends it; the loop swallows the exception.
PassFails(w) ==
    /\ pass[w].phase # "idle"
    /\ pass' = [pass EXCEPT ![w] = IdlePass]
    /\ UNCHANGED <<closed, forming, rows, reader>>

-----------------------------------------------------------------------------
(* PredictionStore.statistics: three reads, each under the lock *)

ReadCompleted(r) ==
    /\ reader[r].phase = "idle"
    /\ reader' = [reader EXCEPT ![r] =
                    [phase |-> "completed",
                     resolved |-> {i \in 1..Len(rows) :
                                     Terminal(rows[i]) /\ rows[i].outcome # None},
                     open |-> {}, total |-> 0]]
    /\ UNCHANGED <<closed, forming, rows, pass>>

ReadActive(r) ==
    /\ reader[r].phase = "completed"
    /\ reader' = [reader EXCEPT ![r].phase = "active",
                                ![r].open = {i \in 1..Len(rows) : Open(rows[i])}]
    /\ UNCHANGED <<closed, forming, rows, pass>>

Count(r) ==
    /\ reader[r].phase = "active"
    /\ reader' = [reader EXCEPT ![r].phase = "report", ![r].total = Len(rows)]
    /\ UNCHANGED <<closed, forming, rows, pass>>

Report(r) ==
    /\ reader[r].phase = "report"
    /\ reader' = [reader EXCEPT ![r] = IdleReader]
    /\ UNCHANGED <<closed, forming, rows, pass>>

-----------------------------------------------------------------------------
(* The process *)

\* The process dies and starts again: what threads hold in memory is gone,
\* committed rows are not.
Restart ==
    /\ pass' = [w \in Workers |-> IdlePass]
    /\ reader' = [r \in Readers |-> IdleReader]
    /\ UNCHANGED <<closed, forming, rows>>

Init ==
    /\ MarketInit
    /\ rows = <<>>
    /\ pass = [w \in Workers |-> IdlePass]
    /\ reader = [r \in Readers |-> IdleReader]

MarketTicks(s) == Tick(s) /\ UNCHANGED <<rows, pass, reader>>
MarketCloses(s) == CloseBar(s) /\ UNCHANGED <<rows, pass, reader>>
MarketStep(s) == MarketTicks(s) \/ MarketCloses(s)

StoreStep ==
    \/ \E req \in Requests : \E ts \in 0..(Len(closed[req.symbol]) + 1) : Record(req, ts)
    \/ \E i \in 1..Len(rows) : \E status \in StatusWrites : UpdateStatus(i, status)

PassStep(w) ==
    \/ BeginPass(w)
    \/ \E i \in pass[w].todo : Fetch(w, i) \/ FetchFails(w, i) \/ Settle(w, i)
    \/ PassFails(w)

ReaderStep(r) == ReadCompleted(r) \/ ReadActive(r) \/ Count(r) \/ Report(r)

Next ==
    \/ \E s \in Symbols : MarketStep(s)
    \/ StoreStep
    \/ \E w \in Workers : PassStep(w)
    \/ \E r \in Readers : ReaderStep(r)
    \/ Restart

Spec == Init /\ [][Next]_vars

\* The monitor's loop never stops starting passes, and a fetch, or the rest of
\* a pass, that is attempted again and again does not fail every time.  The
\* market goes on printing bars.  Nobody has to record, restart or read, and a
\* worker outside the loop may hang in its fetch for ever.
Fairness ==
    /\ \A s \in Symbols : WF_vars(MarketCloses(s))
    /\ \A w \in Loops :
          /\ WF_vars(BeginPass(w))
          /\ \A i \in 1..MaxRows : SF_vars(Fetch(w, i)) /\ SF_vars(Settle(w, i))

FairSpec == Spec /\ Fairness

-----------------------------------------------------------------------------
(* Properties *)

TypeOK ==
    /\ closed \in [Symbols -> Seq(Bar)]
    /\ forming \in [Symbols -> Shape]
    /\ rows \in Seq(Row)
    /\ pass \in [Workers -> [phase : {"idle", "fetch", "write"},
                             todo : SUBSET (1..Len(rows)),
                             candles : Seq(Bar)]]
    /\ reader \in [Readers -> [phase : {"idle", "completed", "active", "report"},
                               resolved : SUBSET (1..Len(rows)),
                               open : SUBSET (1..Len(rows)),
                               total : Nat]]

\* Duplicate protection: however often a call is retried, and whichever rows
\* have been settled meanwhile, one origin has one row (store.py:6-8).
OncePerOrigin ==
    \A i, j \in 1..Len(rows) : SameOrigin(rows[i], rows[j]) => i = j

\* Whatever passes were interleaved, however stale the candles of the worker
\* that won, a settled row holds the verdict that a replay of all completed
\* bars gives today: results do not depend on when the monitor looked.
VerdictIsReplay ==
    \A i \in 1..Len(rows) :
        rows[i].outcome # None =>
            rows[i].outcome = ResolvePrediction(rows[i], closed[rows[i].symbol], MaxHold)

\* Audit rule and idempotence: a step never removes a row, never touches what
\* was captured at creation, and never touches a terminal row at all, with two
\* passes racing to settle it or a caller of update_status in between
\* (store.py:9-14).
AuditTrail ==
    [][/\ Len(rows') >= Len(rows)
       /\ \A i \in 1..Len(rows) :
             /\ Terminal(rows[i]) => rows'[i] = rows[i]
             /\ [rows'[i] EXCEPT !.status = rows[i].status,
                                 !.outcome = rows[i].outcome] = rows[i]]_vars

\* statistics() reads three times while passes settle rows: no prediction is
\* ever both in its resolved and in its open figures, and the two never add up
\* to more than its total.
NeverCountedTwice ==
    \A r \in Readers :
        reader[r].phase = "report" =>
            /\ reader[r].resolved \cap reader[r].open = {}
            /\ Cardinality(reader[r].resolved) + Cardinality(reader[r].open)
                 <= reader[r].total

\* A trade with both its levels that the market has decided is settled by the
\* monitor in the end, through failed fetches, failed passes and restarts.  A
\* decided trade stays decided and a settled one settled, so that it is enough
\* that the monitor catches up again and again.
DecidedIsSettled ==
    []<>(\A i \in 1..Len(rows) :
            ResolvePrediction(rows[i], closed[rows[i].symbol], MaxHold) # None => Terminal(rows[i]))

-----------------------------------------------------------------------------
(* The promise *)

\* The feed the verdicts are exact for: completed bars only, and a window
\* that reaches back to the first of them.
FaithfulFeed == ~ServesForming /\ Window >= MaxBars

EntryOf(row) ==
    [symbol |-> row.symbol, created |-> row.created, source |-> row.source,
     direction |-> row.direction, entry |-> row.entry, stop |-> row.stop,
     target |-> row.target,
     state |-> IF Open(row) THEN "open"
               ELSE IF row.outcome = None THEN "withdrawn" ELSE "settled",
     verdict |-> row.outcome]

Entries == [i \in 1..Len(rows) |-> EntryOf(rows[i])]

Replay(entry, bars) == ResolvePrediction(entry, bars, MaxHold)

Ledger == INSTANCE ForwardLedger WITH ledger <- Entries, Verdict <- Replay

\* Passes, snapshots, retries, failures, restarts and readers are invisible:
\* the table behaves as the ledger.
ImplementsLedger == Ledger!LedgerSpec

=============================================================================
