------------------------ MODULE ForwardTesting_proofs ------------------------
(***************************************************************************)
(* Theorems about ForwardTesting, for every number of instruments,         *)
(* requests, workers, readers and bars, and about the monitor that runs    *)
(* its passes, for one controller and any number of tasks.                 *)
(***************************************************************************)
EXTENDS ForwardTesting, MonitorLifecycle, FiniteSetTheorems, TLAPS

-----------------------------------------------------------------------------
(* What every candle history makes of a trade: facts about the resolver for *)
(* all prices, histories and hold limits.                                   *)

\* The part of a record the resolver reads, well typed.
TypedTrade(p) == /\ p.entry \in Int
                 /\ p.stop \in Level
                 /\ p.target \in Level
                 /\ p.created \in Int

Prefix(a, b) == /\ Len(a) <= Len(b)
                /\ \A i \in 1..Len(a) : a[i] = b[i]

\* The bars held up to index i are counted by a natural number.
LEMMA HeldType ==
    ASSUME NEW p, NEW candles, NEW i \in Nat
    PROVE  Held(p, candles, i) \in Nat
<1>1. IsFiniteSet(1..i)
  BY FS_Interval
<1>2. {j \in 1..i : After(p, candles[j])} \subseteq 1..i
  OBVIOUS
<1>3. IsFiniteSet({j \in 1..i : After(p, candles[j])})
  BY <1>1, <1>2, FS_Subset
<1> QED
  BY <1>3, FS_CardinalityType DEF Held

\* The walk of the code returns once: no two indices are the first to decide.
LEMMA FirstDecisionUnique ==
    ASSUME NEW p, NEW candles \in Seq(Bar), NEW H,
           NEW i \in 1..Len(candles), NEW j \in 1..Len(candles),
           FirstDecision(p, candles, H, i), FirstDecision(p, candles, H, j)
    PROVE  i = j
<1>1. Decides(p, candles, H, i) /\ Decides(p, candles, H, j)
  BY DEF FirstDecision
<1>2. CASE i < j
  BY <1>1, <1>2 DEF FirstDecision
<1>3. CASE j < i
  BY <1>1, <1>3 DEF FirstDecision
<1> QED
  BY <1>2, <1>3

\* The answer is the verdict at the first index that decides.
LEMMA ResolveAt ==
    ASSUME NEW p, NEW candles \in Seq(Bar), NEW H, NEW i \in 1..Len(candles),
           Resolvable(p), FirstDecision(p, candles, H, i)
    PROVE  ResolvePrediction(p, candles, H) = VerdictAt(p, candles[i], Held(p, candles, i))
<1> DEFINE k == CHOOSE k \in 1..Len(candles) : FirstDecision(p, candles, H, k)
<1>1. k \in 1..Len(candles) /\ FirstDecision(p, candles, H, k)
  OBVIOUS
<1>2. k = i
  BY <1>1, FirstDecisionUnique
<1> QED
  BY <1>2 DEF ResolvePrediction

\* An answer other than None was decided at some index.
LEMMA ResolvedSomewhere ==
    ASSUME NEW p, NEW candles, NEW H, ResolvePrediction(p, candles, H) # None
    PROVE  /\ Resolvable(p)
           /\ \E i \in 1..Len(candles) : FirstDecision(p, candles, H, i)
  BY DEF ResolvePrediction

\* The verdict of a well-typed trade is an outcome, never None.
LEMMA VerdictType ==
    ASSUME NEW p, TypedTrade(p), Resolvable(p), NEW bar \in Bar, NEW held \in Nat
    PROVE  VerdictAt(p, bar, held) \in Outcome
<1>1. /\ p.stop \in Int /\ p.target \in Int /\ p.entry \in Int
      /\ bar.close \in Int
  BY DEF TypedTrade, Resolvable, Level, Bar
<1>2. Abs(p.target - p.entry) \in Int /\ Abs(p.entry - p.stop) \in Int
  BY <1>1 DEF Abs
<1>3. CASE HitStop(p, bar)
  BY <1>1, <1>3 DEF VerdictAt, Outcome
<1>4. CASE ~HitStop(p, bar) /\ HitTarget(p, bar)
  BY <1>1, <1>2, <1>4 DEF VerdictAt, Outcome
<1>5. CASE ~HitStop(p, bar) /\ ~HitTarget(p, bar)
  BY <1>1, <1>2, <1>5 DEF VerdictAt, Outcome
<1> QED
  BY <1>3, <1>4, <1>5

\* resolve_prediction returns an outcome or None.
LEMMA ResolveType ==
    ASSUME NEW p, TypedTrade(p), NEW candles \in Seq(Bar), NEW H
    PROVE  ResolvePrediction(p, candles, H) \in Outcome \cup {None}
<1> SUFFICES ASSUME ResolvePrediction(p, candles, H) # None
             PROVE  ResolvePrediction(p, candles, H) \in Outcome
  OBVIOUS
<1>1. PICK i \in 1..Len(candles) : Resolvable(p) /\ FirstDecision(p, candles, H, i)
  BY ResolvedSomewhere
<1>2. candles[i] \in Bar /\ Held(p, candles, i) \in Nat
  BY HeldType
<1> QED
  BY <1>1, <1>2, ResolveAt, VerdictType

\* Candles appended later neither change which index decides first nor the
\* number of bars held there.
LEMMA FirstDecisionStands ==
    ASSUME NEW p, NEW a \in Seq(Bar), NEW b \in Seq(Bar), NEW H, Prefix(a, b),
           NEW i \in 1..Len(a), FirstDecision(p, a, H, i)
    PROVE  /\ FirstDecision(p, b, H, i)
           /\ a[i] = b[i]
           /\ Held(p, a, i) = Held(p, b, i)
<1>1. ASSUME NEW j \in 1..Len(a)
      PROVE  Held(p, a, j) = Held(p, b, j)
  <2>1. {k \in 1..j : After(p, a[k])} = {k \in 1..j : After(p, b[k])}
    BY DEF Prefix
  <2> QED
    BY <2>1 DEF Held
<1>2. ASSUME NEW j \in 1..Len(a)
      PROVE  Decides(p, a, H, j) <=> Decides(p, b, H, j)
  <2>1. a[j] = b[j] /\ j \in 1..Len(b)
    BY DEF Prefix
  <2> QED
    BY <1>1, <2>1 DEF Decides
<1>3. \A j \in 1..(i - 1) : j \in 1..Len(a)
  OBVIOUS
<1> QED
  BY <1>1, <1>2, <1>3 DEF FirstDecision, Prefix

\* Whenever the resolver has decided a trade on a history, it decides it the
\* same way on every longer one: that is why a pass may look at any time.
THEOREM DecisionOnPrefixStands ==
    ASSUME NEW p, NEW a \in Seq(Bar), NEW b \in Seq(Bar), NEW H, Prefix(a, b),
           ResolvePrediction(p, a, H) # None
    PROVE  ResolvePrediction(p, b, H) = ResolvePrediction(p, a, H)
<1>1. PICK i \in 1..Len(a) : Resolvable(p) /\ FirstDecision(p, a, H, i)
  BY ResolvedSomewhere
<1>2. /\ FirstDecision(p, b, H, i)
      /\ a[i] = b[i]
      /\ Held(p, a, i) = Held(p, b, i)
  BY <1>1, FirstDecisionStands
<1>3. i \in 1..Len(b)
  BY DEF Prefix
<1> QED
  BY <1>1, <1>2, <1>3, ResolveAt

\* Only the direction, the origin candle, the entry and the levels matter.
LEMMA ResolveReads ==
    ASSUME NEW p, NEW q, NEW candles \in Seq(Bar), NEW H,
           p.direction = q.direction, p.created = q.created, p.entry = q.entry,
           p.stop = q.stop, p.target = q.target
    PROVE  ResolvePrediction(p, candles, H) = ResolvePrediction(q, candles, H)
<1>1. Resolvable(p) <=> Resolvable(q)
  BY DEF Resolvable, Tradeable
<1>2. \A bar : /\ After(p, bar) <=> After(q, bar)
               /\ HitStop(p, bar) <=> HitStop(q, bar)
               /\ HitTarget(p, bar) <=> HitTarget(q, bar)
  BY DEF After, HitStop, HitTarget
<1>3. \A i : Held(p, candles, i) = Held(q, candles, i)
  BY <1>2 DEF Held
<1>4. \A i : Decides(p, candles, H, i) <=> Decides(q, candles, H, i)
  BY <1>2, <1>3 DEF Decides
<1>5. \A i : FirstDecision(p, candles, H, i) <=> FirstDecision(q, candles, H, i)
  BY <1>4 DEF FirstDecision
<1>6. \A bar, held : VerdictAt(p, bar, held) = VerdictAt(q, bar, held)
  BY <1>2 DEF VerdictAt, HitStop, HitTarget
<1>7. CASE Resolvable(p) /\ \E i \in 1..Len(candles) : FirstDecision(p, candles, H, i)
  <2>1. PICK i \in 1..Len(candles) : FirstDecision(p, candles, H, i)
    BY <1>7
  <2> QED
    BY <1>1, <1>3, <1>5, <1>6, <1>7, <2>1, ResolveAt
<1>8. CASE ~(Resolvable(p) /\ \E i \in 1..Len(candles) : FirstDecision(p, candles, H, i))
  BY <1>1, <1>5, <1>8 DEF ResolvePrediction
<1> QED
  BY <1>7, <1>8

-----------------------------------------------------------------------------
(* Type correctness *)

PassType == [phase : {"idle", "fetch", "write"},
             todo : SUBSET (1..Len(rows)),
             candles : Seq(Bar)]

ReaderType == [phase : {"idle", "completed", "active", "report"},
               resolved : SUBSET (1..Len(rows)),
               open : SUBSET (1..Len(rows)),
               total : Nat]

\* What a step must do for the types to survive it: keep the ids in use.
LEMMA LongerTable ==
    ASSUME TypeOK, Len(rows') >= Len(rows), rows' \in Seq(Row)
    PROVE  /\ UNCHANGED pass =>
                pass' \in [Workers -> [phase : {"idle", "fetch", "write"},
                                       todo : SUBSET (1..Len(rows')),
                                       candles : Seq(Bar)]]
           /\ UNCHANGED reader =>
                reader' \in [Readers -> [phase : {"idle", "completed", "active", "report"},
                                         resolved : SUBSET (1..Len(rows')),
                                         open : SUBSET (1..Len(rows')),
                                         total : Nat]]
<1>1. Len(rows) \in Nat /\ Len(rows') \in Nat
  BY DEF TypeOK
<1>2. SUBSET (1..Len(rows)) \subseteq SUBSET (1..Len(rows'))
  BY <1>1
<1> QED
  BY <1>2 DEF TypeOK

LEMMA BarType ==
    ASSUME NEW shape \in Shape, NEW ts \in Int
    PROVE  AsBar(shape, ts) \in Bar
  BY DEF Shape, AsBar, Bar

\* The fetcher returns well-formed candles.
LEMMA FeedType ==
    ASSUME TypeOK, NEW s \in Symbols
    PROVE  Feed(s, Window) \in Seq(Bar)
<1>1. closed[s] \in Seq(Bar) /\ FormingTs(s) \in Int /\ forming[s] \in Shape
  BY DEF TypeOK, FormingTs
<1>2. Append(closed[s], AsBar(forming[s], FormingTs(s))) \in Seq(Bar)
  BY <1>1, BarType
<1>3. ASSUME NEW bars \in Seq(Bar)
      PROVE  LastOf(bars, Window) \in Seq(Bar)
  <2>1. CASE Len(bars) <= Window
    BY <2>1 DEF LastOf
  <2>2. CASE ~(Len(bars) <= Window)
    <3>1. Window \in Nat /\ Len(bars) \in Nat
      BY ForwardTestingAssumption
    <3>2. \A i \in (Len(bars) - Window + 1)..Len(bars) : bars[i] \in Bar
      BY <3>1, <2>2
    <3>3. SubSeq(bars, Len(bars) - Window + 1, Len(bars)) \in Seq(Bar)
      BY <3>1, <3>2, <2>2
    <3> QED
      BY <2>2, <3>3 DEF LastOf
  <2> QED
    BY <2>1, <2>2
<1> QED
  BY <1>1, <1>2, <1>3 DEF Feed

LEMMA RowIsTrade ==
    ASSUME NEW row \in Row
    PROVE  TypedTrade(row)
  BY DEF Row, TypedTrade

\* The lifecycle columns may be written with any status and outcome.
LEMMA LifecycleType ==
    ASSUME NEW row \in Row, NEW status \in Status, NEW outcome \in Outcome \cup {None}
    PROVE  /\ [row EXCEPT !.status = status] \in Row
           /\ [row EXCEPT !.status = status, !.outcome = outcome] \in Row
  BY DEF Row

\* Settling a row writes a status and an outcome of the right types.
LEMMA ResolvedType ==
    ASSUME rows \in Seq(Row), NEW i \in 1..Len(rows), NEW outcome \in Outcome
    PROVE  /\ Resolved(i, outcome) \in Seq(Row)
           /\ Len(Resolved(i, outcome)) = Len(rows)
<1>1. outcome.status \in Status /\ rows[i] \in Row /\ outcome \in Outcome \cup {None}
  BY DEF Outcome, Status, TerminalStates
<1>2. [rows[i] EXCEPT !.status = outcome.status, !.outcome = outcome] \in Row
  BY <1>1, LifecycleType
<1>3. CASE Updatable(rows[i])
  <2>1. Resolved(i, outcome) =
          [rows EXCEPT ![i] = [rows[i] EXCEPT !.status = outcome.status, !.outcome = outcome]]
    BY <1>3 DEF Resolved
  <2> QED
    BY <1>2, <2>1
<1>4. CASE ~Updatable(rows[i])
  BY <1>4 DEF Resolved
<1> QED
  BY <1>3, <1>4

LEMMA NewRowType ==
    ASSUME NEW req \in Requests, NEW ts \in Int
    PROVE  NewRow(req, ts) \in Row
<1>1. req \in Request
  BY ForwardTestingAssumption
<1>2. (IF req.entry = None THEN req.price ELSE req.entry) \in Int
  BY <1>1 DEF Request, Level
<1> QED
  BY <1>1, <1>2 DEF NewRow, Row, Request, Status, OpenStates

THEOREM TypeInit == Init => TypeOK
<1> SUFFICES ASSUME Init PROVE TypeOK
  OBVIOUS
<1>1. closed \in [Symbols -> Seq(Bar)] /\ rows \in Seq(Row)
  BY DEF Init, MarketInit
<1>2. forming \in [Symbols -> Shape]
  BY MarketAssumption DEF Init, MarketInit
<1>3. pass \in [Workers -> PassType]
  BY DEF Init, IdlePass, PassType
<1>4. reader \in [Readers -> ReaderType]
  BY DEF Init, IdleReader, ReaderType
<1> QED
  BY <1>1, <1>2, <1>3, <1>4 DEF TypeOK, PassType, ReaderType

\* Handling a row leaves a well-typed pass.
LEMMA DoneType ==
    ASSUME TypeOK, NEW w \in Workers, NEW i
    PROVE  Done(w, i) \in [Workers -> PassType]
<1>1. pass \in [Workers -> PassType]
  BY DEF TypeOK, PassType
<1> DEFINE rest == pass[w].todo \ {i}
           next == IF rest = {} THEN IdlePass
                   ELSE [phase |-> "fetch", todo |-> rest, candles |-> <<>>]
<1>2. rest \in SUBSET (1..Len(rows))
  BY <1>1 DEF PassType
<1>3. next \in PassType
  BY <1>2 DEF PassType, IdlePass
<1>4. Done(w, i) = [pass EXCEPT ![w] = next]
  BY DEF Done
<1> QED
  BY <1>1, <1>3, <1>4

\* A step that leaves the table alone keeps the types of what it may change.
LEMMA SameTable ==
    ASSUME TypeOK, rows' = rows,
           closed' \in [Symbols -> Seq(Bar)], forming' \in [Symbols -> Shape],
           pass' \in [Workers -> PassType], reader' \in [Readers -> ReaderType]
    PROVE  TypeOK'
<1>1. Len(rows') = Len(rows)
  OBVIOUS
<1> QED
  BY <1>1 DEF TypeOK, PassType, ReaderType

\* A step of the market.
LEMMA TypeMarket ==
    ASSUME TypeOK, NEW s \in Symbols, MarketStep(s)
    PROVE  TypeOK'
<1>1. pass \in [Workers -> PassType] /\ reader \in [Readers -> ReaderType]
  BY DEF TypeOK, PassType, ReaderType
<1>2. CASE MarketTicks(s)
  <2>1. forming' \in [Symbols -> Shape]
    BY <1>2, MarketAssumption DEF MarketTicks, Tick, TypeOK
  <2> QED
    BY <1>1, <1>2, <2>1, SameTable DEF MarketTicks, Tick, TypeOK
<1>3. CASE MarketCloses(s)
  <2>1. PICK shape \in Shapes, opening \in Openings :
          /\ closed' = [closed EXCEPT ![s] = Append(@, AsBar(shape, Len(@) + 1))]
          /\ forming' = [forming EXCEPT ![s] = opening]
    BY <1>3 DEF MarketCloses, CloseBar
  <2>2. shape \in Shape /\ opening \in Shape
    BY MarketAssumption
  <2>3. closed[s] \in Seq(Bar) /\ Len(closed[s]) + 1 \in Int
    BY DEF TypeOK
  <2>4. Append(closed[s], AsBar(shape, Len(closed[s]) + 1)) \in Seq(Bar)
    BY <2>2, <2>3, BarType
  <2>5. closed' \in [Symbols -> Seq(Bar)]
    BY <2>1, <2>4 DEF TypeOK
  <2>6. forming' \in [Symbols -> Shape]
    BY <2>1, <2>2 DEF TypeOK
  <2> QED
    BY <1>1, <1>3, <2>5, <2>6, SameTable DEF MarketCloses, CloseBar
<1> QED
  BY <1>2, <1>3 DEF MarketStep

\* A step of the API on the table.
LEMMA TypeStore ==
    ASSUME TypeOK, StoreStep
    PROVE  TypeOK'
<1>1. CASE \E req \in Requests : \E ts \in 0..(Len(closed[req.symbol]) + 1) : Record(req, ts)
  <2>1. PICK req \in Requests, ts \in Int : Record(req, ts)
    BY <1>1
  <2>2. rows' \in Seq(Row) /\ Len(rows') >= Len(rows)
    BY <2>1, NewRowType DEF Record, TypeOK
  <2> QED
    BY <2>1, <2>2, LongerTable DEF Record, TypeOK
<1>2. CASE \E i \in 1..Len(rows) : \E status \in StatusWrites : UpdateStatus(i, status)
  <2>1. PICK i \in 1..Len(rows), status \in StatusWrites : UpdateStatus(i, status)
    BY <1>2
  <2>2. rows[i] \in Row /\ status \in Status
    BY ForwardTestingAssumption DEF TypeOK
  <2>3. [rows[i] EXCEPT !.status = status] \in Row
    BY <2>2, LifecycleType DEF Row
  <2>4. rows' = [rows EXCEPT ![i] = [rows[i] EXCEPT !.status = status]]
    BY <2>1 DEF UpdateStatus
  <2>5. rows' \in Seq(Row) /\ Len(rows') = Len(rows)
    BY <2>3, <2>4 DEF TypeOK
  <2> QED
    BY <2>1, <2>5, LongerTable DEF UpdateStatus, TypeOK
<1> QED
  BY <1>1, <1>2 DEF StoreStep

\* A step of a monitoring pass.
LEMMA TypePass ==
    ASSUME TypeOK, NEW w \in Workers, PassStep(w)
    PROVE  TypeOK'
<1>1. pass \in [Workers -> PassType] /\ reader \in [Readers -> ReaderType]
  BY DEF TypeOK, PassType, ReaderType
<1>2. CASE BeginPass(w)
  <2>1. OpenTrades \in SUBSET (1..Len(rows))
    BY DEF OpenTrades
  <2>2. pass' \in [Workers -> PassType]
    BY <1>1, <1>2, <2>1 DEF BeginPass, PassType
  <2> QED
    BY <1>1, <1>2, <2>2, SameTable DEF BeginPass, TypeOK
<1>3. CASE PassFails(w)
  <2>1. pass' \in [Workers -> PassType]
    BY <1>1, <1>3 DEF PassFails, PassType, IdlePass
  <2> QED
    BY <1>1, <1>3, <2>1, SameTable DEF PassFails, TypeOK
<1>4. ASSUME NEW i \in pass[w].todo, Fetch(w, i)
      PROVE  TypeOK'
  <2>1. i \in 1..Len(rows)
    BY <1>1 DEF PassType
  <2>2. rows[i].symbol \in Symbols
    <3>1. rows[i] \in Row
      BY <2>1 DEF TypeOK
    <3> QED
      BY <3>1 DEF Row
  <2>3. Feed(rows[i].symbol, Window) \in Seq(Bar)
    BY <2>2, FeedType
  <2>4. pass' \in [Workers -> PassType]
    BY <1>1, <1>4, <2>3 DEF Fetch, PassType
  <2> QED
    BY <1>1, <1>4, <2>4, SameTable DEF Fetch, TypeOK
<1>5. ASSUME NEW i \in pass[w].todo, FetchFails(w, i)
      PROVE  TypeOK'
  <2>1. pass' \in [Workers -> PassType]
    BY <1>5, DoneType DEF FetchFails
  <2> QED
    BY <1>1, <1>5, <2>1, SameTable DEF FetchFails, TypeOK
<1>6. ASSUME NEW i \in pass[w].todo, Settle(w, i)
      PROVE  TypeOK'
  <2> DEFINE outcome == ResolvePrediction(rows[i], pass[w].candles, MaxHold)
  <2>1. i \in 1..Len(rows) /\ pass[w].candles \in Seq(Bar)
    BY <1>1 DEF PassType
  <2>2. rows[i] \in Row
    BY <2>1 DEF TypeOK
  <2>3. outcome \in Outcome \cup {None}
    BY <2>1, <2>2, RowIsTrade, ResolveType
  <2>4. rows' = IF outcome = None THEN rows ELSE Resolved(i, outcome)
    BY <1>6 DEF Settle
  <2>5. rows' \in Seq(Row) /\ Len(rows') = Len(rows)
    <3>1. CASE outcome = None
      BY <2>4, <3>1 DEF TypeOK
    <3>2. CASE outcome # None
      BY <2>1, <2>3, <2>4, <3>2, ResolvedType DEF TypeOK
    <3> QED
      BY <3>1, <3>2
  <2>6. pass' \in [Workers -> PassType]
    BY <1>6, DoneType DEF Settle
  <2>7. UNCHANGED <<closed, forming, reader>>
    BY <1>6 DEF Settle
  <2> QED
    BY <2>5, <2>6, <2>7 DEF TypeOK, PassType
<1> QED
  BY <1>2, <1>3, <1>4, <1>5, <1>6 DEF PassStep

\* A step of statistics().
LEMMA TypeReader ==
    ASSUME TypeOK, NEW r \in Readers, ReaderStep(r)
    PROVE  TypeOK'
<1>1. /\ pass \in [Workers -> PassType] /\ reader \in [Readers -> ReaderType]
      /\ Len(rows) \in Nat
  BY DEF TypeOK, PassType, ReaderType
<1>2. /\ UNCHANGED <<closed, forming, rows, pass>>
      /\ reader' \in [Readers -> ReaderType]
  <2>1. CASE ReadCompleted(r)
    BY <1>1, <2>1 DEF ReadCompleted, ReaderType
  <2>2. CASE ReadActive(r)
    BY <1>1, <2>2 DEF ReadActive, ReaderType
  <2>3. CASE Count(r)
    BY <1>1, <2>3 DEF Count, ReaderType
  <2>4. CASE Report(r)
    BY <1>1, <2>4 DEF Report, ReaderType, IdleReader
  <2> QED
    BY <2>1, <2>2, <2>3, <2>4 DEF ReaderStep
<1> QED
  BY <1>1, <1>2, SameTable DEF TypeOK

THEOREM TypeStep == TypeOK /\ [Next]_vars => TypeOK'
<1> SUFFICES ASSUME TypeOK, [Next]_vars PROVE TypeOK'
  OBVIOUS
<1>1. pass \in [Workers -> PassType] /\ reader \in [Readers -> ReaderType]
  BY DEF TypeOK, PassType, ReaderType
<1>2. CASE Restart
  <2>1. pass' \in [Workers -> PassType]
    BY <1>2 DEF Restart, IdlePass, PassType
  <2>2. reader' \in [Readers -> ReaderType]
    BY <1>2 DEF Restart, IdleReader, ReaderType
  <2> QED
    BY <1>2, <2>1, <2>2, SameTable DEF Restart, TypeOK
<1>3. CASE UNCHANGED vars
  BY <1>1, <1>3, SameTable DEF vars, TypeOK
<1> QED
  BY <1>2, <1>3, TypeMarket, TypeStore, TypePass, TypeReader DEF Next

\* Every state has the types the code and the schema give it.
THEOREM TypeCorrect == Spec => []TypeOK
  BY TypeInit, TypeStep, PTL DEF Spec

-----------------------------------------------------------------------------
(* What a step may do to the table *)

\* Row i is written: only its lifecycle columns, and only if it is not terminal.
Written(i, status, outcome) ==
    /\ Updatable(rows[i])
    /\ rows' = [rows EXCEPT ![i] = [rows[i] EXCEPT !.status = status, !.outcome = outcome]]

\* Every step leaves the table alone, appends a new origin or writes one row:
\* by hand, keeping its outcome, or with the answer a worker computed.
LEMMA TableStep ==
    ASSUME TypeOK, [Next]_vars
    PROVE  \/ rows' = rows
           \/ \E req \in Requests, ts \in Int :
                 /\ ~IsDuplicate(NewRow(req, ts))
                 /\ rows' = Append(rows, NewRow(req, ts))
                 /\ closed' = closed
           \/ \E i \in 1..Len(rows), status \in Status :
                 /\ Written(i, status, rows[i].outcome)
                 /\ closed' = closed
           \/ \E w \in Workers : \E i \in pass[w].todo :
                 LET outcome == ResolvePrediction(rows[i], pass[w].candles, MaxHold)
                 IN  /\ Settle(w, i)
                     /\ outcome \in Outcome
                     /\ Written(i, outcome.status, outcome)
                     /\ closed' = closed
<1>1. CASE UNCHANGED vars
  BY <1>1 DEF vars
<1>2. CASE Restart
  BY <1>2 DEF Restart
<1>3. ASSUME NEW s \in Symbols, MarketStep(s) PROVE rows' = rows
  BY <1>3 DEF MarketStep, MarketTicks, MarketCloses
<1>4. ASSUME NEW r \in Readers, ReaderStep(r) PROVE rows' = rows
  BY <1>4 DEF ReaderStep, ReadCompleted, ReadActive, Count, Report
<1>5. ASSUME NEW req \in Requests, NEW ts \in Int, Record(req, ts)
      PROVE  /\ ~IsDuplicate(NewRow(req, ts))
             /\ rows' = Append(rows, NewRow(req, ts))
             /\ closed' = closed
  BY <1>5 DEF Record
<1>6. ASSUME NEW i \in 1..Len(rows), NEW status \in StatusWrites, UpdateStatus(i, status)
      PROVE  status \in Status /\ Written(i, status, rows[i].outcome) /\ closed' = closed
  <2>1. rows[i] \in Row
    BY DEF TypeOK
  <2>2. [rows[i] EXCEPT !.status = status]
          = [rows[i] EXCEPT !.status = status, !.outcome = rows[i].outcome]
    BY <2>1 DEF Row
  <2>3. status \in Status
    BY ForwardTestingAssumption
  <2> QED
    BY <1>6, <2>2, <2>3 DEF UpdateStatus, Written
<1>7. ASSUME NEW w \in Workers, NEW i \in pass[w].todo, Settle(w, i), rows' # rows
      PROVE  LET outcome == ResolvePrediction(rows[i], pass[w].candles, MaxHold)
             IN  /\ outcome \in Outcome
                 /\ Written(i, outcome.status, outcome)
                 /\ closed' = closed
  <2> DEFINE outcome == ResolvePrediction(rows[i], pass[w].candles, MaxHold)
  <2>1. pass[w] \in PassType
    BY DEF TypeOK, PassType
  <2>2. i \in 1..Len(rows) /\ pass[w].candles \in Seq(Bar)
    BY <2>1 DEF PassType
  <2>3. rows[i] \in Row
    BY <2>2 DEF TypeOK
  <2>4. outcome \in Outcome \cup {None}
    BY <2>2, <2>3, RowIsTrade, ResolveType
  <2>5. rows' = IF outcome = None THEN rows ELSE Resolved(i, outcome)
    BY <1>7 DEF Settle
  <2>6. outcome # None /\ rows' = Resolved(i, outcome)
    BY <1>7, <2>5
  <2>7. Written(i, outcome.status, outcome)
    BY <1>7, <2>6 DEF Resolved, Written
  <2> QED
    BY <1>7, <2>4, <2>6, <2>7 DEF Settle
<1>8. ASSUME NEW w \in Workers, PassStep(w), rows' # rows
      PROVE  \E i \in pass[w].todo : Settle(w, i)
  BY <1>8 DEF PassStep, BeginPass, Fetch, FetchFails, PassFails
<1>9. CASE StoreStep
  <2>1. CASE \E req \in Requests : \E ts \in 0..(Len(closed[req.symbol]) + 1) : Record(req, ts)
    <3>1. PICK req \in Requests, ts \in Int : Record(req, ts)
      BY <2>1
    <3> QED
      BY <1>5, <3>1
  <2>2. CASE \E i \in 1..Len(rows) : \E status \in StatusWrites : UpdateStatus(i, status)
    BY <1>6, <2>2
  <2> QED
    BY <1>9, <2>1, <2>2 DEF StoreStep
<1>10. CASE \E w \in Workers : PassStep(w)
  <2>1. CASE rows' = rows
    BY <2>1
  <2>2. CASE rows' # rows
    <3>1. PICK w \in Workers : PassStep(w)
      BY <1>10
    <3>2. PICK i \in pass[w].todo : Settle(w, i)
      BY <1>8, <2>2, <3>1
    <3> QED
      BY <1>7, <2>2, <3>2
  <2> QED
    BY <2>1, <2>2
<1> QED
  BY <1>1, <1>2, <1>3, <1>4, <1>9, <1>10 DEF Next

\* Writing one row: every other row is as it was.
LEMMA WrittenRows ==
    ASSUME TypeOK, NEW i \in 1..Len(rows), NEW status \in Status,
           NEW outcome \in Outcome \cup {None}, Written(i, status, outcome)
    PROVE  /\ Len(rows') = Len(rows)
           /\ \A j \in 1..Len(rows) : j # i => rows'[j] = rows[j]
           /\ rows'[i] = [rows[i] EXCEPT !.status = status, !.outcome = outcome]
           /\ rows'[i].status = status /\ rows'[i].outcome = outcome
           /\ rows[i] \in Row
<1> DEFINE new == [rows[i] EXCEPT !.status = status, !.outcome = outcome]
<1>1. rows \in Seq(Row) /\ rows[i] \in Row
  BY DEF TypeOK
<1>2. new \in Row
  BY <1>1, LifecycleType
<1>3. rows' = [rows EXCEPT ![i] = new]
  BY DEF Written
<1> HIDE DEF new
<1>4. /\ Len(rows') = Len(rows)
      /\ \A j \in 1..Len(rows) : j # i => rows'[j] = rows[j]
      /\ rows'[i] = new
  BY <1>1, <1>2, <1>3
<1>5. new.status = status /\ new.outcome = outcome
  BY <1>1 DEF new, Row
<1> QED
  BY <1>1, <1>4, <1>5 DEF new

\* What is fixed when a row is created.
SameCapture(a, b) ==
    /\ a.symbol = b.symbol /\ a.created = b.created /\ a.source = b.source
    /\ a.direction = b.direction /\ a.entry = b.entry
    /\ a.stop = b.stop /\ a.target = b.target

\* Rows are never removed, what was captured never changes, and a terminal row
\* never changes at all.
LEMMA RowsPersist ==
    ASSUME TypeOK, [Next]_vars
    PROVE  /\ Len(rows') >= Len(rows)
           /\ \A j \in 1..Len(rows) :
                 /\ SameCapture(rows'[j], rows[j])
                 /\ [rows'[j] EXCEPT !.status = rows[j].status,
                                     !.outcome = rows[j].outcome] = rows[j]
                 /\ Terminal(rows[j]) => rows'[j] = rows[j]
<1>0. /\ rows \in Seq(Row) /\ Len(rows) \in Nat
      /\ \A j \in 1..Len(rows) : rows[j] \in Row
  BY DEF TypeOK
<1>a. \A row \in Row : [row EXCEPT !.status = row.status, !.outcome = row.outcome] = row
  BY DEF Row
<1>1. CASE rows' = rows
  <2>1. ASSUME NEW j \in 1..Len(rows)
        PROVE  /\ SameCapture(rows'[j], rows[j])
               /\ [rows'[j] EXCEPT !.status = rows[j].status,
                                   !.outcome = rows[j].outcome] = rows[j]
               /\ rows'[j] = rows[j]
    <3>1. rows'[j] = rows[j] /\ rows[j] \in Row
      BY <1>0, <1>1
    <3> QED
      BY <1>a, <3>1 DEF SameCapture
  <2>2. Len(rows') >= Len(rows)
    BY <1>0, <1>1
  <2> QED
    BY <2>1, <2>2
<1>2. ASSUME NEW req \in Requests, NEW ts \in Int, rows' = Append(rows, NewRow(req, ts))
      PROVE  Len(rows') >= Len(rows) /\ \A j \in 1..Len(rows) : rows'[j] = rows[j]
  BY <1>0, <1>2
<1>3. ASSUME NEW i \in 1..Len(rows), NEW status \in Status,
             NEW outcome \in Outcome \cup {None}, Written(i, status, outcome)
      PROVE  /\ Len(rows') >= Len(rows)
             /\ \A j \in 1..Len(rows) :
                   /\ SameCapture(rows'[j], rows[j])
                   /\ [rows'[j] EXCEPT !.status = rows[j].status,
                                       !.outcome = rows[j].outcome] = rows[j]
                   /\ Terminal(rows[j]) => rows'[j] = rows[j]
  <2>1. /\ Len(rows') = Len(rows)
        /\ \A j \in 1..Len(rows) : j # i => rows'[j] = rows[j]
        /\ rows'[i] = [rows[i] EXCEPT !.status = status, !.outcome = outcome]
    BY <1>3, WrittenRows
  <2>2. SameCapture(rows'[i], rows[i])
    BY <1>0, <2>1 DEF SameCapture, Row
  <2>3. [rows'[i] EXCEPT !.status = rows[i].status, !.outcome = rows[i].outcome] = rows[i]
    BY <1>0, <2>1 DEF Row
  <2>4. ~Terminal(rows[i])
    BY <1>3 DEF Written, Updatable
  <2>5. ASSUME NEW j \in 1..Len(rows), j # i
        PROVE  /\ SameCapture(rows'[j], rows[j])
               /\ [rows'[j] EXCEPT !.status = rows[j].status,
                                   !.outcome = rows[j].outcome] = rows[j]
               /\ rows'[j] = rows[j]
    <3>1. rows'[j] = rows[j] /\ rows[j] \in Row
      BY <1>0, <2>1, <2>5
    <3> QED
      BY <1>a, <3>1 DEF SameCapture
  <2>6. Len(rows') >= Len(rows)
    BY <1>0, <2>1
  <2> QED
    BY <2>2, <2>3, <2>4, <2>5, <2>6
<1>4. CASE \E i \in 1..Len(rows), status \in Status : Written(i, status, rows[i].outcome)
  <2>1. PICK i \in 1..Len(rows), status \in Status : Written(i, status, rows[i].outcome)
    BY <1>4
  <2>2. rows[i].outcome \in Outcome \cup {None}
    BY <1>0 DEF Row
  <2> QED
    BY <1>3, <2>1, <2>2
<1>5. ASSUME NEW w \in Workers, NEW i \in pass[w].todo, NEW outcome \in Outcome,
             Written(i, outcome.status, outcome)
      PROVE  /\ Len(rows') >= Len(rows)
             /\ \A j \in 1..Len(rows) :
                   /\ SameCapture(rows'[j], rows[j])
                   /\ [rows'[j] EXCEPT !.status = rows[j].status,
                                       !.outcome = rows[j].outcome] = rows[j]
                   /\ Terminal(rows[j]) => rows'[j] = rows[j]
  <2>1. pass[w] \in PassType
    BY DEF TypeOK, PassType
  <2>2. i \in 1..Len(rows) /\ outcome.status \in Status
    BY <2>1 DEF PassType, Outcome, Status, TerminalStates
  <2> QED
    BY <1>3, <1>5, <2>2
<1>6. CASE \E req \in Requests, ts \in Int : rows' = Append(rows, NewRow(req, ts))
  BY <1>0, <1>2, <1>6, <1>a DEF SameCapture
<1>7. CASE \E w \in Workers : \E i \in pass[w].todo :
              LET outcome == ResolvePrediction(rows[i], pass[w].candles, MaxHold)
              IN  outcome \in Outcome /\ Written(i, outcome.status, outcome)
  BY <1>5, <1>7
<1> QED
  BY <1>1, <1>4, <1>6, <1>7, TableStep

\* Audit rule (store.py:9-14), whatever threads run in whatever order.
THEOREM AuditTrailHolds == Spec => AuditTrail
<1>1. TypeOK /\ [Next]_vars
        => [/\ Len(rows') >= Len(rows)
            /\ \A i \in 1..Len(rows) :
                  /\ Terminal(rows[i]) => rows'[i] = rows[i]
                  /\ [rows'[i] EXCEPT !.status = rows[i].status,
                                      !.outcome = rows[i].outcome] = rows[i]]_vars
  BY RowsPersist
<1> QED
  BY <1>1, TypeCorrect, PTL DEF Spec, AuditTrail

-----------------------------------------------------------------------------
(* Duplicate protection *)

\* A row beyond the old end of the table is a single, fresh one.
LEMMA NewestRow ==
    ASSUME TypeOK, [Next]_vars, NEW i \in 1..Len(rows'), i \notin 1..Len(rows)
    PROVE  /\ i = Len(rows) + 1
           /\ ~IsDuplicate(rows'[i])
           /\ rows'[i].status = "ACTIVE" /\ rows'[i].outcome = None
           /\ rows' = Append(rows, rows'[i])
           /\ closed' = closed
<1>1. rows \in Seq(Row)
  BY DEF TypeOK
<1>2. ASSUME NEW j \in 1..Len(rows), NEW row, rows' = [rows EXCEPT ![j] = row]
      PROVE  FALSE
  BY <1>1, <1>2
<1>3. ~(\E j \in 1..Len(rows), status \in Status : Written(j, status, rows[j].outcome))
  BY <1>2 DEF Written
<1>4. ASSUME NEW w \in Workers, NEW j \in pass[w].todo, NEW outcome,
             Written(j, outcome.status, outcome)
      PROVE  FALSE
  <2>1. pass[w] \in PassType
    BY DEF TypeOK, PassType
  <2>2. j \in 1..Len(rows)
    BY <2>1 DEF PassType
  <2> QED
    BY <1>2, <1>4, <2>2 DEF Written
<1>5. PICK req \in Requests, ts \in Int : /\ ~IsDuplicate(NewRow(req, ts))
                                          /\ rows' = Append(rows, NewRow(req, ts))
                                          /\ closed' = closed
  BY <1>3, <1>4, TableStep
<1>6. i = Len(rows) + 1 /\ rows'[i] = NewRow(req, ts)
  BY <1>1, <1>5
<1> QED
  BY <1>5, <1>6 DEF NewRow

\* One row per origin, however many callers retry (store.py:6-8).
THEOREM OncePerOriginHolds == Spec => []OncePerOrigin
<1>1. Init => OncePerOrigin
  BY DEF Init, OncePerOrigin
<1>2. TypeOK /\ OncePerOrigin /\ [Next]_vars => OncePerOrigin'
  <2> SUFFICES ASSUME TypeOK, OncePerOrigin, [Next]_vars,
                      NEW i \in 1..Len(rows'), NEW j \in 1..Len(rows'),
                      SameOrigin(rows'[i], rows'[j])
               PROVE  i = j
    BY DEF OncePerOrigin
  <2>1. \A k \in 1..Len(rows) : SameCapture(rows'[k], rows[k])
    BY RowsPersist
  <2>2. CASE i \in 1..Len(rows) /\ j \in 1..Len(rows)
    BY <2>1, <2>2 DEF OncePerOrigin, SameCapture, SameOrigin
  <2>3. CASE i \in 1..Len(rows) /\ j \notin 1..Len(rows)
    BY <2>1, <2>3, NewestRow DEF IsDuplicate, SameCapture, SameOrigin
  <2>4. CASE i \notin 1..Len(rows) /\ j \in 1..Len(rows)
    BY <2>1, <2>4, NewestRow DEF IsDuplicate, SameCapture, SameOrigin
  <2>5. CASE i \notin 1..Len(rows) /\ j \notin 1..Len(rows)
    BY <2>5, NewestRow
  <2> QED
    BY <2>2, <2>3, <2>4, <2>5
<1> QED
  BY <1>1, <1>2, TypeCorrect, PTL DEF Spec

-----------------------------------------------------------------------------
(* Verdicts *)

\* The bound on the modelled history.
HistoryBound == \A s \in Symbols : Len(closed[s]) <= MaxBars

\* What a worker is about to resolve with is a prefix of what has happened.
SnapshotIsPrefix ==
    \A w \in Workers :
        pass[w].phase = "write" =>
            \A i \in pass[w].todo :
                Oldest(w, i) => Prefix(pass[w].candles, closed[rows[i].symbol])

\* An outcome is written together with a terminal status.
OutcomeIsTerminal ==
    \A i \in 1..Len(rows) : rows[i].outcome # None => Terminal(rows[i])

ReplayInv == /\ TypeOK
             /\ HistoryBound
             /\ SnapshotIsPrefix
             /\ OutcomeIsTerminal
             /\ VerdictIsReplay

LEMMA PrefixTransitive ==
    ASSUME NEW a \in Seq(Bar), NEW b \in Seq(Bar), NEW c \in Seq(Bar),
           Prefix(a, b), Prefix(b, c)
    PROVE  Prefix(a, c)
  BY DEF Prefix

\* Only the market writes the history.
LEMMA HistoryStep ==
    ASSUME [Next]_vars
    PROVE  closed' = closed \/ \E s \in Symbols : MarketCloses(s)
<1>1. CASE \E s \in Symbols : MarketStep(s)
  BY <1>1 DEF MarketStep, MarketTicks, Tick
<1>2. CASE StoreStep
  BY <1>2 DEF StoreStep, Record, UpdateStatus
<1>3. CASE \E w \in Workers : PassStep(w)
  BY <1>3 DEF PassStep, BeginPass, Fetch, FetchFails, Settle, PassFails
<1>4. CASE \E r \in Readers : ReaderStep(r)
  BY <1>4 DEF ReaderStep, ReadCompleted, ReadActive, Count, Report
<1>5. CASE Restart \/ UNCHANGED vars
  BY <1>5 DEF Restart, vars
<1> QED
  BY <1>1, <1>2, <1>3, <1>4, <1>5 DEF Next

\* Completed bars are only ever appended to, up to the bound.
LEMMA HistoryGrows ==
    ASSUME TypeOK, HistoryBound, [Next]_vars, NEW s \in Symbols
    PROVE  Prefix(closed[s], closed'[s]) /\ Len(closed'[s]) <= MaxBars
<1>0. closed \in [Symbols -> Seq(Bar)] /\ closed[s] \in Seq(Bar) /\ Len(closed[s]) <= MaxBars
  BY DEF TypeOK, HistoryBound
<1>1. CASE closed' = closed
  BY <1>0, <1>1 DEF Prefix
<1>2. ASSUME NEW z \in Symbols, MarketCloses(z)
      PROVE  Prefix(closed[s], closed'[s]) /\ Len(closed'[s]) <= MaxBars
  <2>1. PICK bar : closed' = [closed EXCEPT ![z] = Append(closed[z], bar)]
    BY <1>2 DEF MarketCloses, CloseBar
  <2>2. CASE s = z
    <3>1. closed'[s] = Append(closed[s], bar)
      BY <1>0, <2>1, <2>2
    <3>2. Len(closed[s]) < MaxBars /\ MaxBars \in Nat
      BY <1>2, <2>2, MarketAssumption DEF MarketCloses, CloseBar
    <3> QED
      BY <1>0, <3>1, <3>2 DEF Prefix
  <2>3. CASE s # z
    <3>1. closed'[s] = closed[s]
      BY <1>0, <2>1, <2>3
    <3> QED
      BY <1>0, <3>1 DEF Prefix
  <2> QED
    BY <2>2, <2>3
<1> QED
  BY <1>1, <1>2, HistoryStep

\* A worker holding candles has just fetched them, or held them before.
LEMMA HoldsCandles ==
    ASSUME TypeOK, [Next]_vars, NEW w \in Workers, pass'[w].phase = "write"
    PROVE  \/ pass'[w] = pass[w]
           \/ \E i \in pass[w].todo : Fetch(w, i)
<1>0. pass \in [Workers -> PassType]
  BY DEF TypeOK, PassType
<1>1. CASE pass' = pass
  BY <1>1
<1>2. CASE Restart
  BY <1>2 DEF Restart, IdlePass
<1>3. ASSUME NEW v \in Workers, PassStep(v), v # w PROVE pass'[w] = pass[w]
  BY <1>0, <1>3 DEF PassStep, BeginPass, Fetch, FetchFails, Settle, PassFails, Done
<1>4. CASE PassStep(w)
  <2>1. CASE BeginPass(w)
    BY <1>0, <2>1 DEF BeginPass
  <2>2. CASE PassFails(w)
    BY <1>0, <2>2 DEF PassFails, IdlePass
  <2>3. ASSUME NEW i, pass' = Done(w, i) PROVE FALSE
    BY <1>0, <2>3 DEF Done, IdlePass
  <2> QED
    BY <1>4, <2>1, <2>2, <2>3 DEF PassStep, FetchFails, Settle
<1>5. CASE StoreStep
  BY <1>1, <1>5 DEF StoreStep, Record, UpdateStatus
<1>6. ASSUME NEW s \in Symbols, MarketStep(s) PROVE pass' = pass
  BY <1>6 DEF MarketStep, MarketTicks, MarketCloses
<1>7. ASSUME NEW r \in Readers, ReaderStep(r) PROVE pass' = pass
  BY <1>7 DEF ReaderStep, ReadCompleted, ReadActive, Count, Report
<1>8. CASE UNCHANGED vars
  BY <1>1, <1>8 DEF vars
<1> QED
  BY <1>1, <1>2, <1>3, <1>4, <1>5, <1>6, <1>7, <1>8 DEF Next

\* A faithful feed returns the whole history.
LEMMA FaithfulFeedIsHistory ==
    ASSUME TypeOK, HistoryBound, FaithfulFeed, NEW s \in Symbols
    PROVE  Feed(s, Window) = closed[s]
  BY ForwardTestingAssumption, MarketAssumption DEF FaithfulFeed, Feed, LastOf, HistoryBound, TypeOK

LEMMA SnapshotStep ==
    ASSUME ReplayInv, FaithfulFeed, [Next]_vars
    PROVE  SnapshotIsPrefix'
<1> SUFFICES ASSUME NEW w \in Workers, pass'[w].phase = "write",
                    NEW i \in pass'[w].todo, Oldest(w, i)'
             PROVE  Prefix(pass'[w].candles, closed'[rows'[i].symbol])
  BY DEF SnapshotIsPrefix
<1>0. TypeOK /\ HistoryBound /\ SnapshotIsPrefix
  BY DEF ReplayInv
<1>1. pass[w] \in PassType /\ pass \in [Workers -> PassType]
  BY <1>0 DEF TypeOK, PassType
<1>2. ASSUME i \in 1..Len(rows), NEW bars \in Seq(Bar), Prefix(bars, closed[rows[i].symbol])
      PROVE  Prefix(bars, closed'[rows'[i].symbol])
  <2>1. rows'[i].symbol = rows[i].symbol
    BY <1>0, <1>2, RowsPersist DEF SameCapture
  <2>2. rows[i] \in Row
    BY <1>0, <1>2 DEF TypeOK
  <2>3. rows[i].symbol \in Symbols
    BY <2>2 DEF Row
  <2>4. Prefix(closed[rows[i].symbol], closed'[rows[i].symbol])
    BY <1>0, <2>3, HistoryGrows
  <2>5. TypeOK'
    BY <1>0, TypeStep
  <2>6. closed[rows[i].symbol] \in Seq(Bar) /\ closed'[rows[i].symbol] \in Seq(Bar)
    BY <1>0, <2>3, <2>5 DEF TypeOK
  <2> QED
    BY <1>2, <2>1, <2>4, <2>6, PrefixTransitive
<1>3. CASE pass'[w] = pass[w]
  <2>1. Oldest(w, i) /\ i \in pass[w].todo /\ pass[w].phase = "write"
    BY <1>3 DEF Oldest
  <2>2. i \in 1..Len(rows) /\ pass[w].candles \in Seq(Bar)
    BY <1>1, <2>1 DEF PassType
  <2>3. Prefix(pass[w].candles, closed[rows[i].symbol])
    BY <1>0, <2>1 DEF SnapshotIsPrefix
  <2> QED
    BY <1>2, <1>3, <2>2, <2>3
<1>4. ASSUME NEW k \in pass[w].todo, Fetch(w, k)
      PROVE  Prefix(pass'[w].candles, closed'[rows'[i].symbol])
  <2>1. /\ pass'[w].todo = pass[w].todo
        /\ pass'[w].candles = Feed(rows[k].symbol, Window)
        /\ Oldest(w, k)
    BY <1>1, <1>4 DEF Fetch, PassType
  <2>2. k \in 1..Len(rows) /\ i \in 1..Len(rows)
    BY <1>1, <2>1 DEF PassType
  <2>3. i = k
    BY <2>1, <2>2 DEF Oldest
  <2>4. rows[i] \in Row
    BY <1>0, <2>2 DEF TypeOK
  <2>5. rows[i].symbol \in Symbols
    BY <2>4 DEF Row
  <2>6. pass'[w].candles = closed[rows[i].symbol] /\ closed[rows[i].symbol] \in Seq(Bar)
    BY <1>0, <2>1, <2>3, <2>5, FaithfulFeedIsHistory DEF TypeOK
  <2>7. Prefix(closed[rows[i].symbol], closed[rows[i].symbol])
    BY <2>6 DEF Prefix
  <2> QED
    BY <1>2, <2>2, <2>6, <2>7
<1> QED
  BY <1>0, <1>3, <1>4, HoldsCandles

\* A status written by hand leaves every outcome as it was.
LEMMA ByHandKeepsOutcomes ==
    ASSUME TypeOK, NEW j \in 1..Len(rows), NEW status \in Status,
           Written(j, status, rows[j].outcome), NEW i \in 1..Len(rows)
    PROVE  rows'[i].outcome = rows[i].outcome
<1>1. rows[j] \in Row
  BY DEF TypeOK
<1>2. rows[j].outcome \in Outcome \cup {None}
  BY <1>1 DEF Row
<1>3. j # i => rows'[i] = rows[i]
  BY <1>2, WrittenRows
<1>4. rows'[j].outcome = rows[j].outcome
  BY <1>2, WrittenRows
<1> QED
  BY <1>3, <1>4

\* Every outcome in the table is still what a replay of the history gives.
LEMMA VerdictStep ==
    ASSUME ReplayInv, FaithfulFeed, [Next]_vars
    PROVE  VerdictIsReplay' /\ OutcomeIsTerminal'
<1>0. /\ TypeOK /\ HistoryBound /\ SnapshotIsPrefix /\ VerdictIsReplay /\ OutcomeIsTerminal
      /\ TypeOK'
  BY TypeStep DEF ReplayInv
<1> SUFFICES ASSUME NEW i \in 1..Len(rows'), rows'[i].outcome # None
             PROVE  /\ rows'[i].outcome =
                         ResolvePrediction(rows'[i], closed'[rows'[i].symbol], MaxHold)
                    /\ Terminal(rows'[i])
  BY DEF VerdictIsReplay, OutcomeIsTerminal
<1>1. i \in 1..Len(rows)
  BY <1>0, NewestRow
<1>2. SameCapture(rows'[i], rows[i]) /\ rows[i] \in Row
  <2>1. SameCapture(rows'[i], rows[i])
    BY <1>0, <1>1, RowsPersist
  <2>2. rows[i] \in Row
    BY <1>0, <1>1 DEF TypeOK
  <2> QED
    BY <2>1, <2>2
<1>3. rows[i].symbol \in Symbols
  BY <1>2 DEF Row
<1> DEFINE before == closed[rows[i].symbol]
           after == closed'[rows[i].symbol]
<1>4. before \in Seq(Bar) /\ after \in Seq(Bar) /\ Prefix(before, after)
  BY <1>0, <1>3, HistoryGrows DEF TypeOK
<1>5. ResolvePrediction(rows'[i], after, MaxHold) = ResolvePrediction(rows[i], after, MaxHold)
  BY <1>2, <1>4, ResolveReads DEF SameCapture
<1>6. rows'[i].symbol = rows[i].symbol
  BY <1>2 DEF SameCapture
<1>7. CASE rows[i].outcome # None
  <2>1. rows'[i] = rows[i]
    BY <1>0, <1>1, <1>7, RowsPersist DEF OutcomeIsTerminal
  <2>2. Terminal(rows[i])
    BY <1>0, <1>1, <1>7 DEF OutcomeIsTerminal
  <2>3. rows[i].outcome = ResolvePrediction(rows[i], before, MaxHold)
    BY <1>0, <1>1, <1>7 DEF VerdictIsReplay
  <2> QED
    BY <1>4, <1>7, <2>1, <2>2, <2>3, DecisionOnPrefixStands
<1>8. CASE rows[i].outcome = None
  <2>1. ASSUME NEW j \in 1..Len(rows), NEW status \in Status,
               Written(j, status, rows[j].outcome)
        PROVE  FALSE
    BY <1>0, <1>1, <1>8, <2>1, ByHandKeepsOutcomes
  <2>2. rows' # rows
    BY <1>8
  <2>3. ASSUME NEW req, NEW ts, rows' = Append(rows, NewRow(req, ts)) PROVE FALSE
    <3>1. rows'[i] = rows[i]
      BY <1>0, <1>1, <2>3 DEF TypeOK
    <3> QED
      BY <1>8, <3>1
  <2>a. PICK w \in Workers : \E k \in pass[w].todo :
          LET outcome == ResolvePrediction(rows[k], pass[w].candles, MaxHold)
          IN  /\ Settle(w, k)
              /\ outcome \in Outcome
              /\ Written(k, outcome.status, outcome)
              /\ closed' = closed
    BY <1>0, <2>1, <2>2, <2>3, TableStep
  <2>4. PICK k \in pass[w].todo :
          LET outcome == ResolvePrediction(rows[k], pass[w].candles, MaxHold)
          IN  /\ Settle(w, k)
              /\ outcome \in Outcome
              /\ Written(k, outcome.status, outcome)
              /\ closed' = closed
    BY <2>a
  <2> DEFINE outcome == ResolvePrediction(rows[k], pass[w].candles, MaxHold)
  <2>5. pass[w] \in PassType
    BY <1>0 DEF TypeOK, PassType
  <2>6. /\ k \in 1..Len(rows) /\ pass[w].candles \in Seq(Bar)
        /\ outcome.status \in Status /\ outcome.status \in TerminalStates
    BY <2>4, <2>5 DEF PassType, Outcome, Status, TerminalStates
  <2>7. /\ k # i => rows'[i] = rows[i]
        /\ rows'[k].status = outcome.status /\ rows'[k].outcome = outcome
    <3>1. outcome \in Outcome \cup {None} /\ Written(k, outcome.status, outcome)
      BY <2>4
    <3> HIDE DEF outcome
    <3>2. k # i => rows'[i] = rows[i]
      BY <1>0, <1>1, <2>6, <3>1, WrittenRows
    <3>3. rows'[k].status = outcome.status /\ rows'[k].outcome = outcome
      BY <1>0, <2>6, <3>1, WrittenRows
    <3> QED
      BY <3>2, <3>3
  <2>8. k = i
    BY <1>8, <2>7
  <2>9. rows'[i].outcome = outcome /\ rows'[i].status = outcome.status
    BY <2>7, <2>8
  <2>10. pass[w].phase = "write" /\ Oldest(w, k)
    BY <2>4 DEF Settle
  <2>11. Prefix(pass[w].candles, before)
    BY <1>0, <2>4, <2>8, <2>10 DEF SnapshotIsPrefix
  <2>12. outcome # None
    BY <2>4, NoneAssumption
  <2>13. ResolvePrediction(rows[i], before, MaxHold) = outcome
    BY <1>4, <2>6, <2>8, <2>11, <2>12, DecisionOnPrefixStands
  <2>14. after = before
    BY <2>4
  <2> QED
    BY <1>5, <1>6, <2>6, <2>9, <2>13, <2>14 DEF Terminal
<1> QED
  BY <1>7, <1>8

THEOREM ReplayInvariant == FaithfulFeed => (Spec => []ReplayInv)
<1> SUFFICES ASSUME FaithfulFeed PROVE Spec => []ReplayInv
  OBVIOUS
<1>1. Init => ReplayInv
  <2> SUFFICES ASSUME Init PROVE ReplayInv
    OBVIOUS
  <2>1. TypeOK
    BY TypeInit
  <2>2. HistoryBound
    BY MarketAssumption DEF Init, MarketInit, HistoryBound
  <2>3. SnapshotIsPrefix
    BY DEF Init, SnapshotIsPrefix, IdlePass
  <2>4. OutcomeIsTerminal /\ VerdictIsReplay
    BY DEF Init, OutcomeIsTerminal, VerdictIsReplay
  <2> QED
    BY <2>1, <2>2, <2>3, <2>4 DEF ReplayInv
<1>2. ReplayInv /\ [Next]_vars => ReplayInv'
  <2> SUFFICES ASSUME ReplayInv, [Next]_vars PROVE ReplayInv'
    OBVIOUS
  <2>1. TypeOK'
    BY TypeStep DEF ReplayInv
  <2>2. HistoryBound'
    BY HistoryGrows DEF ReplayInv, HistoryBound
  <2> QED
    BY <2>1, <2>2, SnapshotStep, VerdictStep DEF ReplayInv
<1> QED
  BY <1>1, <1>2, PTL DEF Spec

\* Results do not depend on when the monitor looked: under a feed of completed
\* bars whose window reaches back far enough, a recorded outcome is at all
\* times what resolve_prediction gives on the whole history.
THEOREM VerdictIsReplayHolds == FaithfulFeed => (Spec => []VerdictIsReplay)
<1>1. ReplayInv => VerdictIsReplay
  BY DEF ReplayInv
<1> QED
  BY <1>1, ReplayInvariant, PTL

-----------------------------------------------------------------------------
(* statistics() *)

\* A reader's figures: what it has seen resolved stays terminal, so what it
\* later reads as open is something else, and all of it is in its total.
FiguresInv ==
    \A r \in Readers :
        /\ reader[r].phase # "idle" =>
              \A i \in reader[r].resolved : i \in 1..Len(rows) /\ Terminal(rows[i])
        /\ reader[r].phase = "completed" => reader[r].open = {}
        /\ reader[r].resolved \cap reader[r].open = {}
        /\ reader[r].phase = "report" =>
              reader[r].resolved \cup reader[r].open \subseteq 1..reader[r].total

LEMMA OpenIsNotTerminal ==
    ASSUME NEW row
    PROVE  ~(Open(row) /\ Terminal(row))
  BY DEF Open, Terminal, OpenStates, TerminalStates

\* The rows a reader saw resolved are still there and still terminal.
LEMMA SeenStaysTerminal ==
    ASSUME TypeOK, [Next]_vars, NEW i \in 1..Len(rows), Terminal(rows[i])
    PROVE  i \in 1..Len(rows') /\ Terminal(rows'[i])
<1>1. rows'[i] = rows[i] /\ Len(rows') >= Len(rows)
  BY RowsPersist
<1>2. Len(rows) \in Nat /\ Len(rows') \in Nat
  BY TypeStep DEF TypeOK
<1> QED
  BY <1>1, <1>2

\* A step of other actors leaves a reader's figures alone.
LEMMA ReaderUntouched ==
    ASSUME TypeOK, FiguresInv, [Next]_vars, reader' = reader
    PROVE  FiguresInv'
  BY SeenStaysTerminal DEF FiguresInv

LEMMA FiguresStep ==
    ASSUME TypeOK, FiguresInv, [Next]_vars
    PROVE  FiguresInv'
<1>0. reader \in [Readers -> ReaderType]
  BY DEF TypeOK, ReaderType
<1>1. ASSUME NEW r \in Readers, ReaderStep(r)
      PROVE  FiguresInv'
  <2>0. rows' = rows
    BY <1>1 DEF ReaderStep, ReadCompleted, ReadActive, Count, Report
  <2>1. CASE ReadCompleted(r)
    <3>1. /\ reader'[r].resolved \subseteq {i \in 1..Len(rows) : Terminal(rows[i])}
          /\ reader'[r].open = {}
          /\ reader'[r].phase = "completed"
          /\ \A q \in Readers : q # r => reader'[q] = reader[q]
      BY <1>0, <2>1 DEF ReadCompleted, ReaderType
    <3> QED
      BY <2>0, <3>1 DEF FiguresInv
  <2>2. CASE ReadActive(r)
    <3>1. /\ reader'[r].resolved = reader[r].resolved
          /\ reader'[r].open = {i \in 1..Len(rows) : Open(rows[i])}
          /\ reader'[r].phase = "active"
          /\ \A q \in Readers : q # r => reader'[q] = reader[q]
      BY <1>0, <2>2 DEF ReadActive, ReaderType
    <3>2. reader'[r].resolved \cap reader'[r].open = {}
      BY <3>1, <2>2, OpenIsNotTerminal DEF ReadActive, FiguresInv
    <3> QED
      BY <2>0, <2>2, <3>1, <3>2 DEF ReadActive, FiguresInv
  <2>3. CASE Count(r)
    <3>1. /\ reader'[r].resolved = reader[r].resolved
          /\ reader'[r].open = reader[r].open
          /\ reader'[r].phase = "report"
          /\ reader'[r].total = Len(rows)
          /\ \A q \in Readers : q # r => reader'[q] = reader[q]
      BY <1>0, <2>3 DEF Count, ReaderType
    <3>2. reader[r].resolved \cup reader[r].open \subseteq 1..Len(rows)
      BY <1>0 DEF ReaderType
    <3> QED
      BY <2>0, <2>3, <3>1, <3>2 DEF Count, FiguresInv
  <2>4. CASE Report(r)
    BY <1>0, <2>0, <2>4 DEF Report, FiguresInv, IdleReader
  <2> QED
    BY <1>1, <2>1, <2>2, <2>3, <2>4 DEF ReaderStep
<1>2. CASE Restart
  BY <1>2 DEF Restart, FiguresInv, IdleReader
<1>3. CASE UNCHANGED vars
  BY <1>3, ReaderUntouched DEF vars
<1>4. ASSUME NEW s \in Symbols, MarketStep(s) PROVE reader' = reader
  BY <1>4 DEF MarketStep, MarketTicks, MarketCloses
<1>5. CASE StoreStep
  BY <1>5, ReaderUntouched DEF StoreStep, Record, UpdateStatus
<1>6. ASSUME NEW w \in Workers, PassStep(w) PROVE reader' = reader
  BY <1>6 DEF PassStep, BeginPass, Fetch, FetchFails, Settle, PassFails
<1> QED
  BY <1>1, <1>2, <1>3, <1>4, <1>5, <1>6, ReaderUntouched DEF Next

\* No prediction is in a reader's resolved and open figures at once, and the
\* two never exceed its total, whatever is settled between its three reads.
THEOREM NeverCountedTwiceHolds == Spec => []NeverCountedTwice
<1>1. Init => FiguresInv
  BY DEF Init, FiguresInv, IdleReader
<1>2. TypeOK /\ FiguresInv => NeverCountedTwice
  <2> SUFFICES ASSUME TypeOK, FiguresInv, NEW r \in Readers, reader[r].phase = "report"
               PROVE  /\ reader[r].resolved \cap reader[r].open = {}
                      /\ Cardinality(reader[r].resolved) + Cardinality(reader[r].open)
                           <= reader[r].total
    BY DEF NeverCountedTwice
  <2> DEFINE a == reader[r].resolved
             b == reader[r].open
             n == reader[r].total
  <2>1. reader[r] \in ReaderType
    BY DEF TypeOK, ReaderType
  <2>2. n \in Nat
    BY <2>1 DEF ReaderType
  <2>3. a \cap b = {} /\ a \cup b \subseteq 1..n
    BY DEF FiguresInv
  <2> HIDE DEF a, b, n
  <2>4. IsFiniteSet(1..n) /\ Cardinality(1..n) = n
    <3>1. 1 \in Int /\ n \in Int
      BY <2>2
    <3>2. /\ IsFiniteSet(1..n)
          /\ Cardinality(1..n) = IF 1 > n THEN 0 ELSE n - 1 + 1
      BY ONLY <3>1, FS_Interval
    <3> QED
      BY <2>2, <3>2
  <2>5. /\ IsFiniteSet(a \cup b) /\ Cardinality(a \cup b) <= n
        /\ IsFiniteSet(a) /\ IsFiniteSet(b)
    BY <2>3, <2>4, FS_Subset
  <2>6. Cardinality(a \cup b) = Cardinality(a) + Cardinality(b) - Cardinality(a \cap b)
    BY <2>5, FS_Union
  <2>7. Cardinality(a \cap b) = 0
    BY <2>3, FS_EmptySet
  <2>8. Cardinality(a) \in Nat /\ Cardinality(b) \in Nat
    BY <2>5, FS_CardinalityType
  <2>9. Cardinality(a) + Cardinality(b) <= n
    BY <2>2, <2>5, <2>6, <2>7, <2>8
  <2> QED
    BY <2>3, <2>9 DEF a, b, n
<1>3. TypeOK /\ FiguresInv /\ [Next]_vars => FiguresInv'
  BY FiguresStep
<1> QED
  BY <1>1, <1>2, <1>3, TypeCorrect, PTL DEF Spec

-----------------------------------------------------------------------------
(* Refinement: the table behaves as the ledger *)

LEMMA EntriesAre ==
    ASSUME TypeOK
    PROVE  /\ Len(Entries) = Len(rows)
           /\ DOMAIN Entries = 1..Len(rows)
           /\ \A i \in 1..Len(rows) : Entries[i] = EntryOf(rows[i])
<1>1. Len(rows) \in Nat
  BY DEF TypeOK
<1>2. Entries \in Seq({EntryOf(rows[i]) : i \in 1..Len(rows)})
  BY <1>1 DEF Entries
<1>3. DOMAIN Entries = 1..Len(rows)
  BY DEF Entries
<1>4. Len(Entries) = Len(rows)
  BY <1>1, <1>2, <1>3
<1> QED
  BY <1>3, <1>4 DEF Entries

\* A replay of an entry is a replay of its row.
LEMMA EntryReplay ==
    ASSUME NEW row, NEW candles \in Seq(Bar)
    PROVE  Replay(EntryOf(row), candles) = ResolvePrediction(row, candles, MaxHold)
<1>1. /\ EntryOf(row).direction = row.direction /\ EntryOf(row).created = row.created
      /\ EntryOf(row).entry = row.entry
      /\ EntryOf(row).stop = row.stop /\ EntryOf(row).target = row.target
  BY DEF EntryOf
<1> QED
  BY <1>1, ResolveReads DEF Replay

\* A bar completes: the ledger's market advances.
LEMMA RefineMarket ==
    ASSUME ReplayInv, NEW s \in Symbols, MarketCloses(s)
    PROVE  Ledger!Advance(s)
<1>1. PICK shape \in Shapes, opening \in Openings :
        closed' = [closed EXCEPT ![s] = Append(@, AsBar(shape, Len(@) + 1))]
  BY DEF MarketCloses, CloseBar
<1>2. closed[s] \in Seq(Bar) /\ closed \in [Symbols -> Seq(Bar)] /\ shape \in Shape
  BY MarketAssumption DEF ReplayInv, TypeOK
<1> DEFINE bar == AsBar(shape, Len(closed[s]) + 1)
<1>3. bar \in Bar /\ bar.ts = Len(closed[s]) + 1
  <2>1. Len(closed[s]) + 1 \in Int
    BY <1>2
  <2> QED
    BY <1>2, <2>1, BarType DEF AsBar
<1> HIDE DEF bar
<1>4. closed'[s] = Append(closed[s], bar)
  BY <1>1, <1>2 DEF bar
<1>5. Len(closed'[s]) = Len(closed[s]) + 1 /\ closed'[s][Len(closed[s]) + 1] = bar
  BY <1>2, <1>3, <1>4
<1>6. closed' = [closed EXCEPT ![s] = Append(@, bar)]
  BY <1>1, <1>2 DEF bar
<1>7. Len(closed[s]) < MaxBars /\ rows' = rows
  BY DEF MarketCloses, CloseBar
<1>8. Entries' = Entries
  BY <1>7 DEF Entries
<1> QED
  BY <1>3, <1>5, <1>6, <1>7, <1>8 DEF Ledger!Advance

\* A new row is a new entry.
LEMMA RefineRecord ==
    ASSUME ReplayInv, NEW req, NEW ts, ~IsDuplicate(NewRow(req, ts)),
           rows' = Append(rows, NewRow(req, ts)), closed' = closed
    PROVE  Ledger!Log
<1> DEFINE row == NewRow(req, ts)
           entry == EntryOf(row)
<1>0. TypeOK /\ Len(rows) \in Nat
  BY DEF ReplayInv, TypeOK
<1>1. /\ Len(Entries) = Len(rows) /\ DOMAIN Entries = 1..Len(rows)
      /\ \A i \in 1..Len(rows) : Entries[i] = EntryOf(rows[i])
  BY <1>0, EntriesAre
<1>2. /\ Len(rows') = Len(rows) + 1
      /\ \A i \in 1..Len(rows) : rows'[i] = rows[i]
      /\ rows'[Len(rows) + 1] = row
  BY <1>0 DEF TypeOK
<1>3. Entries' = [i \in 1..(Len(rows) + 1) |-> IF i <= Len(rows) THEN Entries[i] ELSE entry]
  <2>1. Entries' = [i \in 1..(Len(rows) + 1) |-> EntryOf(rows'[i])]
    BY <1>2 DEF Entries
  <2>2. ASSUME NEW i \in 1..(Len(rows) + 1)
        PROVE  EntryOf(rows'[i]) = IF i <= Len(rows) THEN Entries[i] ELSE entry
    <3>1. CASE i <= Len(rows)
      BY <1>0, <1>1, <1>2, <3>1
    <3>2. CASE ~(i <= Len(rows))
      <4>1. i = Len(rows) + 1
        BY <1>0, <3>2
      <4> QED
        BY <1>2, <3>2, <4>1
    <3> QED
      BY <3>1, <3>2
  <2> QED
    BY <2>1, <2>2
<1>4. Entries' = Append(Entries, entry)
  <2>1. Entries = [i \in 1..Len(rows) |-> EntryOf(rows[i])]
    BY DEF Entries
  <2>2. Append(Entries, entry)
          = [i \in 1..(Len(Entries) + 1) |-> IF i = Len(Entries) + 1 THEN entry ELSE Entries[i]]
    BY <1>0, <1>1, <2>1
  <2>3. \A i \in 1..(Len(rows) + 1) : i = Len(rows) + 1 <=> ~(i <= Len(rows))
    BY <1>0
  <2> QED
    BY <1>1, <1>3, <2>2, <2>3
<1>5. Len(Entries') = Len(Entries) + 1 /\ Entries'[Len(Entries) + 1] = entry
  <2>1. Len(Entries') = Len(Entries) + 1
    BY <1>0, <1>1, <1>3
  <2> QED
    BY <1>0, <1>1, <1>3, <2>1
<1>6. entry.state = "open" /\ entry.verdict = None
  BY DEF EntryOf, NewRow, Open, OpenStates
<1>7. ASSUME NEW i \in 1..Len(Entries) PROVE ~Ledger!SameOrigin(Entries[i], entry)
  <2>1. i \in 1..Len(rows) /\ Entries[i] = EntryOf(rows[i])
    BY <1>1
  <2>2. ~SameOrigin(rows[i], row)
    BY <2>1 DEF IsDuplicate
  <2> QED
    BY <2>1, <2>2 DEF Ledger!SameOrigin, SameOrigin, EntryOf
<1> HIDE DEF entry
<1> QED
  BY <1>4, <1>5, <1>6, <1>7 DEF Ledger!Log

\* A row written by a pass or by hand: one entry is settled or withdrawn.
LEMMA RefineWrite ==
    ASSUME ReplayInv, NEW i \in 1..Len(rows), NEW status \in Status,
           NEW outcome \in Outcome \cup {None}, Written(i, status, outcome), closed' = closed,
           \/ outcome = None
           \/ /\ status \in TerminalStates
              /\ outcome = ResolvePrediction(rows[i], closed[rows[i].symbol], MaxHold)
    PROVE  Ledger!Settle(i) \/ Ledger!Withdraw(i) \/ UNCHANGED <<Entries, closed>>
<1>0. TypeOK /\ OutcomeIsTerminal
  BY DEF ReplayInv
<1>1. /\ Len(Entries) = Len(rows) /\ DOMAIN Entries = 1..Len(rows)
      /\ \A j \in 1..Len(rows) : Entries[j] = EntryOf(rows[j])
  BY <1>0, EntriesAre
<1>2. /\ Len(rows') = Len(rows)
      /\ \A j \in 1..Len(rows) : j # i => rows'[j] = rows[j]
      /\ rows'[i].status = status /\ rows'[i].outcome = outcome
  BY <1>0, WrittenRows
<1>3. SameCapture(rows'[i], rows[i])
  <2>1. /\ rows'[i] = [rows[i] EXCEPT !.status = status, !.outcome = outcome]
        /\ rows[i] \in Row
    BY <1>0, WrittenRows
  <2> QED
    BY <2>1 DEF SameCapture, Row
<1>4. Entries' = [Entries EXCEPT ![i] = EntryOf(rows'[i])]
  <2>1. Entries' = [j \in 1..Len(rows) |-> EntryOf(rows'[j])]
    BY <1>2 DEF Entries
  <2>2. Entries = [j \in 1..Len(rows) |-> EntryOf(rows[j])]
    BY DEF Entries
  <2> QED
    BY <1>2, <2>1, <2>2
<1>5. rows[i] \in Row /\ ~Terminal(rows[i])
  BY <1>0 DEF Written, Updatable, TypeOK
<1>6. Open(rows[i]) /\ rows[i].outcome = None
  BY <1>0, <1>5 DEF Open, Terminal, OutcomeIsTerminal, Row, Status
<1>7. Entries[i] = EntryOf(rows[i]) /\ Entries[i].state = "open" /\ Entries[i].verdict = None
  BY <1>1, <1>6 DEF EntryOf
<1>8. CASE outcome # None
  <2>1. Terminal(rows'[i]) /\ ~Open(rows'[i])
    BY <1>2, <1>8, OpenIsNotTerminal DEF Terminal
  <2>2. EntryOf(rows'[i]) = [Entries[i] EXCEPT !.state = "settled", !.verdict = outcome]
    <3> DEFINE Entry(state, verdict) ==
                 [symbol |-> rows[i].symbol, created |-> rows[i].created,
                  source |-> rows[i].source, direction |-> rows[i].direction,
                  entry |-> rows[i].entry, stop |-> rows[i].stop,
                  target |-> rows[i].target, state |-> state, verdict |-> verdict]
    <3>1. EntryOf(rows'[i]) = Entry("settled", outcome)
      BY <1>2, <1>3, <1>8, <2>1 DEF EntryOf, SameCapture
    <3>2. Entries[i] = Entry("open", None)
      BY <1>6, <1>7 DEF EntryOf
    <3>3. Entry("settled", None) = [Entries[i] EXCEPT !.state = "settled"]
      BY <3>2
    <3>4. EntryOf(rows'[i]) = [Entry("settled", None) EXCEPT !.verdict = outcome]
      BY <3>1
    <3> HIDE DEF Entry
    <3> QED
      BY <3>3, <3>4
  <2>3. rows[i].symbol \in Symbols /\ Entries[i].symbol = rows[i].symbol
    BY <1>5, <1>7 DEF Row, EntryOf
  <2>4. closed[rows[i].symbol] \in Seq(Bar)
    BY <1>0, <2>3 DEF TypeOK
  <2>5. Replay(Entries[i], closed[Entries[i].symbol]) = outcome
    BY <1>7, <1>8, <2>3, <2>4, EntryReplay
  <2>6. Entries' = [Entries EXCEPT ![i].state = "settled", ![i].verdict = outcome]
    BY <1>1, <1>4, <2>2
  <2> QED
    BY <1>7, <1>8, <2>5, <2>6 DEF Ledger!Settle
<1>9. CASE outcome = None /\ status \in OpenStates
  <2>1. Open(rows'[i])
    BY <1>2, <1>9 DEF Open
  <2>2. EntryOf(rows'[i]) = EntryOf(rows[i])
    BY <1>2, <1>3, <1>6, <1>9, <2>1 DEF EntryOf, SameCapture
  <2>3. Entries' = Entries
    BY <1>1, <1>4, <1>7, <2>2 DEF Entries
  <2> QED
    BY <2>3
<1>10. CASE outcome = None /\ status \notin OpenStates
  <2>1. ~Open(rows'[i])
    BY <1>2, <1>10 DEF Open
  <2>2. EntryOf(rows'[i]) = [Entries[i] EXCEPT !.state = "withdrawn"]
    BY <1>2, <1>3, <1>6, <1>7, <1>10, <2>1 DEF EntryOf, SameCapture
  <2>3. Entries' = [Entries EXCEPT ![i].state = "withdrawn"]
    BY <1>1, <1>4, <2>2
  <2> QED
    BY <1>7, <2>3 DEF Ledger!Withdraw
<1> QED
  BY <1>8, <1>9, <1>10

\* Every step of the system is a step of the ledger, or invisible to it.
LEMMA RefineStep ==
    ASSUME ReplayInv, ReplayInv', FaithfulFeed, [Next]_vars
    PROVE  [Ledger!LedgerNext]_(Ledger!ledgerVars)
<1>0. TypeOK /\ SnapshotIsPrefix /\ Len(Entries) = Len(rows)
  BY EntriesAre DEF ReplayInv
<1>1. ASSUME NEW s \in Symbols, MarketCloses(s)
      PROVE  Ledger!LedgerNext
  BY <1>1, RefineMarket DEF Ledger!LedgerNext
<1>2. CASE closed' = closed /\ rows' = rows
  <2>1. Entries' = Entries
    BY <1>2 DEF Entries
  <2> QED
    BY <1>2, <2>1 DEF Ledger!ledgerVars
<1>3. ASSUME NEW req, NEW ts, ~IsDuplicate(NewRow(req, ts)),
             rows' = Append(rows, NewRow(req, ts)), closed' = closed
      PROVE  Ledger!LedgerNext
  BY <1>3, RefineRecord DEF Ledger!LedgerNext
<1>4. ASSUME NEW i \in 1..Len(rows),
             Ledger!Settle(i) \/ Ledger!Withdraw(i) \/ UNCHANGED <<Entries, closed>>
      PROVE  [Ledger!LedgerNext]_(Ledger!ledgerVars)
  BY <1>0, <1>4 DEF Ledger!LedgerNext, Ledger!ledgerVars
<1>5. ASSUME NEW i \in 1..Len(rows), NEW status \in Status,
             Written(i, status, rows[i].outcome), closed' = closed
      PROVE  [Ledger!LedgerNext]_(Ledger!ledgerVars)
  <2>1. ~Terminal(rows[i])
    BY <1>5 DEF Written, Updatable
  <2>2. rows[i].outcome = None
    BY <2>1 DEF ReplayInv, OutcomeIsTerminal
  <2>3. Written(i, status, None)
    BY <1>5, <2>2
  <2> QED
    BY <1>4, <1>5, <2>3, RefineWrite
<1>6. ASSUME NEW w \in Workers, NEW i \in pass[w].todo, NEW outcome,
             outcome = ResolvePrediction(rows[i], pass[w].candles, MaxHold),
             Settle(w, i), outcome \in Outcome,
             Written(i, outcome.status, outcome), closed' = closed
      PROVE  [Ledger!LedgerNext]_(Ledger!ledgerVars)
  <2>1. pass[w] \in PassType
    BY <1>0 DEF TypeOK, PassType
  <2>2. /\ i \in 1..Len(rows) /\ pass[w].candles \in Seq(Bar)
        /\ outcome.status \in Status /\ outcome.status \in TerminalStates
        /\ outcome \in Outcome \cup {None} /\ outcome # None
    BY <1>6, <2>1, NoneAssumption DEF PassType, Outcome, Status, TerminalStates
  <2>3. pass[w].phase = "write" /\ Oldest(w, i)
    BY <1>6 DEF Settle
  <2>4. Prefix(pass[w].candles, closed[rows[i].symbol])
    BY <1>0, <1>6, <2>3 DEF SnapshotIsPrefix
  <2>5. closed[rows[i].symbol] \in Seq(Bar)
    <3>1. rows[i] \in Row
      BY <1>0, <2>2 DEF TypeOK
    <3>2. rows[i].symbol \in Symbols
      BY <3>1 DEF Row
    <3> QED
      BY <1>0, <3>2 DEF TypeOK
  <2>6. outcome = ResolvePrediction(rows[i], closed[rows[i].symbol], MaxHold)
    BY <1>6, <2>2, <2>4, <2>5, DecisionOnPrefixStands
  <2>7. Ledger!Settle(i) \/ Ledger!Withdraw(i) \/ UNCHANGED <<Entries, closed>>
    BY <1>6, <2>2, <2>6, RefineWrite
  <2> QED
    BY <1>4, <2>2, <2>7
<1>7. CASE \E w \in Workers : \E i \in pass[w].todo :
              LET outcome == ResolvePrediction(rows[i], pass[w].candles, MaxHold)
              IN  /\ Settle(w, i)
                  /\ outcome \in Outcome
                  /\ Written(i, outcome.status, outcome)
                  /\ closed' = closed
  BY <1>6, <1>7
<1>8. rows' = rows /\ ~(\E s \in Symbols : MarketCloses(s)) => closed' = closed
  BY HistoryStep
<1> QED
  BY <1>0, <1>1, <1>2, <1>3, <1>5, <1>7, <1>8, TableStep

\* Passes, snapshots of candles, racing workers, failures, restarts and readers
\* implement the ledger: entries are logged once per origin, and an open entry
\* is settled at most once, with the verdict of the whole history.
THEOREM LedgerImplemented == FaithfulFeed => (Spec => ImplementsLedger)
<1> SUFFICES ASSUME FaithfulFeed PROVE Spec => ImplementsLedger
  OBVIOUS
<1>1. Init => Ledger!LedgerInit
  <2> SUFFICES ASSUME Init PROVE Ledger!LedgerInit
    OBVIOUS
  <2>1. Entries = <<>>
    BY DEF Init, Entries
  <2> QED
    BY <2>1 DEF Init, MarketInit, Ledger!LedgerInit
<1>2. ReplayInv /\ ReplayInv' /\ [Next]_vars => [Ledger!LedgerNext]_(Ledger!ledgerVars)
  BY RefineStep
<1> QED
  BY <1>1, <1>2, ReplayInvariant, PTL DEF Spec, ImplementsLedger, Ledger!LedgerSpec

-----------------------------------------------------------------------------
(* The monitor *)

OneController == \E c : Controllers = {c}

\* Whom a stop awaits is the task of the monitor.
MonitorInv ==
    /\ MonitorTypeOK
    /\ RunningWhileActive
    /\ \A c \in Controllers : stopper[c] # 0 => stopper[c] = task

LEMMA LoopsKeep ==
    ASSUME MonitorInv, NEW t \in Tasks, LoopStep(t) \/ ThreadStep(t)
    PROVE  MonitorInv'
<1>1. task' = task /\ stopper' = stopper
  BY DEF LoopStep, ThreadStep, RunPass, EndPass, Cancel, ThreadEnds
<1>2. PICK row \in Loop : /\ loops' = [loops EXCEPT ![t] = row]
                          /\ row.phase \in {"ready", "passing", "sleeping"} => Live(t)
  <2>1. loops[t] \in Loop
    BY DEF MonitorInv, MonitorTypeOK
  <2> QED
    BY <2>1 DEF LoopStep, ThreadStep, RunPass, EndPass, Cancel, ThreadEnds, AfterPass,
                Live, Loop, MonitorInv, MonitorTypeOK
<1>3. loops' \in [Tasks -> Loop] /\ \A u \in Tasks : Live(u)' => Live(u)
  BY <1>2 DEF MonitorInv, MonitorTypeOK, Live
<1> QED
  BY <1>1, <1>3 DEF MonitorInv, MonitorTypeOK, RunningWhileActive

LEMMA ControllerKeeps ==
    ASSUME OneController, MonitorInv, NEW c \in Controllers, Start(c) \/ Stop(c) \/ Stopped(c)
    PROVE  MonitorInv'
<1>0. \A d \in Controllers : d = c
  BY DEF OneController
<1>1. Tasks \subseteq Nat /\ 0 \notin Tasks /\ 0 \in 0..MaxTasks /\ Tasks \subseteq 0..MaxTasks
  BY MonitorAssumption DEF Tasks
<1>2. CASE Start(c)
  <2>1. PICK t \in Tasks : /\ task' = t /\ stopper' = stopper
                           /\ loops' = [loops EXCEPT ![t] = [Finished EXCEPT !.phase = "ready"]]
    BY <1>2 DEF Start
  <2>2. [Finished EXCEPT !.phase = "ready"] \in Loop
    BY DEF Finished, Loop
  <2>3. \A u \in Tasks : ~Live(u)
    BY <1>1, <1>2 DEF Start, Running, MonitorInv, RunningWhileActive
  <2>4. \A d \in Controllers : stopper[d] = 0
    BY <1>0, <1>2 DEF Start
  <2>5. MonitorTypeOK'
    BY <1>1, <2>1, <2>2 DEF MonitorInv, MonitorTypeOK
  <2>6. RunningWhileActive'
    BY <2>1, <2>3 DEF RunningWhileActive, Live, MonitorInv, MonitorTypeOK
  <2> QED
    BY <2>1, <2>4, <2>5, <2>6 DEF MonitorInv
<1>3. CASE Stop(c)
  <2>1. task \in Tasks
    BY <1>3 DEF Stop, MonitorInv, MonitorTypeOK, Tasks
  <2>2. CASE Live(task)
    <3>1. /\ loops' = [loops EXCEPT ![task].cancelled = TRUE]
          /\ stopper' = [stopper EXCEPT ![c] = task] /\ task' = task
      BY <1>3, <2>2 DEF Stop
    <3>2. MonitorTypeOK'
      BY <1>1, <2>1, <3>1 DEF MonitorInv, MonitorTypeOK, Loop
    <3>3. RunningWhileActive'
      BY <3>1 DEF MonitorInv, MonitorTypeOK, RunningWhileActive, Live, Loop
    <3> QED
      BY <3>1, <3>2, <3>3 DEF MonitorInv, MonitorTypeOK
  <2>3. CASE ~Live(task)
    <3>1. task' = 0 /\ UNCHANGED <<loops, stopper>>
      BY <1>3, <2>3 DEF Stop
    <3>2. \A u \in Tasks : ~Live(u)
      BY <2>3 DEF MonitorInv, RunningWhileActive
    <3>3. \A d \in Controllers : stopper[d] = 0
      BY <1>0, <1>3 DEF Stop
    <3> QED
      BY <1>1, <3>1, <3>2, <3>3 DEF MonitorInv, MonitorTypeOK, RunningWhileActive, Live
  <2> QED
    BY <2>2, <2>3
<1>4. CASE Stopped(c)
  <2>1. stopper[c] = task /\ ~Live(task)
    BY <1>4 DEF Stopped, MonitorInv
  <2>2. \A u \in Tasks : ~Live(u)
    BY <2>1 DEF MonitorInv, RunningWhileActive
  <2>3. task' = 0 /\ stopper' = [stopper EXCEPT ![c] = 0] /\ loops' = loops
    BY <1>4 DEF Stopped
  <2>4. \A d \in Controllers : stopper'[d] = 0
    BY <1>0, <2>3 DEF MonitorInv, MonitorTypeOK
  <2> QED
    BY <1>1, <2>2, <2>3, <2>4 DEF MonitorInv, MonitorTypeOK, RunningWhileActive, Live
<1> QED
  BY <1>2, <1>3, <1>4

\* With one caller of start() and stop(), every loop that lives is the one
\* self._task points to, however many tasks there were and whatever threads of
\* theirs still run.
THEOREM RunningTellsTheTruth == OneController => (MonitorSpec => []RunningWhileActive)
<1>1. MonitorInit => MonitorInv
  BY MonitorAssumption
     DEF MonitorInit, MonitorInv, MonitorTypeOK, RunningWhileActive, Live, Finished, Loop
<1>2. OneController /\ MonitorInv /\ [MonitorNext]_monitorVars => MonitorInv'
  <2>1. OneController /\ MonitorInv /\ MonitorNext => MonitorInv'
    BY LoopsKeep, ControllerKeeps DEF MonitorNext
  <2>2. MonitorInv /\ UNCHANGED monitorVars => MonitorInv'
    BY DEF MonitorInv, MonitorTypeOK, RunningWhileActive, Live, monitorVars
  <2> QED
    BY <2>1, <2>2
<1>3. MonitorInv => RunningWhileActive
  BY DEF MonitorInv
<1> SUFFICES ASSUME OneController PROVE MonitorSpec => []RunningWhileActive
  OBVIOUS
<1>4. MonitorInv /\ [MonitorNext]_monitorVars => MonitorInv'
  BY <1>2
<1> QED
  BY <1>1, <1>3, <1>4, PTL DEF MonitorSpec

=============================================================================
