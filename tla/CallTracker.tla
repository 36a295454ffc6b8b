----------------------------- MODULE CallTracker -----------------------------
(***************************************************************************)
(* The You-vs-AI paper tracker: the calls table (CallStore in              *)
(* app/tracking/tracker.py) and the handlers of app/api/main.py on it.     *)
(*                                                                         *)
(* Handlers are coroutines of one event loop: a step runs from one await   *)
(* to the next, and the only awaits are the candle fetches.  A row's       *)
(* position follows created_at, because no handler awaits between stamping *)
(* a call and inserting it.                                                *)
(***************************************************************************)
EXTENDS Market, SequencesExt

CONSTANTS
    Listers,        \* requests of GET /calls that may be running
    Loggers,        \* requests of POST /calls/ai that may be running
    AutoLoop,       \* the background auto-log loop
    Taps,           \* bodies of POST /calls, without market and candle
    Picks,          \* plans ai_paper_trade may come up with
    Bands,          \* [entry, lower, upper] of a round
    Undo,           \* counts that DELETE /calls/recent is asked for
    Settings,       \* what POST /autolog asks for: a market, or None for off
    Clears,         \* does anybody call DELETE /calls?
    Crashes,        \* does the process die?
    ListWindow,     \* candles GET /calls asks for (1000 in the code)
    PickWindow,     \* candles a pick is made from (300 in the code)
    MaxCalls        \* bound: ids given out

VARIABLES
    calls,          \* the calls table, oldest row first
    made,           \* ids given out
    listing,        \* per lister, its snapshot and the markets to do
    logger,         \* per logger and for AutoLoop, the candle its pick is for
    autolog         \* the market of the auto-log, None when it is off

trackerVars == <<calls, made, listing, logger, autolog>>
vars == <<closed, forming, calls, made, listing, logger, autolog>>

-----------------------------------------------------------------------------
(* Data *)

Plan == [side : Side, entry : Int, stop : Int, tp1 : Int]

Score == [status : {"OPEN", "WIN", "LOSS"}, time : Int \cup {None},
          price : Int \cup {None}, gain : Int, risk : Int]

\* TrackedCall.  `round' is not a column: it tells the two bets of a round
\* from other calls (0: not a bet of a round).
Call == [id : Nat, round : Nat, market : Symbols, side : Side, entry : Int,
         stop : Int, tp1 : Int, clicked : Int, source : {"manual", "ai"},
         score : Score]

NewCall(id, round, market, plan, clicked, source) ==
    [id |-> id, round |-> round, market |-> market, side |-> plan.side,
     entry |-> plan.entry, stop |-> plan.stop, tp1 |-> plan.tp1,
     clicked |-> clicked, source |-> source, score |-> OpenScore]

Undecided(call) == call.score.status = "OPEN"

IdleListing == [phase |-> "idle", snapshot |-> <<>>, todo |-> {}]
IdleLogger == [phase |-> "idle", market |-> None, ts |-> 0]

ASSUME CallTrackerAssumption ==
    /\ AutoLoop \notin Loggers
    /\ None \notin Symbols
    /\ \A tap \in Taps : tap.plan \in Plan /\ tap.source \in {"manual", "ai"}
    /\ Picks \subseteq Plan
    /\ Bands \subseteq [entry : Int, lower : Int, upper : Int]
    /\ Undo \subseteq Nat \ {0}
    /\ Settings \subseteq Symbols \cup {None}
    /\ Clears \in BOOLEAN /\ Crashes \in BOOLEAN
    /\ ListWindow \in Nat \ {0} /\ PickWindow \in Nat \ {0}
    /\ MaxCalls \in Nat

-----------------------------------------------------------------------------
(* CallStore *)

\* Mutant of Deduped: no unique index.
NeverDeduped(table, call) == FALSE

\* idx_ai_once_per_candle
Deduped(table, call) ==
    /\ call.source = "ai"
    /\ \E i \in 1..Len(table) : /\ table[i].source = "ai"
                                /\ table[i].market = call.market
                                /\ table[i].clicked = call.clicked

\* add: an AI pick the index refuses is dropped without a word.
Added(table, call) == IF Deduped(table, call) THEN table ELSE Append(table, call)

\* Mutant of Saved: INSERT OR REPLACE instead of UPDATE.
Upserted(table, snapshot) ==
    [k \in 1..Len(table) |->
        IF \E i \in 1..Len(snapshot) : snapshot[i].id = table[k].id
        THEN [table[k] EXCEPT !.score = (CHOOSE row \in ToSet(snapshot) :
                                            row.id = table[k].id).score]
        ELSE table[k]]
    \o SelectSeq(snapshot, LAMBDA row : \A k \in 1..Len(table) : table[k].id # row.id)

\* save_all: one transaction of UPDATE ... WHERE id, for every row of the
\* snapshot, whatever the table holds by now.
Saved(table, snapshot) ==
    [k \in 1..Len(table) |->
        IF \E i \in 1..Len(snapshot) : snapshot[i].id = table[k].id
        THEN [table[k] EXCEPT !.score = (CHOOSE row \in ToSet(snapshot) :
                                            row.id = table[k].id).score]
        ELSE table[k]]

\* remove_last
Undone(table, n) == SubSeq(table, 1, Len(table) - n)

-----------------------------------------------------------------------------
(* POST /calls, POST /round, DELETE /calls, DELETE /calls/recent *)

RecordCall(m, tap, clicked) ==
    /\ made < MaxCalls
    /\ calls' = Added(calls, NewCall(made + 1, 0, m, tap.plan, clicked, tap.source))
    /\ made' = made + 1
    /\ UNCHANGED <<closed, forming, listing, logger, autolog>>

BandPlan(side, band) ==
    [side |-> side, entry |-> band.entry,
     stop |-> IF side = "BUY" THEN band.lower ELSE band.upper,
     tp1 |-> IF side = "BUY" THEN band.upper ELSE band.lower]

\* Mutant of Bet: the AI's bet is pinned to the newest candle.
BetOnNewest(id, round, m, side, band, clicked, source) ==
    NewCall(id, round, m, BandPlan(side, band),
            IF source = "ai" THEN FormingTs(m) ELSE clicked, source)

Bet(id, round, m, side, band, clicked, source) ==
    NewCall(id, round, m, BandPlan(side, band), clicked, source)

HumanBet(m, human, band, clicked) ==
    Added(calls, Bet(made + 1, made + 1, m, human, band, clicked, "manual"))

\* head_to_head, from its fetch on.  What it awaited only yields the band; the
\* candle is the client's, any up to the one in progress, so nothing else of
\* the request's start matters.  Both inserts run without an await.
PlaceRound(m, human, ai, band, clicked) ==
    /\ made + 1 < MaxCalls
    /\ calls' = Added(HumanBet(m, human, band, clicked),
                      Bet(made + 2, made + 1, m, ai, band, clicked, "ai"))
    /\ made' = made + 2
    /\ UNCHANGED <<closed, forming, listing, logger, autolog>>

Clear ==
    /\ Clears
    /\ calls # <<>>
    /\ calls' = <<>>
    /\ UNCHANGED <<closed, forming, made, listing, logger, autolog>>

RemoveLast(n) ==
    /\ calls # <<>>
    /\ calls' = Undone(calls, n)
    /\ UNCHANGED <<closed, forming, made, listing, logger, autolog>>

-----------------------------------------------------------------------------
(* GET /calls *)

\* all(): the snapshot, grouped by market.
BeginList(l) ==
    /\ listing[l].phase = "idle"
    /\ calls # <<>>
    /\ listing' = [listing EXCEPT ![l] =
                     [phase |-> "score", snapshot |-> calls,
                      todo |-> {calls[i].market : i \in 1..Len(calls)}]]
    /\ UNCHANGED <<closed, forming, calls, made, logger, autolog>>

\* Markets are visited in the order of their oldest call.
NextMarket(l, m) ==
    /\ m \in listing[l].todo
    /\ \E i \in 1..Len(listing[l].snapshot) :
          /\ listing[l].snapshot[i].market = m
          /\ \A j \in 1..(i - 1) : listing[l].snapshot[j].market \notin listing[l].todo

\* Mutant of Rescored: only the newest candle is looked at.
OnNewestCandle(call, m, candles) ==
    IF call.market = m /\ Undecided(call)
    THEN [call EXCEPT !.score = ResolveCall(call, LastOf(candles, 1))]
    ELSE call

\* The OPEN calls of the market's group are scored, the others kept.
Rescored(call, m, candles) ==
    IF call.market = m /\ Undecided(call)
    THEN [call EXCEPT !.score = ResolveCall(call, candles)]
    ELSE call

\* The market's candles arrive: its part of the snapshot is scored.  (Nobody
\* else sees the snapshot, so the scoring may be taken together with the fetch
\* that the provider answered now.)
ScoreMarket(l, m) ==
    /\ listing[l].phase = "score"
    /\ NextMarket(l, m)
    /\ listing' = [listing EXCEPT
         ![l].snapshot = [i \in 1..Len(@) |-> Rescored(@[i], m, Feed(m, ListWindow))],
         ![l].todo = @ \ {m}]
    /\ UNCHANGED <<closed, forming, calls, made, logger, autolog>>

\* The fetch raises: the market's calls are left as they are.
SkipMarket(l, m) ==
    /\ listing[l].phase = "score"
    /\ NextMarket(l, m)
    /\ listing' = [listing EXCEPT ![l].todo = @ \ {m}]
    /\ UNCHANGED <<closed, forming, calls, made, logger, autolog>>

SaveAll(l) ==
    /\ listing[l].phase = "score"
    /\ listing[l].todo = {}
    /\ calls' = Saved(calls, listing[l].snapshot)
    /\ listing' = [listing EXCEPT ![l] = IdleListing]
    /\ UNCHANGED <<closed, forming, made, logger, autolog>>

-----------------------------------------------------------------------------
(* POST /calls/ai, the auto-log loop and POST /autolog *)

\* fetch_history returns for logger g: the pick will be the newest candle's.
FetchForPick(g, m) ==
    /\ logger[g].phase = "idle"
    /\ Feed(m, PickWindow) # <<>>
    /\ logger' = [logger EXCEPT ![g] = [phase |-> "pick", market |-> m,
                                        ts |-> Last(Feed(m, PickWindow)).ts]]
    /\ UNCHANGED <<closed, forming, calls, made, listing, autolog>>

AskForPick(g, m) == g \in Loggers /\ FetchForPick(g, m)

\* The loop reads its configuration before the fetch.
AutoFetch == /\ autolog # None
             /\ FetchForPick(AutoLoop, autolog)

\* _record_ai_call
LogPick(g, plan) ==
    /\ logger[g].phase = "pick"
    /\ made < MaxCalls
    /\ calls' = Added(calls, NewCall(made + 1, 0, logger[g].market, plan,
                                     logger[g].ts, "ai"))
    /\ made' = made + 1
    /\ logger' = [logger EXCEPT ![g] = IdleLogger]
    /\ UNCHANGED <<closed, forming, listing, autolog>>

\* ai_paper_trade has no plan, or raises.
NoPick(g) ==
    /\ logger[g].phase = "pick"
    /\ logger' = [logger EXCEPT ![g] = IdleLogger]
    /\ UNCHANGED <<closed, forming, calls, made, listing, autolog>>

SetAutolog(setting) ==
    /\ setting # autolog
    /\ autolog' = setting
    /\ UNCHANGED <<closed, forming, calls, made, listing, logger>>

-----------------------------------------------------------------------------
(* The process *)

IdleProcess ==
    /\ listing' = [l \in Listers |-> IdleListing]
    /\ logger' = [g \in Loggers \cup {AutoLoop} |-> IdleLogger]
    /\ autolog' = None

\* The process dies and starts again, with the auto-log off.
Restart ==
    /\ Crashes
    /\ IdleProcess
    /\ UNCHANGED <<closed, forming, calls, made>>

\* It dies between the two inserts of a round.
RoundCutShort(m, human, band, clicked) ==
    /\ Crashes
    /\ made + 1 < MaxCalls
    /\ calls' = HumanBet(m, human, band, clicked)
    /\ made' = made + 2
    /\ IdleProcess
    /\ UNCHANGED <<closed, forming>>

Init ==
    /\ MarketInit
    /\ calls = <<>>
    /\ made = 0
    /\ listing = [l \in Listers |-> IdleListing]
    /\ logger = [g \in Loggers \cup {AutoLoop} |-> IdleLogger]
    /\ autolog = None

MarketStep(m) == (Tick(m) \/ CloseBar(m)) /\ UNCHANGED trackerVars

ClientStep(m) ==
    \E clicked \in 0..FormingTs(m) :
        \/ \E tap \in Taps : RecordCall(m, tap, clicked)
        \/ \E human \in Side, band \in Bands :
              \/ \E ai \in Side : PlaceRound(m, human, ai, band, clicked)
              \/ RoundCutShort(m, human, band, clicked)

ListStep(l) ==
    \/ BeginList(l)
    \/ \E m \in Symbols : ScoreMarket(l, m) \/ SkipMarket(l, m)
    \/ SaveAll(l)

LogStep(g) ==
    \/ \E m \in Symbols : AskForPick(g, m)
    \/ \E plan \in Picks : LogPick(g, plan)
    \/ NoPick(g)

Next ==
    \/ \E m \in Symbols : MarketStep(m) \/ ClientStep(m)
    \/ Clear
    \/ \E n \in Undo : RemoveLast(n)
    \/ \E l \in Listers : ListStep(l)
    \/ \E g \in Loggers \cup {AutoLoop} : LogStep(g)
    \/ AutoFetch
    \/ \E setting \in Settings : SetAutolog(setting)
    \/ Restart

Spec == Init /\ [][Next]_vars

-----------------------------------------------------------------------------
(* Properties *)

TypeOK ==
    /\ closed \in [Symbols -> Seq(Bar)]
    /\ forming \in [Symbols -> Shape]
    /\ calls \in Seq(Call)
    /\ made \in Nat
    /\ listing \in [Listers -> [phase : {"idle", "score"}, snapshot : Seq(Call),
                                todo : SUBSET Symbols]]
    /\ logger \in [Loggers \cup {AutoLoop} -> [phase : {"idle", "pick"},
                                               market : Symbols \cup {None}, ts : Int]]
    /\ autolog \in Symbols \cup {None}

\* However many loggers, rounds and posted calls hit one candle, after their
\* fetches interleaved in any way, the market has one AI pick for it
\* (tracker.py:117-121).
OneAiPickPerCandle ==
    \A i, j \in 1..Len(calls) :
        /\ calls[i].source = "ai" /\ calls[j].source = "ai"
        /\ calls[i].market = calls[j].market /\ calls[i].clicked = calls[j].clicked
        => i = j

\* A listing saves a snapshot that is older than the table: what was cleared
\* or undone meanwhile stays gone, and nobody's place in the table moves.
NothingComesBack ==
    [][\A k \in 1..Len(calls') :
          \/ calls'[k].id > made
          \/ \E j \in 1..Len(calls) :
                [calls'[k] EXCEPT !.score = calls[j].score] = calls[j] /\ k <= j]_vars

\* The two bets of a round that are in the table are decided by the same bar
\* or both open, whichever listings overlapped, from whatever windows they
\* scored ("decides BOTH bets at the same instant", main.py:602-604).
RoundDecidedTogether ==
    \A i, j \in 1..Len(calls) :
        calls[i].round # 0 /\ calls[i].round = calls[j].round
        => calls[i].score.time = calls[j].score.time

\* The candles that GET /calls asks for reach back beyond any call it scores.
FullWindow == ListWindow > MaxBars

\* A call is decided at the first bar that touched one of its levels, whichever
\* of the overlapping listings wrote the score and however old its candles were
\* by then; the one thing the bar's completion may still change is that it spans
\* both levels, so that the WIN would now be a LOSS.  (Under FullWindow.)
DecidedAtFirstTouch ==
    \A i \in 1..Len(calls) :
        ~Undecided(calls[i]) =>
            LET now == ResolveCall(calls[i], Feed(calls[i].market, MaxBars + 1))
            IN  /\ now.time = calls[i].score.time
                /\ \/ now = calls[i].score
                   \/ calls[i].score.status = "WIN" /\ now.status = "LOSS"

=============================================================================
