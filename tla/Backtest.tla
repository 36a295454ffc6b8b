------------------------------ MODULE Backtest ------------------------------
(***************************************************************************)
(* The training labels (app/ai/dataset.py, app/ai/outcome_model.py) and    *)
(* the two backtests (app/backtest/engine.py, outcome_backtest.py): four   *)
(* more walks along the bars after a decision, beside the resolver and the *)
(* tracker.  The signals a backtest replays are those of the analysis      *)
(* service.  Fees, slippage and the equity curve are arithmetic on the     *)
(* trades and are left out.                                                *)
(***************************************************************************)
EXTENDS Signals, SequencesExt

CONSTANTS
    Warmup,         \* bars before the first decision
    Window          \* bars of context a decision sees, without the last

ASSUME BacktestAssumption ==
    Warmup \in Nat /\ Window \in Nat /\ None \notin {"UP", "DOWN", "NEUTRAL"}

\* The first of the bars that satisfy a condition, None if no bar does.
FirstBar(hits) == IF hits = {} THEN None ELSE Min(hits)

-----------------------------------------------------------------------------
(* Labels of bar t, which read the bars t+1 .. t+horizon.  A bar with less *)
(* future than that has none.                                              *)

Labelled(bars, t, horizon) == t \in 1..(Len(bars) - horizon)

\* make_labels, direction: which of two barriers is touched first; both in one
\* bar, neither in time, or no barrier at all is neutral.
DirectionLabel(bars, t, horizon, barrier) ==
    LET Rises(j) == bars[j].high >= bars[t].close + barrier
        Falls(j) == bars[j].low <= bars[t].close - barrier
        hit == FirstBar({j \in (t + 1)..(t + horizon) : Rises(j) \/ Falls(j)})
    IN  CASE ~Labelled(bars, t, horizon) -> None
          [] Labelled(bars, t, horizon) /\ (barrier <= 0 \/ hit = None) -> "NEUTRAL"
          [] OTHER -> IF Rises(hit) /\ Falls(hit) THEN "NEUTRAL"
                      ELSE IF Rises(hit) THEN "UP" ELSE "DOWN"

\* outcome_labels: the same-candle policy is "adverse".
OutcomeLabel(bars, t, horizon, side, entry, stop, target) ==
    LET Stops(j) == IF side = "BUY" THEN bars[j].low <= stop ELSE bars[j].high >= stop
        Reaches(j) == IF side = "BUY" THEN bars[j].high >= target ELSE bars[j].low <= target
        hit == FirstBar({j \in (t + 1)..(t + horizon) : Stops(j) \/ Reaches(j)})
    IN  CASE ~Labelled(bars, t, horizon) \/ side \notin Side -> None
          [] Labelled(bars, t, horizon) /\ side \in Side /\ hit = None -> "NO_MOVE"
          [] OTHER -> IF Stops(hit) THEN "STOP_FIRST" ELSE "TARGET_FIRST"

-----------------------------------------------------------------------------
(* Backtester *)

\* Mutant of LastHeld: the entry bar counts as one of the bars held.
HeldFromEntry(bars, i, maxHold) == Min2(i + maxHold - 1, Len(bars))

\* The last bar a trade opened at bar i may be held for.
LastHeld(bars, i, maxHold) == Min2(i + maxHold, Len(bars))

\* _resolve_trade: the bar that ends a trade, the price and the outcome.
ResolveTrade(bars, i, side, stop, target, maxHold) ==
    LET last == LastHeld(bars, i, maxHold)
        Stops(j) == IF side = "BUY" THEN bars[j].low <= stop ELSE bars[j].high >= stop
        Reaches(j) == IF side = "BUY" THEN bars[j].high >= target ELSE bars[j].low <= target
        hit == FirstBar({j \in (i + 1)..last : Stops(j) \/ Reaches(j)})
    IN  CASE hit = None -> [exit |-> last, price |-> bars[last].close, outcome |-> "timeout"]
          [] hit # None /\ Stops(hit) -> [exit |-> hit, price |-> stop, outcome |-> "loss"]
          [] OTHER -> [exit |-> hit, price |-> target, outcome |-> "win"]

\* Mutant of Context: the frame a decision sees is not cut at its bar.
WholeFrame(bars, i) == SubSeq(bars, Max2(1, i - Window), Len(bars))

\* What the service is shown at bar i.
Context(bars, i) == SubSeq(bars, Max2(1, i - Window), i)

\* The trade that a signal at bar i opens.
TradeOf(bars, i, signal, maxHold) ==
    LET end == ResolveTrade(bars, i, signal.decision, signal.plan.stop, signal.plan.target, maxHold)
    IN  [entry |-> i, side |-> signal.decision,
         exit |-> end.exit, price |-> end.price, outcome |-> end.outcome]

\* The trades of a history's signals, each as if it were the only one, by their
\* bar.  A frame too short to analyse offers none, and neither does a WAIT.
Offers(bars, reading, maxHold) ==
    LET SignalAt(i) == Analyze(Context(bars, i), reading)
        Decisive == {i \in (Warmup + 1)..(Len(bars) - 1) : SignalAt(i).decision # "WAIT"}
    IN  [i \in Decisive |-> TradeOf(bars, i, SignalAt(i), maxHold)]

\* One position at a time: bar i offers nothing, falls into a trade that is open
\* until its exit, or opens one.
TakeStep(last, offers, i) ==
    IF i \notin DOMAIN offers \/ i <= last.until THEN last
    ELSE [until |-> offers[i].exit, taken |-> Append(last.taken, offers[i])]

BookWalk(offers, n) ==
    LET walk[i \in 0..n] ==
          IF i = 0 THEN [until |-> 0, taken |-> <<>>] ELSE TakeStep(walk[i - 1], offers, i)
    IN  walk

\* Backtester.run: the trades.
RunBacktest(bars, reading, maxHold) ==
    BookWalk(Offers(bars, reading, maxHold), Len(bars))[Len(bars)].taken

\* _simulate: of the candidate entries among n bars, in order, those taken when a
\* position blocks the next `horizon' bars.
Simulate(entries, n, horizon) ==
    BookWalk([bar \in entries |-> [entry |-> bar, exit |-> bar + horizon]], n)[n].taken

=============================================================================
