------------------------------ MODULE Resolver ------------------------------
(***************************************************************************)
(* The program's two resolvers: scoring one open prediction against later  *)
(* candles (app/forward_testing/resolver.py), and scoring a tracked call   *)
(* (resolve_call in app/tracking/tracker.py), the older of the two.        *)
(*                                                                         *)
(* The code walks the candles in order and returns at the first one that   *)
(* touches the stop, touches the target, or is the max_hold_bars-th bar    *)
(* held; here the answer is the verdict at the first index that decides.   *)
(* Prices are integers: only comparisons and differences of prices matter. *)
(* A realised R-multiple is the pair (gain, risk) instead of the rounded   *)
(* quotient; risk = 0 stands for the 1e-9 the code divides by then.        *)
(***************************************************************************)
EXTENDS Integers, Sequences, FiniteSets

CONSTANT None        \* Python's None: a level the plan lacks, no outcome yet

Side == {"BUY", "SELL"}
Direction == Side \cup {"WAIT"}
Level == Int \cup {None}
Bar == [ts : Int, low : Int, high : Int, close : Int]

\* ResolutionOutcome
Outcome == [status : {"TARGET_HIT", "STOP_HIT", "EXPIRED"},
            price : Int, gain : Int, risk : Int, holding : Int]

ASSUME NoneAssumption == None \notin Int /\ None \notin Outcome

-----------------------------------------------------------------------------

Abs(x) == IF x >= 0 THEN x ELSE -x

\* A trade direction and both barriers: what the resolver insists on.
Tradeable(p) == p.direction \in Side
Resolvable(p) == Tradeable(p) /\ p.stop # None /\ p.target # None

\* Bars up to and including the origin bar do not count.
After(p, bar) == bar.ts > p.created

HitStop(p, bar) ==
    IF p.direction = "BUY" THEN bar.low <= p.stop ELSE bar.high >= p.stop

HitTarget(p, bar) ==
    IF p.direction = "BUY" THEN bar.high >= p.target ELSE bar.low <= p.target

\* Bars held when the walk stands at index i.
Held(p, candles, i) == Cardinality({j \in 1..i : After(p, candles[j])})

\* The walk returns at index i, if it gets there.
Decides(p, candles, maxHold, i) ==
    /\ i \in 1..Len(candles)
    /\ After(p, candles[i])
    /\ \/ HitStop(p, candles[i])
       \/ HitTarget(p, candles[i])
       \/ Held(p, candles, i) >= maxHold

FirstDecision(p, candles, maxHold, i) ==
    /\ Decides(p, candles, maxHold, i)
    /\ \A j \in 1..(i - 1) : ~Decides(p, candles, maxHold, j)

\* What the deciding bar makes of the trade: the stop wins a tie, and a bar
\* that reached neither barrier is the time barrier, marked to its close.
VerdictAt(p, bar, held) ==
    CASE HitStop(p, bar) ->
            [status |-> "STOP_HIT", price |-> p.stop,
             gain |-> -1, risk |-> 1, holding |-> held]
      [] ~HitStop(p, bar) /\ HitTarget(p, bar) ->
            [status |-> "TARGET_HIT", price |-> p.target,
             gain |-> Abs(p.target - p.entry),
             risk |-> Abs(p.entry - p.stop), holding |-> held]
      [] OTHER ->
            [status |-> "EXPIRED", price |-> bar.close,
             gain |-> IF p.direction = "BUY" THEN bar.close - p.entry
                                             ELSE p.entry - bar.close,
             risk |-> Abs(p.entry - p.stop), holding |-> held]

\* resolve_prediction: the outcome, or None while the trade stays open.
ResolvePrediction(p, candles, maxHold) ==
    IF Resolvable(p) /\ \E i \in 1..Len(candles) : FirstDecision(p, candles, maxHold, i)
    THEN LET i == CHOOSE i \in 1..Len(candles) : FirstDecision(p, candles, maxHold, i)
         IN  VerdictAt(p, candles[i], Held(p, candles, i))
    ELSE None

-----------------------------------------------------------------------------
(* A tracked call has no time barrier: it is open until one of its levels  *)
(* is touched.                                                             *)

\* The columns resolve_call assigns: status, resolved_time, resolved_price
\* and r_multiple, the last as a (gain, risk) pair like an Outcome's.
OpenScore == [status |-> "OPEN", time |-> None, price |-> None, gain |-> 0, risk |-> 1]

\* Any side but BUY is scored as a SELL.
StopTouched(call, bar) ==
    IF call.side = "BUY" THEN bar.low <= call.stop ELSE bar.high >= call.stop

TargetTouched(call, bar) ==
    IF call.side = "BUY" THEN bar.high >= call.tp1 ELSE bar.low <= call.tp1

Loss(call, bar) ==
    [status |-> "LOSS", time |-> bar.ts, price |-> call.stop, gain |-> -1, risk |-> 1]

Win(call, bar) ==
    [status |-> "WIN", time |-> bar.ts, price |-> call.tp1,
     gain |-> Abs(call.tp1 - call.entry), risk |-> Abs(call.entry - call.stop)]

\* The walk returns at index i, if it gets there.
Touches(call, candles, i) ==
    /\ i \in 1..Len(candles)
    /\ candles[i].ts > call.clicked
    /\ StopTouched(call, candles[i]) \/ TargetTouched(call, candles[i])

FirstTouch(call, candles, i) ==
    /\ Touches(call, candles, i)
    /\ \A j \in 1..(i - 1) : ~Touches(call, candles, j)

\* The stop wins a tie.
ScoreAt(call, bar) ==
    IF StopTouched(call, bar) THEN Loss(call, bar) ELSE Win(call, bar)

\* resolve_call: the first touch decides.
ResolveCall(call, candles) ==
    IF \E i \in 1..Len(candles) : FirstTouch(call, candles, i)
    THEN ScoreAt(call, candles[CHOOSE i \in 1..Len(candles) : FirstTouch(call, candles, i)])
    ELSE OpenScore

=============================================================================
