------------------------------- MODULE Market -------------------------------
(***************************************************************************)
(* Price history and the providers that serve it (app/stream).  The market *)
(* itself is external: bars complete one after the other, and the last one *)
(* is in progress, its range widening with every trade.  What is the       *)
(* program's own is the feed: fetch_history returns the last `window' bars *)
(* of the provider's answer, whose newest bar is the one in progress, and  *)
(* _row_to_candle marks every one of them as closed.                       *)
(***************************************************************************)
EXTENDS Resolver

CONSTANTS
    Symbols,        \* instruments (with their timeframe)
    Shapes,         \* [low, high, close] a bar may have
    Openings,       \* the shapes a bar may have when it starts
    ServesForming,  \* does the feed include the bar in progress?
    MaxBars         \* bound: completed bars per instrument

VARIABLES
    closed,         \* per instrument, its completed bars
    forming         \* per instrument, the shape of the bar in progress

Shape == [low : Int, high : Int, close : Int]

ASSUME MarketAssumption ==
    /\ Openings \subseteq Shapes
    /\ Shapes \subseteq Shape
    /\ ServesForming \in BOOLEAN
    /\ MaxBars \in Nat

-----------------------------------------------------------------------------

AsBar(shape, ts) ==
    [ts |-> ts, low |-> shape.low, high |-> shape.high, close |-> shape.close]

Widens(shape, from) == shape.low <= from.low /\ shape.high >= from.high

MarketInit ==
    /\ closed = [s \in Symbols |-> <<>>]
    /\ forming \in [Symbols -> Openings]

\* A trade prints inside the bar in progress.
Tick(s) ==
    /\ Len(closed[s]) < MaxBars
    /\ \E shape \in Shapes :
          /\ shape # forming[s]
          /\ Widens(shape, forming[s])
          /\ forming' = [forming EXCEPT ![s] = shape]
    /\ UNCHANGED closed

\* The bar in progress completes with its final shape and the next one opens.
CloseBar(s) ==
    /\ Len(closed[s]) < MaxBars
    /\ \E shape \in Shapes, opening \in Openings :
          /\ Widens(shape, forming[s])
          /\ closed' = [closed EXCEPT ![s] = Append(@, AsBar(shape, Len(@) + 1))]
          /\ forming' = [forming EXCEPT ![s] = opening]

-----------------------------------------------------------------------------

\* The last `window' candles of a sequence.
LastOf(bars, window) ==
    IF Len(bars) <= window THEN bars
    ELSE SubSeq(bars, Len(bars) - window + 1, Len(bars))

\* The open time of the bar in progress.
FormingTs(s) == Len(closed[s]) + 1

\* Mutant of Feed: the bar in progress is never dropped.
AlwaysForming(s, window) ==
    LastOf(Append(closed[s], AsBar(forming[s], FormingTs(s))), window)

\* fetch_history(s, total = window) now, unless something between the provider
\* and the caller drops the bar in progress.
Feed(s, window) ==
    IF ServesForming
    THEN LastOf(Append(closed[s], AsBar(forming[s], FormingTs(s))), window)
    ELSE LastOf(closed[s], window)

=============================================================================
