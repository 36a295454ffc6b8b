----------------------------- MODULE LiveStream -----------------------------
(***************************************************************************)
(* One client of the /ws/signals socket (app/api/main.py) on the stream of *)
(* its provider (stream_candles and _poll_candles in app/stream).  The     *)
(* handler fetches a history, then forwards every candle of the stream and *)
(* commits the closed ones to its buffer, which it analyses.  Binance has  *)
(* a socket, left for polling for good when it is blocked; Yahoo is polled *)
(* from the start, by the same loop.                                       *)
(*                                                                         *)
(* The exchange is external: it sends the bar in progress now and then and *)
(* a bar once when it completes, to whoever is connected; a connection     *)
(* that breaks loses the messages that were on their way.                  *)
(***************************************************************************)
EXTENDS Market

CONSTANTS
    Symbol,         \* the socket's symbol
    HistoryLen,     \* candles of the history (seq_len + 200 in the code)
    BufferLen,      \* candles the buffer keeps (seq_len + 400)
    MaxWire,        \* bound: messages of the exchange on their way
    MaxFaults       \* bound: broken, refused and blocked connections, failed fetches

VARIABLES
    phase,          \* where the handler and its stream stand
    provider,       \* "binance", "yahoo", or Binance whose main hosts are "blocked"
    wire,           \* messages of the exchange that have not been read
    broken,         \* is the connection lost behind them?
    lastOpen,       \* last_open of the polling loop
    buffer,         \* buffer of the handler
    shown,          \* the last candle the client was sent, None before
    sent,           \* the closed candles the client was sent by the stream
    faults

streamVars == <<closed, forming, phase, provider, wire, broken, lastOpen, buffer, shown, sent, faults>>
handlerVars == <<provider, broken, lastOpen, faults>>

ASSUME LiveStreamAssumption ==
    /\ Symbol \in Symbols
    /\ ServesForming
    /\ {HistoryLen, BufferLen, MaxWire} \subseteq Nat \ {0}
    /\ MaxFaults \in Nat

Now == AsBar(forming[Symbol], FormingTs(Symbol))

Message(bar, isFinal) == [bar |-> bar, closed |-> isFinal]

\* A message is on its way to the handler, if it is connected.
Arrives(message) ==
    IF phase = "open" /\ ~broken /\ Len(wire) < MaxWire THEN Append(wire, message) ELSE wire

-----------------------------------------------------------------------------
(* The exchange *)

TickIsSent ==
    /\ Tick(Symbol)
    /\ UNCHANGED <<phase, wire, buffer, shown, sent>> /\ UNCHANGED handlerVars

\* The message of a bar that completes is never left out: the exchange waits
\* for room on the wire.
CloseIsSent ==
    /\ CloseBar(Symbol)
    /\ Len(wire) < MaxWire
    /\ wire' = Arrives(Message(closed'[Symbol][Len(closed'[Symbol])], TRUE))
    /\ UNCHANGED <<phase, buffer, shown, sent>> /\ UNCHANGED handlerVars

SendForming ==
    /\ phase = "open" /\ ~broken /\ wire = <<>>
    /\ wire' = Arrives(Message(Now, FALSE))
    /\ UNCHANGED <<closed, forming, phase, buffer, shown, sent>> /\ UNCHANGED handlerVars

-----------------------------------------------------------------------------
(* fetch_klines *)

\* Yahoo has one host; Binance has a mirror for clients that the main host
\* blocks (HTTP 451).
HostAnswers ==
    CASE provider = "yahoo" -> <<"candles">>
      [] provider = "binance" -> <<"candles", "candles">>
      [] provider = "blocked" -> <<"blocked", "candles">>

\* The first candles win; the next host is asked after a blocked or silent one.
Served(answers) ==
    \E i \in 1..Len(answers) :
        /\ answers[i] = "candles"
        /\ \A j \in 1..(i - 1) : answers[j] \in {"blocked", "silent"}

-----------------------------------------------------------------------------
(* The handler: a closed candle is committed *)

\* The history, and the first signal.  Its newest candle is the bar in progress.
SendHistory ==
    /\ phase = "accepted"
    /\ Served(HostAnswers)
    /\ buffer' = Feed(Symbol, HistoryLen)
    /\ phase' = IF provider = "yahoo" THEN "poll" ELSE "connect"
    /\ UNCHANGED <<closed, forming, wire, shown, sent>> /\ UNCHANGED handlerVars

\* The fetch of the history raises: nothing catches it.
HistoryFails ==
    /\ phase = "accepted"
    /\ faults < MaxFaults
    /\ faults' = faults + 1
    /\ phase' = "gone"
    /\ UNCHANGED <<closed, forming, provider, wire, broken, lastOpen, buffer, shown, sent>>

\* The client is sent the closed candles `final', which are committed, and in
\* the end `last'.
Forward(final, last) ==
    /\ shown' = last
    /\ sent' = sent \o final
    /\ buffer' = LastOf(buffer \o final, BufferLen)

-----------------------------------------------------------------------------
(* stream_candles on the socket *)

Connect ==
    /\ phase = "connect"
    /\ provider # "blocked"
    /\ phase' = "open"
    /\ wire' = <<>> /\ broken' = FALSE
    /\ UNCHANGED <<closed, forming, provider, lastOpen, buffer, shown, sent, faults>>

\* The connection breaks (the messages behind the first k are lost) or is
\* refused; what has arrived is still read.
Drop ==
    /\ phase = "open" /\ ~broken
    /\ faults < MaxFaults
    /\ faults' = faults + 1
    /\ \E k \in 0..Len(wire) : wire' = SubSeq(wire, 1, k)
    /\ broken' = TRUE
    /\ UNCHANGED <<closed, forming, phase, provider, lastOpen, buffer, shown, sent>>

\* ConnectionClosed, OSError or the end of the messages: another turn.
Reconnect ==
    /\ phase = "open" /\ broken /\ wire = <<>>
    /\ phase' = "connect"
    /\ UNCHANGED <<closed, forming, wire, buffer, shown, sent>> /\ UNCHANGED handlerVars

Receive ==
    /\ phase = "open" /\ wire # <<>>
    /\ Forward(IF Head(wire).closed THEN <<Head(wire).bar>> ELSE <<>>, Head(wire).bar)
    /\ wire' = Tail(wire)
    /\ UNCHANGED <<closed, forming, phase>> /\ UNCHANGED handlerVars

\* Mutant of StartPolling: the loop tries the socket again.
KeepTrying == "connect"

StartPolling == "poll"

SwitchToPolling ==
    /\ phase' = StartPolling
    /\ wire' = <<>> /\ broken' = FALSE /\ lastOpen' = None
    /\ UNCHANGED <<closed, forming, provider, buffer, shown, sent>>

\* HTTP 451 on the connection: polling for good.
Blocked ==
    /\ phase = "connect"
    /\ provider = "blocked"
    /\ SwitchToPolling
    /\ UNCHANGED faults

\* So does anything else that is not a lost connection, a bad message say.
Upset ==
    /\ phase = "open"
    /\ faults < MaxFaults
    /\ faults' = faults + 1
    /\ SwitchToPolling

-----------------------------------------------------------------------------
(* _poll_candles, and stream_candles of Yahoo *)

\* Mutant of JustClosed: a bar counts as closed when the next poll shows it again.
ClosedWhenSeen(rows) == lastOpen # None /\ Len(rows) >= 2

JustClosed(rows) ==
    /\ lastOpen # None
    /\ rows[Len(rows)].ts # lastOpen
    /\ Len(rows) >= 2

\* One turn: the bar before the newest when a new one has begun, and the newest.
Poll ==
    /\ phase = "poll"
    /\ Served(HostAnswers)
    /\ LET rows == Feed(Symbol, 2)
           newest == rows[Len(rows)]
       IN  /\ Forward(IF JustClosed(rows) THEN <<rows[Len(rows) - 1]>> ELSE <<>>, newest)
           /\ lastOpen' = newest.ts
    /\ UNCHANGED <<closed, forming, phase, provider, wire, broken, faults>>

-----------------------------------------------------------------------------

\* The client leaves; the handler ends at its next send.
Leave ==
    /\ phase # "gone"
    /\ phase' = "gone"
    /\ wire' = <<>>
    /\ UNCHANGED <<closed, forming, buffer, shown, sent>> /\ UNCHANGED handlerVars

StreamInit ==
    /\ MarketInit
    /\ phase = "accepted"
    /\ provider \in {"binance", "yahoo", "blocked"}
    /\ wire = <<>> /\ broken = FALSE
    /\ lastOpen = None
    /\ buffer = <<>> /\ sent = <<>> /\ shown = None
    /\ faults = 0

HandlerStep ==
    \/ SendHistory \/ Connect \/ Blocked \/ Reconnect \/ Receive \/ Poll

StreamNext ==
    \/ TickIsSent \/ CloseIsSent \/ SendForming
    \/ HandlerStep
    \/ HistoryFails \/ Drop \/ Upset
    \/ Leave

StreamSpec == StreamInit /\ [][StreamNext]_streamVars

\* The exchange goes on sending the bar in progress, and the event loop gives
\* the handler its turns.
FairSpec == StreamSpec /\ WF_streamVars(SendForming) /\ WF_streamVars(HandlerStep)

-----------------------------------------------------------------------------
(* Properties *)

\* A candle that the client is sent as closed is the bar as it completed, and
\* no bar is sent as closed twice or after a later one, through broken
\* connections and the change from the socket to polling ("a fresh analysis,
\* computed once per closed candle", main.py:746).
ClosedOnceAndFinal ==
    /\ \A i \in 1..Len(sent) : sent[i] = closed[Symbol][sent[i].ts]
    /\ \A i, j \in 1..Len(sent) : i < j => sent[i].ts < sent[j].ts

\* The chart catches up: once the market stands still and the connection has
\* stopped breaking, a client that stays is shown the bar in progress as it is,
\* whether its socket was lost, refused, blocked or never there.
ChartCatchesUp == <>[](phase = "gone" \/ shown = Now)

=============================================================================
