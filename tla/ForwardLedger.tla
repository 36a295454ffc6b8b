---------------------------- MODULE ForwardLedger ----------------------------
(***************************************************************************)
(* What forward testing promises, with no monitor, no candle feed and no   *)
(* database behind it: a ledger to which each call is added at most once   *)
(* per origin candle and source, and in which an open entry is settled at  *)
(* most once, with exactly the verdict that a replay of the whole history  *)
(* of completed bars gives.  ForwardTesting implements this specification. *)
(***************************************************************************)
EXTENDS Integers, Sequences

CONSTANTS Symbols,          \* instruments
          Bar,              \* what a completed bar may be
          None,             \* no verdict
          Verdict(_, _),    \* what a history makes of an entry, None while undecided
          MaxBars           \* bound: completed bars per instrument

VARIABLES closed,     \* per instrument, its completed bars, oldest first
          ledger      \* the entries, in the order they were made

ledgerVars == <<closed, ledger>>

LedgerInit ==
    /\ closed = [s \in Symbols |-> <<>>]
    /\ ledger = <<>>

\* A bar of instrument s completes.
Advance(s) ==
    /\ Len(closed[s]) < MaxBars
    /\ Len(closed'[s]) = Len(closed[s]) + 1
    /\ LET bar == closed'[s][Len(closed[s]) + 1]
       IN  /\ bar \in Bar
           /\ bar.ts = Len(closed[s]) + 1
           /\ closed' = [closed EXCEPT ![s] = Append(@, bar)]
    /\ UNCHANGED ledger

SameOrigin(a, b) == /\ a.symbol = b.symbol
                    /\ a.created = b.created
                    /\ a.source = b.source

\* A new entry, unless one of the same origin is already there.
Log ==
    /\ Len(ledger') = Len(ledger) + 1
    /\ LET entry == ledger'[Len(ledger) + 1]
       IN  /\ entry.state = "open" /\ entry.verdict = None
           /\ \A i \in 1..Len(ledger) : ~SameOrigin(ledger[i], entry)
           /\ ledger' = Append(ledger, entry)
    /\ UNCHANGED closed

\* The market has decided entry i: its verdict is the replay's, for good.
Settle(i) ==
    /\ ledger[i].state = "open"
    /\ Verdict(ledger[i], closed[ledger[i].symbol]) # None
    /\ ledger' = [ledger EXCEPT
                    ![i].state = "settled",
                    ![i].verdict = Verdict(ledger[i], closed[ledger[i].symbol])]
    /\ UNCHANGED closed

\* Entry i is closed by hand, without a verdict.
Withdraw(i) ==
    /\ ledger[i].state = "open"
    /\ ledger' = [ledger EXCEPT ![i].state = "withdrawn"]
    /\ UNCHANGED closed

LedgerNext ==
    \/ \E s \in Symbols : Advance(s)
    \/ Log
    \/ \E i \in 1..Len(ledger) : Settle(i) \/ Withdraw(i)

LedgerSpec == LedgerInit /\ [][LedgerNext]_ledgerVars

=============================================================================
