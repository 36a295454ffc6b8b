---------------------------- MODULE MCCallTracker ----------------------------
(***************************************************************************)
(* Instances of CallTracker for TLC.  Calls of both sides enter at 1,      *)
(* between levels at 0 and 2: a bar touches nothing, or the target of the  *)
(* long calls and the stop of the short ones.                              *)
(***************************************************************************)
EXTENDS CallTracker

CONSTANTS btc, l1, l2, g1, g2

Flat == [low |-> 1, high |-> 1, close |-> 1]
Up == [low |-> 1, high |-> 2, close |-> 1]

FlatUp == {Flat, Up}
FlatOpening == {Flat}

OneMarket == {btc}
TwoListers == {l1, l2}
OneLogger == {g1}

Long  == [side |-> "BUY", entry |-> 1, stop |-> 0, tp1 |-> 2]
Short == [side |-> "SELL", entry |-> 1, stop |-> 2, tp1 |-> 0]

TapAsAi == {[plan |-> Long, source |-> "manual"], [plan |-> Short, source |-> "ai"]}
PickShort == {Short}
OneBand == {[entry |-> 1, lower |-> 0, upper |-> 2]}
OnOff == {btc, None}
UndoOne == {1}

\* Listers, and loggers, run the same code, and nothing orders them.
Symmetry == Permutations(Listers) \cup Permutations(Loggers)

=============================================================================
