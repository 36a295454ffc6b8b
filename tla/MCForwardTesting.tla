-------------------------- MODULE MCForwardTesting --------------------------
(***************************************************************************)
(* Instances of ForwardTesting for TLC.  The trade enters at 1, with its   *)
(* barriers at 0 and 2: a bar touches the target or nothing.               *)
(***************************************************************************)
EXTENDS ForwardTesting, TLC

CONSTANT sym, w1, w2, r1

Flat == [low |-> 1, high |-> 1, close |-> 1]
Up == [low |-> 1, high |-> 2, close |-> 1]

FlatUp == {Flat, Up}
FlatOpening == {Flat}

Ask(source, direction, entry, stop, target) ==
    [symbol |-> sym, source |-> source, direction |-> direction,
     recommendation |-> "BUY", price |-> 1, entry |-> entry,
     stop |-> stop, target |-> target]

Buy == Ask("manual", "BUY", None, 0, 2)
Wait == [Buy EXCEPT !.recommendation = "WAIT"]

BuyOrWait == {Buy, Wait}
ToPending == {"PENDING"}

OneSymbol == {sym}
OneWorker == {w1}
TwoWorkers == {w1, w2}
OneReader == {r1}

=============================================================================
