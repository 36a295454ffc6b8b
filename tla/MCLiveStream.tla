---------------------------- MODULE MCLiveStream ----------------------------
(***************************************************************************)
(* Instances of LiveStream for TLC.                                        *)
(***************************************************************************)
EXTENDS LiveStream

CONSTANT btc

Flat == [low |-> 1, high |-> 1, close |-> 1]
Up   == [low |-> 1, high |-> 2, close |-> 1]

TheSymbol == {btc}
TwoShapes == {Flat, Up}
FlatOpening == {Flat}

=============================================================================
