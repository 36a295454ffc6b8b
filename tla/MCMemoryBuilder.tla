--------------------------- MODULE MCMemoryBuilder ---------------------------
(***************************************************************************)
(* The instance of MemoryBuilder for TLC: every prediction counts in the   *)
(* bucket `all', the odd ones in the bucket `odd' as well.                 *)
(***************************************************************************)
EXTENDS MemoryBuilder

CONSTANTS all, odd, b1, b2

TwoBuckets == {all, odd}
OddsApart == [p \in Predictions |-> IF p % 2 = 1 THEN {all, odd} ELSE {all}]
OneBuilder == {b1}
TwoBuilders == {b1, b2}
NoLimit == {0}

=============================================================================
