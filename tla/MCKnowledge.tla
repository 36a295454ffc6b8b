----------------------------- MODULE MCKnowledge -----------------------------
(***************************************************************************)
(* An instance of Knowledge for TLC.                                       *)
(***************************************************************************)
EXTENDS Knowledge

CONSTANTS btc, eth, bull

\* Two were created at once; one has no regime and no confidence.
TheContext(i) ==
    CASE i = 1 -> [created |-> 1, symbol |-> btc, regime |-> bull, conf |-> 62]
      [] i = 2 -> [created |-> 2, symbol |-> btc, regime |-> bull, conf |-> 69]
      [] i = 3 -> [created |-> 2, symbol |-> eth, regime |-> bull, conf |-> 100]
      [] i = 4 -> [created |-> 3, symbol |-> eth, regime |-> None, conf |-> None]

TheOutcomes ==
    {[status |-> "TARGET_HIT", r |-> 2], [status |-> "STOP_HIT", r |-> -1],
     [status |-> "EXPIRED", r |-> 0], [status |-> "CANCELLED", r |-> None]}

TheGroups ==
    <<<<"confidence_bucket", 6>>, <<"confidence_bucket", 9>>, <<"market_regime", bull>>,
      <<"outcome_category", "EXPIRED">>, <<"outcome_category", "LOSS">>, <<"outcome_category", "WIN">>,
      <<"symbol", btc>>, <<"symbol", eth>>>>

\* Two-sided p-values of the z-test in ten thousandths, by the distance of the
\* wins from the losses.
ThePValue(w, n) ==
    LET distance == IF 2 * w > n THEN 2 * w - n ELSE n - 2 * w
    IN  CASE distance = 0 -> 10000
          [] n = 1 -> 3173
          [] n = 2 -> 1573
          [] n = 3 -> IF distance = 3 THEN 833 ELSE 5637
          [] n = 4 -> IF distance = 4 THEN 455 ELSE 3173

TheFilters == {AnyRecord, [AnyRecord EXCEPT !.symbol = btc, !.outcome = "WIN", !.confMin = 60, !.from = 1]}

AnyScore == [num |-> 0, den |-> 1]

Won == [status |-> "TARGET_HIT", r |-> 2]

\* Four predictions in any state but none embedded, and three of which any are
\* enriched and embedded.
TheTables ==
    [rows : [Ids -> {None, Pending} \cup TheOutcomes], built : {{}}, embedded : {{}}]
    \cup {t \in [rows : {[f EXCEPT ![4] = None] : f \in [Ids -> {Pending, Won}]},
                  built : SUBSET {1, 2, 3}, embedded : SUBSET {1, 2, 3}] : t.embedded \subseteq t.built}

=============================================================================
