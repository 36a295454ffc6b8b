------------------------------ MODULE MCAnswers ------------------------------
(* The instance of Conversation that is model-checked. *)
EXTENDS Conversation

\* The predictions that are asked about; older ones are neighbours.
Record(id, symbol, direction, conf, outcome) ==
    [id |-> id, symbol |-> symbol, direction |-> direction, conf |-> conf,
     outcome |-> outcome, planned |-> TRUE, r |-> None]

MCInitialStores == {[id \in {1} |-> Record(1, "BTC", "BUY", 70, 60)]}

MCArrivals == {Record(2, "BTC", "SELL", 65, 45), Record(2, "ETH", "WAIT", None, None)}

Message(terms, prediction, symbol) ==
    [terms |-> terms, prediction |-> prediction, symbol |-> symbol]

\* A named prediction may be unknown to the store, and so may a symbol.
MCMessages ==
    {Message({"explain", "prediction"}, None, None),
     Message({"explain", "prediction", "explain this prediction"}, 2, None),
     Message({"evidence", "confidence"}, None, None),
     Message({"similar", "similar cases"}, None, "BTC"),
     Message({"learning", "patterns"}, None, None),
     Message({"decision", "summary"}, None, "ETH"),
     Message({}, None, "BTC"),
     Message({}, 1, None),
     Message({}, None, None),
     Message({"status"}, None, None)}

Neighbours(n) == {<<"neighbour", i>> : i \in 1..n}

Found(n, win) == [available |-> TRUE, cases |-> Neighbours(n), win |-> win]

Learned(patterns, matching) == [enough |-> TRUE, patterns |-> patterns, matching |-> matching]

Reading(memory, similar, learning) ==
    [store |-> TRUE, memory |-> memory, similar |-> similar, learning |-> learning]

MCReads ==
    {Reading("found", Found(5, 60), Learned(3, {"recommendation"})),
     Reading("found", Found(1, 40), Learned(3, {})),
     Reading("absent", None, None),
     Reading("raised", Found(0, None), [enough |-> FALSE, patterns |-> 0, matching |-> {}]),
     Reading("found", Found(3, 60), None),
     [Reading("absent", None, None) EXCEPT !.store = FALSE]}

\* Sections of the sizes that the code gives them, and a request of the user that
\* is short, long, or longer than a prompt may be.
SectionSizes(request) ==
    [SYSTEM |-> 170, CONVERSATION_CONTEXT |-> 47, DECISION_INTELLIGENCE |-> 157,
     EVIDENCE |-> 3829, COMPOSITE_CONFIDENCE |-> 749, HISTORICAL_CONTEXT |-> 148,
     SIMILAR_CASES |-> 257, LEARNING_SUMMARY |-> 144, CITATIONS |-> 14,
     USER_REQUEST |-> request]

MCSizes == {SectionSizes(5), SectionSizes(950), SectionSizes(2100)}

MCFailures == {{"no client"}, {"ratelimit"}, {"auth", "timeout"}, {}}

=============================================================================
