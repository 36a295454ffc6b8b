--------------------------- MODULE AnswerPipeline ---------------------------
(***************************************************************************)
(* From a message to the model's answer: what it asks for and what it      *)
(* names (app/conversation/intent), what is retrieved from the composed    *)
(* decision (retrieval and sources), the prompt and its token budget       *)
(* (prompt), and how a provider's failure reaches the client (llm_adapter, *)
(* app/api/chat).                                                          *)
(*                                                                         *)
(* A message is a record [terms, prediction, symbol]: the phrases it       *)
(* contains and its words, as far as the registry knows them, and the      *)
(* first identifier and ticker in it, None without one.                    *)
(* A store is a function from identifiers, numbered by creation, to stored *)
(* predictions.                                                            *)
(***************************************************************************)
EXTENDS DecisionIntelligence, Sequences

CONSTANTS
    Budget,             \* tokens of a prompt (2000 in the code)
    Marker              \* tokens of the note that replaces an omitted section

PipelineAssumption == Budget \in Nat /\ Marker \in Nat

ASSUME PipelineAssumption

-----------------------------------------------------------------------------
(* The intents *)

Rule(phrases, keywords, synonyms, needsSubject, priority) ==
    [phrases |-> phrases, keywords |-> keywords, synonyms |-> synonyms,
     needsSubject |-> needsSubject, priority |-> priority]

INTENT_REGISTRY ==
    [HEALTH |-> Rule({"system status", "is the system up", "health check", "are you online"},
                     {"health", "status"}, {"alive", "online"}, FALSE, 10),
     VERSION |-> Rule({"what version", "which version"}, {"version"}, {}, FALSE, 10),
     HELP |-> Rule({"what can you do", "help me", "how do i use", "list commands"},
                   {"help", "commands"}, {}, FALSE, 10),
     EXPLAIN_PREDICTION |->
        Rule({"explain this prediction", "explain the prediction", "explain prediction",
              "what does this prediction mean"},
             {"explain", "prediction"}, {"predict"}, TRUE, 20),
     SHOW_EVIDENCE |->
        Rule({"show evidence", "show me the evidence", "what evidence", "what is the evidence"},
             {"evidence"}, {"proof", "support"}, TRUE, 20),
     WHY_CONFIDENCE |->
        Rule({"why confidence", "why the confidence", "how confident", "how strong is the evidence"},
             {"confidence"}, {"confident", "trustworthy"}, TRUE, 20),
     DECISION_SUMMARY |->
        Rule({"decision summary", "overall decision", "summarise the decision",
              "summarize the decision", "what does the system think"},
             {"decision"}, {"overall", "summary"}, TRUE, 35),
     HISTORICAL_COMPARISON |->
        Rule({"historical comparison", "how did it do historically", "historical behaviour",
              "historical behavior", "compared to history"},
             {"historical", "history"}, {}, TRUE, 30),
     SIMILAR_CASES |->
        Rule({"similar cases", "similar setups", "seen this before", "similar predictions"},
             {"similar"}, {"neighbours", "neighbors"}, TRUE, 30),
     LEARNING_SUMMARY |->
        Rule({"learning summary", "what has it learned", "learning observations"},
             {"learning"}, {"learned", "patterns"}, FALSE, 40)]

\* The order of the enumeration, which decides what strength and priority leave.
RegistryOrder ==
    <<"EXPLAIN_PREDICTION", "SHOW_EVIDENCE", "WHY_CONFIDENCE", "HISTORICAL_COMPARISON",
      "SIMILAR_CASES", "LEARNING_SUMMARY", "DECISION_SUMMARY", "HEALTH", "VERSION", "HELP">>

Known == DOMAIN INTENT_REGISTRY

Place(intent) == CHOOSE k \in DOMAIN RegistryOrder : RegistryOrder[k] = intent

Matched(rule, terms) == (rule.phrases \cup rule.keywords \cup rule.synonyms) \cap terms

\* The strongest kind of match, and five hundredths for every further match.
Strength(rule, terms) ==
    LET best == IF rule.phrases \cap terms # {} THEN 90
                ELSE IF rule.keywords \cap terms # {} THEN 70 ELSE 60
    IN  Min({100, best + 5 * (Cardinality(Matched(rule, terms)) - 1)})

Candidates(message) == {i \in Known : Matched(INTENT_REGISTRY[i], message.terms) # {}}

\* Whether i is preferred to j: stronger, then of lower priority, then earlier.
Preferred(i, j, terms) ==
    LET s == Strength(INTENT_REGISTRY[i], terms)
        t == Strength(INTENT_REGISTRY[j], terms)
        p == INTENT_REGISTRY[i].priority
        q == INTENT_REGISTRY[j].priority
    IN  \/ s > t
        \/ s = t /\ p < q
        \/ s = t /\ p = q /\ Place(i) < Place(j)

Winner(message) ==
    LET candidates == Candidates(message)
    IN  IF candidates = {} THEN "UNKNOWN"
        ELSE CHOOSE i \in candidates :
                \A j \in candidates \ {i} : Preferred(i, j, message.terms)

-----------------------------------------------------------------------------
(* Entities *)

NoEntities == [prediction |-> None, symbol |-> None]

Remembered(named, known) == IF named # None THEN named ELSE known

\* What the message names, filled from what the session remembers.
Entities(message, memory) ==
    [prediction |-> Remembered(message.prediction, memory.prediction),
     symbol |-> Remembered(message.symbol, memory.symbol)]

HasSubject(entities) == entities.prediction # None \/ entities.symbol # None

\* An intent that needs no subject, or one that is known.
SubjectOk(intent, entities) ==
    IF intent \in Known /\ INTENT_REGISTRY[intent].needsSubject THEN HasSubject(entities) ELSE TRUE

Classify(message, memory) ==
    LET entities == Entities(message, memory)
        intent == Winner(message)
    IN  [intent |-> intent, entities |-> entities, valid |-> SubjectOk(intent, entities)]

-----------------------------------------------------------------------------
(* Retrieval *)

RETRIEVAL_ROUTING ==
    [EXPLAIN_PREDICTION |-> {"DECISION_SUMMARY", "EXPLANATION"},
     SHOW_EVIDENCE |-> {"EVIDENCE"},
     WHY_CONFIDENCE |-> {"COMPOSITE_CONFIDENCE"},
     HISTORICAL_COMPARISON |-> {"HISTORICAL_CONTEXT"},
     SIMILAR_CASES |-> {"SIMILAR_CASES"},
     LEARNING_SUMMARY |-> {"LEARNING_SUMMARY"},
     DECISION_SUMMARY |-> {"DECISION_SUMMARY", "EVIDENCE", "COMPOSITE_CONFIDENCE"},
     HEALTH |-> {"HEALTH"}, VERSION |-> {"VERSION"}, HELP |-> {}, UNKNOWN |-> {}]

Standalone == {"HEALTH", "VERSION"}

\* The prediction that is created last among those of a symbol, None without.
Latest(store, symbol) ==
    LET ids == {id \in DOMAIN store : store[id].symbol = symbol}
    IN  IF ids = {} THEN None ELSE Max(ids)

\* An identifier goes before a symbol.  reads.store is whether the prediction
\* store can be read.
Fetch(entities, store, reads) ==
    IF ~HasSubject(entities) THEN [outcome |-> "missing_subject", decision |-> None]
    ELSE IF ~reads.store THEN [outcome |-> "error", decision |-> None]
    ELSE LET id == IF entities.prediction # None THEN entities.prediction
                   ELSE Latest(store, entities.symbol)
         IN  IF id \notin DOMAIN store THEN [outcome |-> "not_found", decision |-> None]
             ELSE [outcome |-> "ok", decision |-> Compose(store[id], reads)]

AvailabilityOf(status) ==
    CASE status \in {"COMPLETE", "PARTIAL"} -> "AVAILABLE"
      [] status = "INSUFFICIENT_DATA" -> "INSUFFICIENT_DATA"
      [] status = "EMPTY" -> "NOT_AVAILABLE"
      [] status = "ERROR" -> "ERROR"

SectionOf(target) ==
    CASE target = "HISTORICAL_CONTEXT" -> "historical_memory"
      [] target = "SIMILAR_CASES" -> "similarity"
      [] target = "LEARNING_SUMMARY" -> "learning"

Component(target, availability, citations) ==
    [target |-> target, availability |-> availability, citations |-> citations]

\* Mutant of Slice: a section cites its own evidence only.
SliceWithoutTheDecision(target, decision) ==
    CASE target = "DECISION_SUMMARY" ->
            Component(target, AvailabilityOf(decision.status), {<<"decision", decision.id>>})
      [] target \in {"EVIDENCE", "EXPLANATION", "COMPOSITE_CONFIDENCE"} ->
            Component(target, "AVAILABLE", {<<"decision", decision.id>>})
      [] OTHER ->
            LET section == decision.sections[SectionOf(target)]
            IN  Component(target, AvailabilityOf(section.status),
                          {<<SectionOf(target), e>> : e \in section.evidence})

\* What a target takes from the decision; a section brings its own evidence.
Slice(target, decision) ==
    CASE target = "DECISION_SUMMARY" ->
            Component(target, AvailabilityOf(decision.status), {<<"decision", decision.id>>})
      [] target \in {"EVIDENCE", "EXPLANATION", "COMPOSITE_CONFIDENCE"} ->
            Component(target, "AVAILABLE", {<<"decision", decision.id>>})
      [] OTHER ->
            LET section == decision.sections[SectionOf(target)]
            IN  Component(target, AvailabilityOf(section.status),
                          {<<"decision", decision.id>>}
                          \cup {<<SectionOf(target), e>> : e \in section.evidence})

\* One component of the payload.
Retrieved(target, fetch) ==
    IF target \in Standalone THEN Component(target, "AVAILABLE", {})
    ELSE CASE fetch.outcome = "error" -> Component(target, "ERROR", {})
           [] fetch.outcome \in {"missing_subject", "not_found"} ->
                Component(target, "NOT_AVAILABLE", {})
           [] fetch.outcome = "ok" -> Slice(target, fetch.decision)

\* The best that any component can offer.
Overall(components) ==
    LET states == {c.availability : c \in components}
    IN  IF components = {} THEN "NOT_SUPPORTED"
        ELSE IF "AVAILABLE" \in states THEN "AVAILABLE"
        ELSE IF "INSUFFICIENT_DATA" \in states THEN "INSUFFICIENT_DATA"
        ELSE IF "ERROR" \in states THEN "ERROR" ELSE "NOT_AVAILABLE"

NeedsDecision(intent) == RETRIEVAL_ROUTING[intent] \ Standalone # {}

Retrieve(intent, entities, store, reads) ==
    LET fetch == IF NeedsDecision(intent) THEN Fetch(entities, store, reads)
                 ELSE [outcome |-> "n/a", decision |-> None]
        components == {Retrieved(t, fetch) : t \in RETRIEVAL_ROUTING[intent]}
    IN  [components |-> components, decision |-> fetch.decision,
         availability |-> Overall(components),
         citations |-> UNION {c.citations : c \in components}]

-----------------------------------------------------------------------------
(* The prompt *)

\* The section of the prompt that a target feeds.
PromptSection(target) ==
    IF target \in {"DECISION_SUMMARY", "EXPLANATION", "HEALTH", "VERSION"}
    THEN "DECISION_INTELLIGENCE" ELSE target

NeverTrimmed == {"SYSTEM", "CITATIONS", "USER_REQUEST"}

\* The other sections, the ones that are dropped first in front.
TrimOrder ==
    <<"CONVERSATION_CONTEXT", "SIMILAR_CASES", "LEARNING_SUMMARY", "HISTORICAL_CONTEXT",
      "EVIDENCE", "DECISION_INTELLIGENCE", "COMPOSITE_CONFIDENCE">>

Sections == NeverTrimmed \cup {TrimOrder[k] : k \in DOMAIN TrimOrder}

SectionsOf(components) ==
    NeverTrimmed \cup {"CONVERSATION_CONTEXT"} \cup {PromptSection(c.target) : c \in components}

\* The tokens that a section adds to a prompt of the sections that are present.
Size(section, present, sizes) == IF section \in present THEN sizes[section] ELSE 0

Tokens(present, sizes) ==
    Size("SYSTEM", present, sizes) + Size("CONVERSATION_CONTEXT", present, sizes)
    + Size("DECISION_INTELLIGENCE", present, sizes) + Size("EVIDENCE", present, sizes)
    + Size("COMPOSITE_CONFIDENCE", present, sizes) + Size("HISTORICAL_CONTEXT", present, sizes)
    + Size("SIMILAR_CASES", present, sizes) + Size("LEARNING_SUMMARY", present, sizes)
    + Size("CITATIONS", present, sizes) + Size("USER_REQUEST", present, sizes)

\* Mutant of Trim: every section that may be dropped is dropped once the prompt
\* is too long.
TrimAll(present, sizes) ==
    LET dropped == IF Tokens(present, sizes) <= Budget THEN {} ELSE present \ NeverTrimmed
    IN  [omitted |-> dropped,
         total |-> Tokens(present \ dropped, sizes) + Marker * Cardinality(dropped)]

\* The next section in the trimming order gives way to the marker, unless the
\* prompt fits already or does not have it.
GiveWay(before, section, present, sizes) ==
    IF before.total <= Budget \/ section \notin present THEN before
    ELSE [omitted |-> before.omitted \cup {section},
          total |-> before.total + Marker - sizes[section]]

Trim(present, sizes) ==
    LET step[k \in 0..Len(TrimOrder)] ==
        IF k = 0 THEN [omitted |-> {}, total |-> Tokens(present, sizes)]
        ELSE GiveWay(step[k - 1], TrimOrder[k], present, sizes)
    IN  step[Len(TrimOrder)]

\* Evidence without a citation is refused; a section of evidence is available as
\* soon as one of its components is.
Uncited(retrieval) ==
    /\ retrieval.citations = {}
    /\ \E c \in retrieval.components : c.target \notin Standalone /\ c.availability = "AVAILABLE"

\* The prompt of a retrieval that is not refused.
BuildPrompt(retrieval, sizes) ==
    LET present == SectionsOf(retrieval.components)
        trimmed == Trim(present, sizes)
    IN  [present |-> present, omitted |-> trimmed.omitted, total |-> trimmed.total,
         sizes |-> [s \in present |-> sizes[s]]]

-----------------------------------------------------------------------------
(* The provider *)

\* What the name of an exception is searched for, in this order.
ErrorRules ==
    <<<<{"ratelimit", "rate_limit"}, "RATE_LIMITED">>,
      <<{"auth", "permission"}, "AUTHENTICATION_ERROR">>,
      <<{"timeout"}, "TIMEOUT">>,
      <<{"unavailable", "connection"}, "PROVIDER_UNAVAILABLE">>,
      <<{"invalid", "badrequest"}, "INVALID_REQUEST">>>>

\* The category of a failure; a failure is the set of those words in its name,
\* or "no client" for a provider without one.
NormaliseError(failure) ==
    IF "no client" \in failure THEN "PROVIDER_UNAVAILABLE"
    ELSE LET hits == {k \in DOMAIN ErrorRules : ErrorRules[k][1] \cap failure # {}}
         IN  IF hits = {} THEN "INTERNAL_ERROR" ELSE ErrorRules[Min(hits)][2]

HttpStatus(category) ==
    CASE category = "RATE_LIMITED" -> 429
      [] category \in {"PROVIDER_UNAVAILABLE", "TIMEOUT"} -> 503
      [] category = "INVALID_REQUEST" -> 400
      [] category \in {"AUTHENTICATION_ERROR", "INTERNAL_ERROR"} -> 500

=============================================================================
