------------------------------ MODULE Adviser ------------------------------
(***************************************************************************)
(* The planning advice of a language model (app/agent/planning_llm.py and  *)
(* POST /agent/suggest): what a provider answers, or raises, becomes a     *)
(* suggestion or a normalised error.  The server keeps nothing of it; the  *)
(* client may ask the planner for the suggested tools like for any others. *)
(***************************************************************************)
EXTENDS Planner, SequencesExt

-----------------------------------------------------------------------------
(* The tool registry (app/agent/tools.py): definitions of tools, an         *)
(* immutable catalog that is kept in the order of their ids, and the lookups *)
(* the planner, the permission engine and the executor make.  What raises in *)
(* the code is a condition here.                                             *)

\* ToolDefinition, without its texts, schemas and versions.
Definition == [id : Nat, category : STRING, writes : BOOLEAN, restricted : BOOLEAN,
               availability : {"AVAILABLE", "UNAVAILABLE", "DEPRECATED", "EXPERIMENTAL"}]

\* Its __post_init__: a tool that writes must require permission.
WellFormed(tool) == tool \in Definition /\ (tool.writes => tool.restricted)

Registered(registry) == {registry[i].id : i \in DOMAIN registry}

\* sorted, of ids that occur once: the n-th has n - 1 before it.
Ascending(set) ==
    [i \in 1..Cardinality(set) |-> CHOOSE n \in set : Cardinality({m \in set : m < n}) = i - 1]

\* register: a new registry, in the order of the ids.  A definition that is
\* not well formed, or under an id that is taken, raises: the registry, which
\* is immutable, stays.
CanRegister(registry, tool) == WellFormed(tool) /\ tool.id \notin Registered(registry)
Register(registry, tool) ==
    LET ids == Ascending(Registered(registry) \cup {tool.id})
    IN  IF ~CanRegister(registry, tool) THEN registry
        ELSE [i \in DOMAIN ids |->
                 CHOOSE t \in Range(registry) \cup {tool} : t.id = ids[i]]

\* One registration after another, on an empty registry.
RegisterAll(tools) ==
    LET registry[n \in 0..Len(tools)] ==
          IF n = 0 THEN <<>> ELSE Register(registry[n - 1], tools[n])
    IN  registry[Len(tools)]

\* ids.
Ids(registry) == [i \in DOMAIN registry |-> registry[i].id]

\* get, for an id that has (ids of the registry).
ToolOf(registry, id) == registry[CHOOSE i \in DOMAIN registry : registry[i].id = id]

\* by_category, available, and the ids a rule's matchers or the planner read
\* off them.
ByCategory(registry, category) == SelectSeq(registry, LAMBDA t : t.category = category)
AvailableTools(registry) == SelectSeq(registry, LAMBDA t : t.availability = "AVAILABLE")

ReadOnly(id, category) ==
    [id |-> id, category |-> category, writes |-> FALSE, restricted |-> FALSE,
     availability |-> "AVAILABLE"]

\* default_tool_definitions: seven tools that only read, in the order of the
\* source; the ids are numbered as their names sort.
DefaultTools ==
    <<ReadOnly(1, "CONVERSATION"), ReadOnly(2, "DECISION_INTELLIGENCE"), ReadOnly(4, "MEMORY"),
      ReadOnly(5, "SIMILARITY"), ReadOnly(3, "LEARNING"), ReadOnly(6, "SYSTEM"),
      ReadOnly(7, "SYSTEM")>>

DefaultRegistry == RegisterAll(DefaultTools)

-----------------------------------------------------------------------------
(* The planning advice. *)

\* PlanningRequest: the tools the model may choose from, None for a blank id;
\* the temperature is in tenths.
ValidRequest(request) ==
    /\ 0 <= request.temperature /\ request.temperature <= 20
    /\ request.max_tokens > 0
    /\ None \notin Range(request.tools)
    /\ IsInjective(request.tools)

Suggestion(steps) == [steps |-> steps, error |-> None]
Refusal(category) == [steps |-> <<>>, error |-> category]

\* _normalise_error: by the words in the name of the exception, in this order.
ErrorCategory(name) ==
    CASE "ratelimit" \in name -> "RATE_LIMITED"
      [] "ratelimit" \notin name /\ "timeout" \in name -> "TIMEOUT"
      [] name \cap {"ratelimit", "timeout"} = {}
         /\ name \cap {"unavailable", "connection", "auth", "permission"} # {} ->
            "PROVIDER_UNAVAILABLE"
      [] name \cap {"ratelimit", "timeout", "unavailable", "connection", "auth", "permission"} = {}
         /\ name \cap {"invalid", "badrequest"} # {} -> "INVALID_REQUEST"
      [] OTHER -> "INTERNAL_ERROR"

\* EchoPlanningProvider.suggest: the tools on offer, in the order of their ids.
Echo(request) ==
    LET ids == Ascending(Range(request.tools))
    IN  Suggestion([i \in DOMAIN ids |-> [tool |-> ids[i], needs |-> {}]])

\* OpenAIPlanningProvider.suggest: no client, an exception, a step without a
\* tool, or the steps as they came.  An answer of another shape, whose exception
\* the provider does not catch and which ends the call, is left out.
FromProvider(answer) ==
    CASE answer.kind = "no_client" -> Refusal("PROVIDER_UNAVAILABLE")
      [] answer.kind = "raised" -> Refusal(ErrorCategory(answer.name))
      [] answer.kind = "steps" ->
            IF \E i \in DOMAIN answer.steps : answer.steps[i].tool = None
            THEN Refusal("INVALID_RESPONSE") ELSE Suggestion(answer.steps)

SuggestedTools(steps) == [i \in DOMAIN steps |-> steps[i].tool]

\* Mutant of Acceptable: what a step depends on need not be suggested too.
AcceptableTools(steps, request) ==
    /\ IsInjective(SuggestedTools(steps))
    /\ request.tools # <<>> => Range(SuggestedTools(steps)) \subseteq Range(request.tools)

\* validate_planning_response: distinct tools, of those on offer if any were
\* named, that depend on each other only.
Acceptable(steps, request) ==
    /\ IsInjective(SuggestedTools(steps))
    /\ request.tools # <<>> => Range(SuggestedTools(steps)) \subseteq Range(request.tools)
    /\ \A i \in DOMAIN steps : steps[i].needs \subseteq Range(SuggestedTools(steps))

\* PlanningLLMAdapter.suggest.
Suggest(request, answer) ==
    LET response == IF answer.kind = "echo" THEN Echo(request) ELSE FromProvider(answer)
    IN  IF response.error # None \/ Acceptable(response.steps, request)
        THEN response ELSE Refusal("INVALID_RESPONSE")

\* as_requested_tools: the task a client makes of a suggestion.
AsTask(response) ==
    LET steps == response.steps
    IN  [wish |-> [tools |-> SuggestedTools(steps),
                   needs |-> [n \in Names |->
                       UNION {steps[i].needs : i \in {k \in DOMAIN steps : steps[k].tool = n}}]],
         goal |-> None, mentions |-> {}]

=============================================================================
