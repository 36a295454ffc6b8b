------------------------------ MODULE MCAgent ------------------------------
(***************************************************************************)
(* An instance of Agent for TLC: three registered tools, the third changes *)
(* state, and a name that is not registered.  Clients ask for the three    *)
(* with every combination of dependencies, circular ones included, for     *)
(* fewer, by goal, and in every way the planner refuses at once.           *)
(***************************************************************************)
EXTENDS Agent, Adviser

CONSTANTS s1

FourNames == 1..4

ASSUME InstanceAssumption == FourNames \subseteq Names

\* A registry of three tools, registered out of order, the last of which
\* writes; a second definition of it, and one that writes without permission,
\* are turned down.
Writing == [ReadOnly(3, "SYSTEM") EXCEPT !.writes = TRUE, !.restricted = TRUE]
Registry == RegisterAll(<<Writing, ReadOnly(1, "MEMORY"), ReadOnly(3, "MEMORY"),
                         [Writing EXCEPT !.id = 4, !.restricted = FALSE], ReadOnly(2, "SYSTEM")>>)
ThreeTools == Registered(Registry)
WriteTools == {id \in ThreeTools : ToolOf(Registry, id).writes}
RestrictedTools == {id \in ThreeTools : ToolOf(Registry, id).restricted}

\* The releases: all tools are available, or all but the first.
WithAndWithout ==
    {Range(Ids(AvailableTools(registry))) :
        registry \in {Registry, [Registry EXCEPT ![1].availability = "DEPRECATED"]}}
OneSession == {s1}

NoNeeds == [n \in FourNames |-> {}]
Nothing == [tools |-> <<>>, needs |-> NoNeeds]

TwoGoals == {"explain", "status"}
TwoRules == [explain |-> [tools |-> <<2, 3, 1>>, needs |-> [NoNeeds EXCEPT ![1] = {2, 3}]],
             status |-> [tools |-> <<2>>, needs |-> NoNeeds]]

ByWish(tools, needs) ==
    [wish |-> [tools |-> tools, needs |-> needs], goal |-> None, mentions |-> {}]
ByGoal(goal, mentions) == [wish |-> Nothing, goal |-> goal, mentions |-> mentions]

Graphs == {needs \in [FourNames -> SUBSET ThreeTools] :
              needs[4] = {} /\ \A n \in ThreeTools : n \notin needs[n]}

-----------------------------------------------------------------------------
(* The adviser. *)

Offers == {<<>>, <<2, 1>>, Ids(Registry), <<1, 1>>, <<1, None>>}
Requests == {[tools |-> tools, temperature |-> 0, max_tokens |-> 512] : tools \in Offers}
            \cup {[tools |-> <<1, 2>>, temperature |-> 21, max_tokens |-> 512],
                  [tools |-> <<1, 2>>, temperature |-> 0, max_tokens |-> 0]}

AnyStep == [tool : {1, 2, 4, None}, needs : {{}, {1}, {2}, {3}}]
Answers ==
    {[kind |-> "echo"], [kind |-> "no_client"]}
    \cup [kind : {"raised"}, name : {{}, {"timeout", "connection"}, {"auth"}, {"badrequest"}}]
    \cup [kind : {"steps"}, steps : {<<>>} \cup {<<a>> : a \in AnyStep}
                                   \cup {<<a, b>> : a, b \in AnyStep}]

Advice == {<<request, Suggest(request, answer)>> :
              request \in {r \in Requests : ValidRequest(r)}, answer \in Answers}

Knot(wish) == \E n \in Wanted(wish) : n \in wish.needs[n]

\* What the planner makes of a suggestion for a request.
Plannable(request, response) ==
    LET wish == AsTask(response).wish
    IN  /\ response.error # None => response.steps = <<>>
        /\ response.steps # <<>> =>
             /\ Selectable(AsTask(response))
             /\ Knot(wish) \/ NeedsKnown(wish)
             /\ request.tools # <<>> /\ Range(request.tools) \subseteq available => Resolvable(wish)

\* "An invalid suggestion is returned as a normalised [..] error, never leaked
\* or executed" (planning_llm.py:374-375): whatever the model says or raises, a
\* client that asks the planner for the suggestion as it stands is refused
\* only for a tool that waits for itself, for one that was withdrawn, or for
\* one that was never on offer, which takes an offer that names none.  Over the default
\* registry the stub suggests every tool, in the order of the registry.
AdviceCanBePlanned ==
    Free /\ plan = None /\ authorization = None =>
    /\ SuggestedTools(Echo([tools |-> Ids(DefaultRegistry)]).steps) = Ids(DefaultRegistry)
    /\ \A advice \in Advice : Plannable(advice[1], advice[2])

\* One task for each suggestion of the echo, as a client would send it.
EchoTasks == {AsTask(Suggest(request, [kind |-> "echo"])) :
                 request \in {r \in Requests : ValidRequest(r) /\ r.tools # <<>>}}

-----------------------------------------------------------------------------

AllTasks ==
    EchoTasks \cup
    {ByWish(<<2, 1, 3>>, needs) : needs \in Graphs}
    \cup {ByWish(<<3, 1>>, [NoNeeds EXCEPT ![1] = {3}]),
          ByWish(<<1, 2, 1>>, NoNeeds),
          ByWish(<<2, 4>>, NoNeeds),
          ByWish(<<2>>, [NoNeeds EXCEPT ![2] = {3}]),
          ByWish(<<2>>, [NoNeeds EXCEPT ![2] = {2}])}
    \cup {ByGoal("explain", {}), ByGoal("unheard of", {}), ByGoal(None, {}),
          ByGoal(None, {"status"}), ByGoal(None, TwoGoals)}

Memory == Range(Ids(ByCategory(Registry, "MEMORY")))

When(tools, level) == [selects |-> tools, level |-> level]

FivePolicies ==
    {[rules |-> <<>>, fallback |-> "ALLOWED"],
     [rules |-> <<>>, fallback |-> "DENIED"],
     [rules |-> <<When({2}, "DENIED")>>, fallback |-> "ALLOWED"],
     [rules |-> <<When(Memory, "APPROVAL_REQUIRED"), When({1, 3}, "DENIED")>>, fallback |-> "ALLOWED"],
     [rules |-> <<When({3}, "ALLOWED")>>, fallback |-> "APPROVAL_REQUIRED"]}

=============================================================================
