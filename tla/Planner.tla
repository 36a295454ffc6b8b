------------------------------ MODULE Planner ------------------------------
(***************************************************************************)
(* app/agent/planner.py: from a task to the tools of a plan, in an order   *)
(* that respects their dependencies, against the tool registry             *)
(* (app/agent/tools.py).  The loops of _topological_order are steps here;  *)
(* the handler around them has no await, so nothing comes between them     *)
(* except the end of the process.                                          *)
(*                                                                         *)
(* A tool id is a number: the registry and each layer are sorted by id.    *)
(***************************************************************************)
EXTENDS Integers, Sequences, FiniteSets

CONSTANTS
    Names,      \* tool ids that tasks and rules name, registered or not
    Tools,      \* the ids of the registry
    Goals,      \* goals that have a planning rule
    Rules,      \* per goal, the wish its rule stands for
    Tasks,      \* tasks that clients submit
    None

VARIABLES
    available,  \* tools whose availability is AVAILABLE
    task,       \* the wish being planned, or None
    order,      \* the tools placed so far
    layer       \* of the layer being placed, what is left

-----------------------------------------------------------------------------

\* specs: the tools asked for, and the tools each of them depends on.
Wish == [tools : Seq(Names), needs : [Names -> SUBSET Names]]

\* An AgentTask as the planner reads it: metadata "requested_tools" with their
\* "dependencies" (no tools: absent), metadata "goal", and the goals whose
\* keywords the description contains.
ASSUME PlannerAssumption ==
    /\ Names \subseteq Nat
    /\ Tools \subseteq Names
    /\ Rules \in [Goals -> Wish]
    /\ \A t \in Tasks : /\ t.wish \in Wish
                        /\ t.mentions \subseteq Goals
    /\ None \notin Wish

Wanted(wish) == {wish.tools[i] : i \in DOMAIN wish.tools}

\* _resolve_goal
GoalsOf(t) == IF t.goal # None THEN {t.goal} \cap Goals ELSE t.mentions

\* _select
Selected(t) ==
    IF t.wish.tools # <<>> THEN t.wish ELSE Rules[CHOOSE g \in GoalsOf(t) : TRUE]

\* UNSUPPORTED_TASK: no goal, or more than one.  INVALID_PLAN: a rule
\* without steps, a tool asked for twice.
Selectable(t) ==
    /\ \/ t.wish.tools # <<>>
       \/ Cardinality(GoalsOf(t)) = 1 /\ Selected(t).tools # <<>>
    /\ LET tools == Selected(t).tools IN
       \A i, j \in DOMAIN tools : tools[i] = tools[j] => i = j

\* TOOL_NOT_FOUND, TOOL_UNAVAILABLE
Resolvable(wish) == Wanted(wish) \subseteq available

\* DEPENDENCY_ERROR before the sort: an unknown tool, or itself
NeedsKnown(wish) ==
    \A n \in Wanted(wish) : wish.needs[n] \subseteq Wanted(wish) \ {n}

-----------------------------------------------------------------------------

Placed == {order[i] : i \in DOMAIN order}
Remaining == Wanted(task) \ Placed

\* Mutant of Ready: one dependency in place is enough.
SomeNeedPlaced ==
    {n \in Remaining : task.needs[n] = {} \/ task.needs[n] \cap Placed # {}}

Ready == {n \in Remaining : task.needs[n] \subseteq Placed}

PlannerInit == task = None /\ order = <<>> /\ layer = {}

\* The other outcome is an error to the client, and changes nothing.
BeginPlan(t) ==
    /\ task = None
    /\ Selectable(t)
    /\ Resolvable(Selected(t))
    /\ NeedsKnown(Selected(t))
    /\ task' = Selected(t)
    /\ order' = <<>>
    /\ layer' = {}

NextLayer ==
    /\ task # None
    /\ layer = {}
    /\ Ready # {}
    /\ layer' = Ready
    /\ UNCHANGED <<task, order>>

PlaceNext ==
    \E n \in layer :
        /\ \A m \in layer : n <= m
        /\ order' = Append(order, n)
        /\ layer' = layer \ {n}
        /\ UNCHANGED task

\* DEPENDENCY_ERROR: a circular dependency among what remains
Circular ==
    /\ task # None
    /\ layer = {}
    /\ Remaining # {}
    /\ Ready = {}
    /\ task' = None
    /\ order' = <<>>
    /\ UNCHANGED layer

Sorted == task # None /\ layer = {} /\ Remaining = {}

\* AgentPlan: the tools in sequence, and the earlier steps each depends on.
Plan == [tools : Seq(Names), needs : Seq(SUBSET Nat)]

\* _build_steps
PlanOf(wish, tools) ==
    [tools |-> tools,
     needs |-> [i \in 1..Len(tools) |->
                   {j \in 1..Len(tools) : tools[j] \in wish.needs[tools[i]]}]]

-----------------------------------------------------------------------------

\* Every member of some set of tools waits for another member of it.
HasCycle(wish) ==
    \E knot \in (SUBSET Wanted(wish)) \ {{}} :
        \A n \in knot : wish.needs[n] \cap knot # {}

\* The plan holds what was asked for, each tool once, and nothing before
\* what it depends on.
Realises(p, wish) ==
    /\ {p.tools[i] : i \in DOMAIN p.tools} = Wanted(wish)
    /\ \A i, j \in DOMAIN p.tools :
          /\ p.tools[i] = p.tools[j] => i = j
          /\ p.tools[j] \in wish.needs[p.tools[i]] <=> j \in p.needs[i]
          /\ j \in p.needs[i] => j < i

=============================================================================
