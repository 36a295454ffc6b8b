------------------------- MODULE WorkflowDefinition -------------------------
(***************************************************************************)
(* Workflow definitions and their validator (app/workflow/definition.py    *)
(* and the definition part of models.py).  A definition is a graph of      *)
(* steps; the validator collects issues about its shape, then colours the  *)
(* graph depth first to find a cycle and searches it from the initial      *)
(* step.  Both searches are modelled iteration by iteration.               *)
(*                                                                         *)
(* The issues are a set of codes with their subjects: their order and      *)
(* their messages are left out.  Ids are numbers, for their order.         *)
(***************************************************************************)
EXTENDS Integers, FiniteSets, SequencesExt

CONSTANTS
    Definitions,    \* the definitions that callers come with
    None,           \* a field that is not there
    IllTyped        \* a field of another type

VARIABLES
    definition,     \* the definition at hand
    phase,          \* how far its validation is
    colour,         \* _has_cycle: per known step
    frames,         \* _has_cycle: the open calls of visit, with what each has left to do
    cyclic,         \* _has_cycle: its answer
    seen,           \* _reachable_from: steps seen
    stack,          \* _reachable_from: steps to look at
    issues          \* the codes, each with its subject

validatorVars == <<definition, phase, colour, frames, cyclic, seen, stack, issues>>

-----------------------------------------------------------------------------
(* Steps, transitions, definitions *)

ToSteps(seq) == {seq[i] : i \in 1..Len(seq)}

Ids(d) == {s.step_id : s \in ToSteps(d.steps)}

Repeated(seq) == {seq[i] : i \in {j \in 1..Len(seq) : \E k \in 1..(j - 1) : seq[k] = seq[j]}}

\* What callers come with has the fields of a definition; its ids have an order.
ASSUME DefinitionsAssumption ==
    \A d \in Definitions :
        /\ DOMAIN d = {"steps", "transitions", "initial_step", "metadata"}
        /\ d.steps \in Seq(ToSteps(d.steps))
        /\ Ids(d) \subseteq Int

StepIds(d) == [i \in 1..Len(d.steps) |-> d.steps[i].step_id]

\* _validate_definition, which create() runs and from_dict() does not.
Coherent(d) ==
    /\ d.steps # <<>>
    /\ Repeated(StepIds(d)) = {}
    /\ d.initial_step = None \/ d.initial_step \in Ids(d)
    /\ \A t \in ToSteps(d.transitions) : t.from_step \in Ids(d) /\ t.to_step \in Ids(d)

\* create(): without an initial step, the first one.
WithInitialStep(d) ==
    IF d.initial_step = None THEN [d EXCEPT !.initial_step = d.steps[1].step_id] ELSE d

\* kinds: of steps that share an id, the last one's.
KindOf(d, id) == d.steps[CHOOSE i \in 1..Len(d.steps) :
                            /\ d.steps[i].step_id = id
                            /\ \A j \in (i + 1)..Len(d.steps) : d.steps[j].step_id # id].kind

-----------------------------------------------------------------------------
(* Issues that are read off the definition *)

Issue(code, subjects) == {[code |-> code, subject |-> s] : s \in subjects}

ShapeIssues(d) ==
    Issue("INVALID_WORKFLOW", IF d.steps = <<>> THEN {None} ELSE {})
    \cup Issue("DUPLICATE_STEP", Repeated(StepIds(d)))
    \cup Issue("INVALID_INITIAL_STEP",
               IF d.steps # <<>> /\ d.initial_step \notin Ids(d) THEN {d.initial_step} ELSE {})

TransitionIssues(d) ==
    LET ends == UNION {{t.from_step, t.to_step} : t \in ToSteps(d.transitions)}
        loops == {t \in ToSteps(d.transitions) : t.from_step = t.to_step}
        leaving == {t \in ToSteps(d.transitions) \ loops :
                       t.from_step \in Ids(d) /\ KindOf(d, t.from_step) = "TERMINAL"}
    IN  Issue("UNKNOWN_STEP", ends \ Ids(d))
        \cup Issue("INVALID_TRANSITION", {t.from_step : t \in loops \cup leaving})
        \cup Issue("DUPLICATE_TRANSITION", Repeated(d.transitions))

\* A number that is at least (or above) zero; numbers are integers here.
AtLeastZero(x) == x \notin {None, IllTyped} /\ x >= 0
AboveZero(x) == x \notin {None, IllTyped} /\ x > 0

BadRetry(policy) ==
    \/ policy = IllTyped
    \/ ~AtLeastZero(policy.max_attempts)
    \/ policy.backoff_seconds # None /\ ~AtLeastZero(policy.backoff_seconds)
    \/ policy.strategy \notin {None, "fixed", "exponential", "linear"}

BadTimeout(policy) == policy = IllTyped \/ ~AboveZero(policy.seconds)

BadRollback(policy) ==
    \/ policy = IllTyped
    \/ policy.hook \in {None, IllTyped, ""}
    \/ policy.on \notin {None, "failure", "cancel", "timeout"}

BadPolicies(config) ==
    \/ config.retry # None /\ BadRetry(config.retry)
    \/ config.timeout # None /\ BadTimeout(config.timeout)
    \/ config.rollback # None /\ BadRollback(config.rollback)

StepIssues(d) ==
    Issue("INVALID_POLICY", {s.step_id : s \in {t \in ToSteps(d.steps) : BadPolicies(t.config)}}
                            \cup IF BadPolicies(d.metadata) THEN {None} ELSE {})
    \cup Issue("INVALID_AGENT_TASK",
               {s.step_id : s \in {t \in ToSteps(d.steps) :
                                      t.kind = "TASK" /\ t.agent_task \in {None, IllTyped, ""}}})

-----------------------------------------------------------------------------
(* The graph of the known steps *)

\* adjacency: self-loops and unknown ends are left out.
Successors(d, n) ==
    {t.to_step : t \in {e \in ToSteps(d.transitions) : e.from_step = n}} \cap (Ids(d) \ {n})

Ascending(set) ==
    [i \in 1..Cardinality(set) |->
        CHOOSE n \in set : Cardinality({m \in set : m < n}) = i - 1]

Sink(d, n) == KindOf(d, n) = "TERMINAL" \/ Successors(d, n) = {}

-----------------------------------------------------------------------------
(* Steps *)

\* create() refuses an incoherent definition; from_dict() takes any.
Take(stored) ==
    /\ phase = "new"
    /\ \/ /\ stored
          /\ definition.initial_step # None
          /\ phase' = "shape"
          /\ UNCHANGED definition
       \/ /\ ~stored
          /\ Coherent(definition)
          /\ phase' = "shape"
          /\ definition' = WithInitialStep(definition)
       \/ /\ ~stored
          /\ ~Coherent(definition)
          /\ phase' = "refused"
          /\ UNCHANGED definition
    /\ UNCHANGED <<colour, frames, cyclic, seen, stack, issues>>

\* Everything of validate() that needs no search, the searches' start included.
CheckShape ==
    /\ phase = "shape"
    /\ issues' = ShapeIssues(definition) \cup TransitionIssues(definition)
                 \cup StepIssues(definition)
    /\ colour' = [n \in Ids(definition) |-> "WHITE"]
    /\ phase' = "colour"
    /\ UNCHANGED <<definition, frames, cyclic, seen, stack>>

\* Mutant of MeetsCycle: only an edge back to the start of the search counts.
MeetsRoot(n) == frames # <<>> /\ n = frames[1].node

MeetsCycle(n) == colour[n] = "GREY"

OpenFrame(n) == [node |-> n, left |-> Ascending(Successors(definition, n))]

\* any(...): the next white step, or the end of the search.
VisitRoot ==
    /\ phase = "colour" /\ frames = <<>> /\ ~cyclic
    /\ LET white == {n \in DOMAIN colour : colour[n] = "WHITE"}
           root == Ascending(white)[1]
       IN  IF white = {}
           THEN /\ phase' = "coloured"
                /\ UNCHANGED <<colour, frames>>
           ELSE /\ colour' = [colour EXCEPT ![root] = "GREY"]
                /\ frames' = <<OpenFrame(root)>>
                /\ UNCHANGED phase
    /\ UNCHANGED <<definition, cyclic, seen, stack, issues>>

\* One turn of visit()'s loop, in the innermost call.
VisitNext ==
    /\ phase = "colour" /\ frames # <<>>
    /\ LET top == Last(frames)
           rest == [frames EXCEPT ![Len(frames)].left = Tail(@)]
       IN  IF top.left = <<>>
           THEN /\ colour' = [colour EXCEPT ![top.node] = "BLACK"]
                /\ frames' = Front(frames)
                /\ UNCHANGED <<phase, cyclic>>
           ELSE IF MeetsCycle(top.left[1])
           THEN /\ cyclic' = TRUE
                /\ phase' = "coloured"
                /\ UNCHANGED <<colour, frames>>
           ELSE /\ IF colour[top.left[1]] = "WHITE"
                   THEN /\ colour' = [colour EXCEPT ![top.left[1]] = "GREY"]
                        /\ frames' = Append(rest, OpenFrame(top.left[1]))
                   ELSE /\ frames' = rest
                        /\ UNCHANGED colour
                /\ UNCHANGED <<phase, cyclic>>
    /\ UNCHANGED <<definition, seen, stack, issues>>

\* Mutant of CycleIssue: the answer of _has_cycle is not asked for.
CycleIgnored == {}

CycleIssue == IF cyclic THEN Issue("CYCLIC_GRAPH", {None}) ELSE {}

BeginSearch ==
    /\ phase = "coloured"
    /\ issues' = issues \cup CycleIssue
    /\ IF definition.initial_step \in Ids(definition)
       THEN stack' = <<definition.initial_step>> /\ phase' = "search"
       ELSE phase' = "done" /\ UNCHANGED stack
    /\ UNCHANGED <<definition, colour, frames, cyclic, seen>>

\* One turn of _reachable_from's loop.
SearchNext ==
    /\ phase = "search" /\ stack # <<>>
    /\ seen' = seen \cup {Last(stack)}
    /\ stack' = IF Last(stack) \in seen THEN Front(stack)
                ELSE Front(stack) \o Ascending(Successors(definition, Last(stack)))
    /\ UNCHANGED <<definition, phase, colour, frames, cyclic, issues>>

EndSearch ==
    /\ phase = "search" /\ stack = <<>>
    /\ issues' = issues
         \cup Issue("UNREACHABLE_STEP", Ids(definition) \ seen)
         \cup Issue("NO_TERMINAL_STEP",
                    IF \E n \in seen : Sink(definition, n) THEN {} ELSE {None})
    /\ phase' = "done"
    /\ UNCHANGED <<definition, colour, frames, cyclic, seen, stack>>

ValidatorInit ==
    /\ definition \in Definitions
    /\ phase = "new"
    /\ colour = <<>> /\ frames = <<>> /\ cyclic = FALSE
    /\ seen = {} /\ stack = <<>>
    /\ issues = {}

ValidatorStep ==
    \/ \E stored \in BOOLEAN : Take(stored)
    \/ CheckShape
    \/ VisitRoot \/ VisitNext
    \/ BeginSearch \/ SearchNext \/ EndSearch

Valid == phase = "done" /\ issues = {}

-----------------------------------------------------------------------------
(* Properties *)

\* The graph as the definition states it.
Knotted(d, set) == set # {} /\ \A n \in set : Successors(d, n) \cap set # {}
Closed(d, set) == \A n \in set : Successors(d, n) \subseteq set
Reachable(d) == {n \in Ids(d) : \A set \in SUBSET Ids(d) :
                    d.initial_step \in set /\ Closed(d, set) => n \in set}

\* The two searches say what the graph says: CYCLIC_GRAPH if and only if some
\* steps lead to each other for ever, UNREACHABLE_STEP for exactly the steps
\* outside every closed set around the initial one, and NO_TERMINAL_STEP only
\* of a graph with a cycle; and a definition that create() took, or that has
\* been stored since, has no issue that create() refuses.
VerdictIsRight ==
    phase = "done" =>
        LET codes == {i.code : i \in issues}
        IN  /\ "CYCLIC_GRAPH" \in codes
                 <=> \E set \in SUBSET Ids(definition) : Knotted(definition, set)
            /\ definition.initial_step \in Ids(definition) =>
                 {i.subject : i \in {j \in issues : j.code = "UNREACHABLE_STEP"}}
                   = Ids(definition) \ Reachable(definition)
            /\ "NO_TERMINAL_STEP" \in codes => "CYCLIC_GRAPH" \in codes
            /\ Coherent(definition) =>
                 codes \cap {"INVALID_WORKFLOW", "DUPLICATE_STEP", "UNKNOWN_STEP",
                             "INVALID_INITIAL_STEP"} = {}

=============================================================================
