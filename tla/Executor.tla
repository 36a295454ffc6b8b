------------------------------ MODULE Executor ------------------------------
(***************************************************************************)
(* app/agent/permissions.py, what a policy and the metadata of a tool make *)
(* of a step, and app/agent/executor.py: Executor.execute as one step of   *)
(* the plan after another.  A request for approval is identified by its    *)
(* tool alone, and an audit entry by its event and the step it is about.   *)
(***************************************************************************)
EXTENDS Planner

CONSTANTS
    Writes,     \* tools of capability WRITE
    Restricted, \* tools that set permission_required
    Policies    \* policies that clients send, and the default one

VARIABLES run       \* the execution in progress, or None

-----------------------------------------------------------------------------
(* Permissions *)

\* PermissionLevel
Level == {"ALLOWED", "APPROVAL_REQUIRED", "DENIED"}

\* A rule is the set of tools its matchers (id, category, capability) select,
\* and a level.
Rule == [selects : SUBSET Nat, level : Level]
Policy == [rules : Seq(Rule), fallback : Level]

ASSUME PermissionsAssumption ==
    /\ Writes \subseteq Restricted
    /\ Restricted \subseteq Nat
    /\ Policies \subseteq Policy

Severity(level) ==
    CASE level = "ALLOWED" -> 0 [] level = "APPROVAL_REQUIRED" -> 1 [] level = "DENIED" -> 2

\* Mutant of Strictest: the policy has the last word.
PolicyWins(a, b) == a

Strictest(a, b) == IF Severity(a) >= Severity(b) THEN a ELSE b

Floor(tool) ==
    IF tool \in Writes \cup Restricted THEN "APPROVAL_REQUIRED" ELSE "ALLOWED"

\* PermissionPolicy.resolve: the first rule that matches, else the default.
PolicyLevel(policy, tool) ==
    LET First(i) == /\ tool \in policy.rules[i].selects
                    /\ \A j \in 1..(i - 1) : tool \notin policy.rules[j].selects
    IN IF \E i \in DOMAIN policy.rules : First(i)
       THEN policy.rules[CHOOSE i \in DOMAIN policy.rules : First(i)].level
       ELSE policy.fallback

\* _evaluate_step
StepLevel(policy, tool) == Strictest(PolicyLevel(policy, tool), Floor(tool))

\* PermissionEngine.evaluate.  An authorization names its plan by a hash of
\* the sequence of tools: dependencies do not enter it.
Authorization(policy, tools) ==
    [tools |-> tools,
     levels |-> [i \in 1..Len(tools) |-> StepLevel(policy, tools[i])]]

-----------------------------------------------------------------------------
(* Execution *)

Outcome == {"SUCCESS", "SKIPPED", "DENIED", "FAILED"}
Event == {"started", "completed", "skipped", "denied", "failed"}

Run == [plan : Plan, levels : Seq(Level), granted : SUBSET Names,
        outcomes : Seq(Outcome), outputs : SUBSET Names,
        audit : Seq([event : Event, step : Nat])]

\* _validate, and the approvals the execute route builds: of the ids that the
\* client granted, those the authorization requests.
BeginRun(p, a, grants) ==
    /\ run = None
    /\ a.tools = p.tools
    /\ run' = [plan |-> p, levels |-> a.levels,
               granted |-> {p.tools[i] : i \in {j \in DOMAIN p.tools :
                               /\ a.levels[j] = "APPROVAL_REQUIRED"
                               /\ p.tools[j] \in grants}},
               outcomes |-> <<>>, outputs |-> {}, audit |-> <<>>]

Current == Len(run.outcomes) + 1
CurrentTool == run.plan.tools[Current]
Running == run # None /\ Current <= Len(run.plan.tools)

Denied == run.levels[Current] = "DENIED"

Blocked == \E d \in run.plan.needs[Current] : run.outcomes[d] # "SUCCESS"

Unapproved ==
    /\ run.levels[Current] = "APPROVAL_REQUIRED"
    /\ CurrentTool \notin run.granted

\* One step is over: its record, its audit entries, its output if it has one.
Record(outcome, events, produced) ==
    run' = [run EXCEPT !.outcomes = Append(@, outcome),
                       !.outputs = @ \cup produced,
                       !.audit = @ \o [k \in 1..Len(events) |->
                                          [event |-> events[k], step |-> Current]]]

Deny == Running /\ Denied /\ Record("DENIED", <<"denied">>, {})

\* Mutant of Skip: a step without its approval waits for it.
WaitForApproval == Running /\ ~Denied /\ Blocked /\ Record("SKIPPED", <<"skipped">>, {})

Skip ==
    /\ Running
    /\ ~Denied
    /\ Blocked \/ Unapproved
    /\ Record("SKIPPED", <<"skipped">>, {})

Eligible == Running /\ ~Denied /\ ~Blocked /\ ~Unapproved

Unavailable == Eligible /\ CurrentTool \notin available /\ Record("FAILED", <<"failed">>, {})

\* Mutant of Completes: the audit is written after the tool returned.
LateStart ==
    Eligible /\ CurrentTool \in available
             /\ Record("SUCCESS", <<"completed", "started">>, {CurrentTool})

Completes ==
    Eligible /\ CurrentTool \in available
             /\ Record("SUCCESS", <<"started", "completed">>, {CurrentTool})

\* The tool raises, or reports a failure.
Fails ==
    Eligible /\ CurrentTool \in available
             /\ Record("FAILED", <<"started", "failed">>, {})

RunStep == Deny \/ Skip \/ Unavailable \/ Completes \/ Fails

EndRun == run # None /\ Current > Len(run.plan.tools) /\ run' = None

\* ExecutionResult.create: the worst outcome of a step
OutcomeSeverity(outcome) ==
    CASE outcome = "SUCCESS" -> 0 [] outcome = "SKIPPED" -> 1
      [] outcome = "DENIED" -> 2 [] outcome = "FAILED" -> 3

Overall(outcomes) ==
    LET seen == {"SUCCESS"} \cup {outcomes[i] : i \in DOMAIN outcomes} IN
    CHOOSE o \in seen : \A other \in seen : OutcomeSeverity(other) <= OutcomeSeverity(o)

=============================================================================
