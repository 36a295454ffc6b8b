------------------------------- MODULE Agent -------------------------------
(***************************************************************************)
(* The agent pipeline (app/api/agent.py): plan, authorize, execute.  The   *)
(* server keeps nothing between the three but the sessions: a client holds *)
(* the plan and the authorization it was given, sends them back, and may   *)
(* hold on to them over a restart, a new release with another catalog      *)
(* included.  The client here keeps one plan and one authorization, which  *)
(* need not belong together, and lets go of a plan when it asks for the    *)
(* next.                                                                   *)
(***************************************************************************)
EXTENDS Executor

CONSTANTS
    Catalogs,       \* what the releases of the program make available
    Sessions,       \* ids of sessions
    MaxRestarts     \* bound: restarts of the process

VARIABLES
    plan,           \* the plan a client holds, or None
    authorization,  \* the authorization a client holds, or None
    sessions,       \* per id, the state of the session, or None before
    restarts        \* how often the process was started again

vars == <<available, task, order, layer, run, plan, authorization, sessions, restarts>>

ASSUME AgentAssumption ==
    /\ \A catalog \in Catalogs : catalog \subseteq Tools
    /\ MaxRestarts \in Nat
    /\ None \notin Plan

\* The event loop serves one request at a time.
Free == task = None /\ run = None

Init ==
    /\ available \in Catalogs
    /\ PlannerInit
    /\ run = None
    /\ plan = None
    /\ authorization = None
    /\ sessions = [s \in Sessions |-> None]
    /\ restarts = 0

-----------------------------------------------------------------------------
(* POST and DELETE /agent/session: kept in memory, under a fresh id; *)
(* dropped by the second, and by the end of the process.              *)

CreateSession(s) ==
    /\ Free
    /\ sessions[s] = None
    /\ sessions' = [sessions EXCEPT ![s] = "CREATED"]
    /\ UNCHANGED <<available, task, order, layer, run, plan, authorization, restarts>>

DeleteSession(s) ==
    /\ Free
    /\ sessions[s] \in {"CREATED", "PLANNING"}
    /\ sessions' = [sessions EXCEPT ![s] = "DROPPED"]
    /\ UNCHANGED <<available, task, order, layer, run, plan, authorization, restarts>>

-----------------------------------------------------------------------------
(* POST /agent/plan *)

AskForPlan(t) ==
    /\ Free
    /\ BeginPlan(t)
    /\ plan' = None
    /\ UNCHANGED <<available, run, authorization, sessions, restarts>>

SortTools ==
    /\ NextLayer \/ PlaceNext
    /\ UNCHANGED <<available, run, plan, authorization, sessions, restarts>>

RefusePlan ==
    /\ Circular
    /\ UNCHANGED <<available, run, plan, authorization, sessions, restarts>>

\* _maybe_attach_plan: a session that has just been created is planning now;
\* any other, or none, is left alone.
Attached(s) ==
    IF s \in Sessions /\ sessions[s] = "CREATED"
    THEN [sessions EXCEPT ![s] = "PLANNING"] ELSE sessions

AnswerPlan(s) ==
    /\ Sorted
    /\ plan' = PlanOf(task, order)
    /\ sessions' = Attached(s)
    /\ task' = None
    /\ order' = <<>>
    /\ UNCHANGED <<available, layer, run, authorization, restarts>>

-----------------------------------------------------------------------------
(* POST /agent/authorize and /agent/execute *)

Authorize(policy) ==
    /\ Free
    /\ plan # None
    /\ \A i \in DOMAIN plan.tools : plan.tools[i] \in Tools
    /\ authorization' = Authorization(policy, plan.tools)
    /\ UNCHANGED <<available, task, order, layer, run, plan, sessions, restarts>>

Execute(grants) ==
    /\ Free
    /\ plan # None
    /\ authorization # None
    /\ \A i \in DOMAIN plan.tools : plan.tools[i] \in Tools
    /\ BeginRun(plan, authorization, grants)
    /\ UNCHANGED <<available, task, order, layer, plan, authorization, sessions, restarts>>

ExecuteStep ==
    /\ RunStep \/ EndRun
    /\ UNCHANGED <<available, task, order, layer, plan, authorization, sessions, restarts>>

-----------------------------------------------------------------------------

\* The process ends, in a request perhaps, and another release of it starts.
Restart ==
    /\ restarts < MaxRestarts
    /\ restarts' = restarts + 1
    /\ available' \in Catalogs
    /\ task' = None
    /\ order' = <<>>
    /\ layer' = {}
    /\ run' = None
    /\ sessions' = [s \in Sessions |-> IF sessions[s] = None THEN None ELSE "DROPPED"]
    /\ UNCHANGED <<plan, authorization>>

ClientStep ==
    \/ \E s \in Sessions : CreateSession(s) \/ DeleteSession(s)
    \/ \E t \in Tasks : AskForPlan(t)
    \/ \E policy \in Policies : Authorize(policy)
    \/ \E grants \in SUBSET Tools : Execute(grants)

ServerStep ==
    \/ SortTools
    \/ RefusePlan
    \/ \E s \in Sessions \cup {None} : AnswerPlan(s)
    \/ ExecuteStep

Next == ClientStep \/ ServerStep \/ Restart

Spec == Init /\ [][Next]_vars

\* A handler that has begun goes on: it awaits nothing, and a tool that is
\* invoked returns or raises.
FairSpec == Spec /\ WF_vars(ServerStep)

-----------------------------------------------------------------------------
(* Properties *)

TypeOK ==
    /\ available \subseteq Tools
    /\ task \in Wish \cup {None}
    /\ order \in Seq(Names)
    /\ layer \subseteq Names
    /\ run \in Run \cup {None}
    /\ plan \in Plan \cup {None}
    /\ authorization \in [tools : Seq(Names), levels : Seq(Level)] \cup {None}
    /\ sessions \in [Sessions -> {None, "CREATED", "PLANNING", "DROPPED"}]
    /\ restarts \in Nat

\* A plan that is handed out holds exactly the tools that were asked for,
\* each once, every tool after all it depends on (planner.py:13-14).
PlanFitsTask == [][plan' # plan /\ plan' # None => Realises(plan', task)]_vars

\* A task is turned down as circular only if some of its tools do wait for
\* each other.
RefusedOnlyIfCircular ==
    [][task # None /\ task' = None /\ plan' = None /\ restarts' = restarts
       => HasCycle(task)]_vars

Started(step) == \E k \in DOMAIN run.audit : run.audit[k] = [event |-> "started", step |-> step]
Succeeded(step) == step \in DOMAIN run.outcomes /\ run.outcomes[step] = "SUCCESS"

\* Whatever the policy said, however old the plan and the authorization: a
\* tool that was invoked is available, was not denied, had the client's grant
\* in this very request if it changes state, and ran after every step it
\* depends on, directly or not, had succeeded (executor.py:14-16).
OnlySettledWork ==
    run # None =>
        \A step \in DOMAIN run.outcomes :
            Started(step) \/ Succeeded(step) =>
                /\ run.plan.tools[step] \in available
                /\ run.levels[step] # "DENIED"
                /\ run.plan.tools[step] \in Restricted => run.plan.tools[step] \in run.granted
                /\ \A d \in run.plan.needs[step] : d < step /\ Succeeded(d)

ClosingEvent(outcome) ==
    CASE outcome = "SUCCESS" -> "completed" [] outcome = "SKIPPED" -> "skipped"
      [] outcome = "DENIED" -> "denied" [] outcome = "FAILED" -> "failed"

Closes(entry) == entry.event # "started"

\* The audit trail tells the run: one closing entry per step in the order of
\* the plan with the outcome of the step, an invocation announced directly
\* before it; and a run is a success as a whole exactly if each of its tools
\* has left an output.
AuditTellsTheRun ==
    run # None =>
        /\ \A k \in DOMAIN run.audit :
              Closes(run.audit[k]) =>
                  /\ run.audit[k].step \in DOMAIN run.outcomes
                  /\ run.audit[k].event = ClosingEvent(run.outcomes[run.audit[k].step])
                  /\ \A j \in 1..(k - 1) :
                        Closes(run.audit[j]) => run.audit[j].step < run.audit[k].step
        /\ \A i \in DOMAIN run.outcomes :
              \E k \in DOMAIN run.audit : Closes(run.audit[k]) /\ run.audit[k].step = i
        /\ \A k \in DOMAIN run.audit :
              run.audit[k].event = "started" =>
                  /\ k < Len(run.audit)
                  /\ run.audit[k + 1].event \in {"completed", "failed"}
                  /\ run.audit[k + 1].step = run.audit[k].step
        /\ Current > Len(run.plan.tools) =>
              (Overall(run.outcomes) = "SUCCESS"
               <=> run.outputs = {run.plan.tools[i] : i \in DOMAIN run.plan.tools})

\* No request keeps the process for ever: the sort ends, whatever the
\* dependencies, and so does the execution.
EveryRequestEnds == ~Free ~> Free

=============================================================================
