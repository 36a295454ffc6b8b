-------------------------- MODULE WorkflowSession --------------------------
(***************************************************************************)
(* One run of a validated workflow (WorkflowSession, WorkflowExecution and *)
(* WorkflowCheckpoint in app/workflow/models.py).  The program has no      *)
(* runtime yet; the one that calls these operations is external and walks  *)
(* the graph: it follows any transition of the current step, may report a  *)
(* step's completion again after a lost answer, and may ask for any change *)
(* of state at any time, most of which transition() refuses.               *)
(***************************************************************************)
EXTENDS WorkflowDefinition

CONSTANTS
    MaxEvents       \* bound: events of a session

VARIABLES
    session         \* the session, or None before it is created

vars == <<definition, phase, colour, frames, cyclic, seen, stack, issues, session>>

ASSUME SessionAssumption == MaxEvents \in Nat

WorkflowState ==
    {"CREATED", "RUNNING", "WAITING", "PAUSED", "COMPLETED", "FAILED", "CANCELLED"}

Terminal == {"COMPLETED", "FAILED", "CANCELLED"}

\* _ALLOWED
Allowed(state) ==
    CASE state = "CREATED" -> {"RUNNING", "CANCELLED", "FAILED"}
      [] state \in {"RUNNING", "WAITING"} ->
            {"RUNNING", "WAITING", "PAUSED", "COMPLETED", "FAILED", "CANCELLED"} \ {state}
      [] state = "PAUSED" -> {"RUNNING", "CANCELLED", "FAILED"}
      [] state \in Terminal -> {}

\* Mutant of Completed: without the check for the step.
CompletedAgain(steps, step) == Append(steps, step)

\* with_completed
Completed(steps, step) == IF Contains(steps, step) THEN steps ELSE Append(steps, step)

-----------------------------------------------------------------------------

\* create: WorkflowSession, and its execution standing at the initial step.
CreateSession ==
    /\ Valid
    /\ session = None
    /\ session' = [state |-> "CREATED", current |-> definition.initial_step,
                   completed |-> <<>>, log |-> <<>>, checkpoint |-> None]
    /\ UNCHANGED validatorVars

\* transition(target); one that is not allowed raises and leaves no trace.
Transition(target) ==
    /\ session # None
    /\ target \in Allowed(session.state)
    /\ session' = [session EXCEPT !.state = target]
    /\ UNCHANGED validatorVars

\* with_execution(with_completed, with_current_step) and record_event.
WalkTo(step) ==
    /\ session # None
    /\ session.state = "RUNNING"
    /\ step \in Successors(definition, session.current)
    /\ session' = [session EXCEPT !.completed = Completed(@, session.current),
                                  !.current = step,
                                  !.log = IF Len(@) < MaxEvents
                                          THEN Append(@, session.current) ELSE @]
    /\ UNCHANGED validatorVars

\* The completion of a step is reported, perhaps not for the first time.
ReportCompleted(step) ==
    /\ session # None
    /\ session.state = "RUNNING"
    /\ Len(session.log) < MaxEvents
    /\ \/ step = session.current /\ Sink(definition, step)
       \/ Contains(session.completed, step)
    /\ session' = [session EXCEPT !.completed = Completed(@, step),
                                  !.log = Append(@, step)]
    /\ UNCHANGED validatorVars

\* with_checkpoint(create(state, execution, event_cursor))
TakeCheckpoint ==
    /\ session # None
    /\ session' = [session EXCEPT !.checkpoint =
                     [state |-> session.state, current |-> session.current,
                      completed |-> session.completed, cursor |-> Len(session.log)]]
    /\ session' # session
    /\ UNCHANGED validatorVars

Init == ValidatorInit /\ session = None

Walk == \E step \in Ids(definition) : WalkTo(step)

Next ==
    \/ ValidatorStep /\ UNCHANGED session
    \/ CreateSession
    \/ \E target \in WorkflowState : Transition(target)
    \/ Walk
    \/ \E step \in Ids(definition) : ReportCompleted(step)
    \/ TakeCheckpoint

Spec == Init /\ [][Next]_vars

\* The runtime of a running session goes on.
FairSpec == Spec /\ WF_vars(Walk)

-----------------------------------------------------------------------------
(* Properties *)

Running == session # None /\ session.state = "RUNNING"

\* A definition that validates can be run: whichever transitions are taken, a
\* running session stops running or arrives at a step that nothing follows
\* (the checks 6 and 8 of definition.py:192-209 are there for it).
RunReachesItsEnd == Running ~> (~Running \/ Sink(definition, session.current))

\* However often completions are reported and states asked for, a run that has
\* ended stays as it ended, the list of completed steps and the log only grow,
\* no step is completed twice, and a checkpoint is a state that the session was
\* in: nothing that it holds is missing from the session that goes on.
RunKeepsItsRecord ==
    [][session # None =>
         /\ session.state \in Terminal => session'.state = session.state
         /\ IsPrefix(session.completed, session'.completed)
         /\ IsPrefix(session.log, session'.log)
         /\ Repeated(session'.completed) = {}
         /\ session'.checkpoint # None =>
              /\ IsPrefix(session'.checkpoint.completed, session'.completed)
              /\ session'.checkpoint.cursor <= Len(session'.log)
              /\ ToSteps(SubSeq(session'.log, 1, session'.checkpoint.cursor))
                   \subseteq ToSteps(session'.checkpoint.completed)]_vars

=============================================================================
