---------------------------- MODULE Agent_proofs ----------------------------
(***************************************************************************)
(* The agent pipeline for any registry, rules, tasks, policies, catalogs,  *)
(* sessions and number of restarts: plans are in order, a run does only    *)
(* settled work, and the planner can judge all advice it is given.         *)
(***************************************************************************)
EXTENDS MCAgent, FiniteSetTheorems, NaturalsInduction, WellFoundedInduction, TLAPS

\* A planner that has accepted a task holds a wish.
LEMMA SelectedIsWish ==
    ASSUME NEW t \in Tasks, Selectable(t)
    PROVE  Selected(t) \in Wish
<1>1. CASE t.wish.tools # <<>>
  BY <1>1, PlannerAssumption DEF Selected
<1>2. CASE t.wish.tools = <<>>
  <2>1. Cardinality(GoalsOf(t)) = 1
    BY <1>2 DEF Selectable
  <2>2. GoalsOf(t) # {}
    BY <2>1, FS_EmptySet
  <2>3. GoalsOf(t) \subseteq Goals
    BY PlannerAssumption DEF GoalsOf
  <2>4. (CHOOSE g \in GoalsOf(t) : TRUE) \in Goals
    BY <2>2, <2>3
  <2> QED
    BY <1>2, <2>4, PlannerAssumption DEF Selected
<1> QED
  BY <1>1, <1>2

\* A decision is a level, and no policy lowers a restricted tool to ALLOWED.
LEMMA StepLevelFacts ==
    ASSUME NEW policy \in Policies, NEW tool
    PROVE  /\ StepLevel(policy, tool) \in Level
           /\ tool \in Restricted => StepLevel(policy, tool) # "ALLOWED"
<1> DEFINE First(i) == /\ tool \in policy.rules[i].selects
                       /\ \A j \in 1..(i - 1) : tool \notin policy.rules[j].selects
<1>1. policy \in Policy
  BY PermissionsAssumption
<1>2. PolicyLevel(policy, tool) \in Level
  <2>1. CASE \E i \in DOMAIN policy.rules : First(i)
    <3>1. (CHOOSE i \in DOMAIN policy.rules : First(i)) \in DOMAIN policy.rules
      BY <2>1
    <3>2. policy.rules[CHOOSE i \in DOMAIN policy.rules : First(i)] \in Rule
      BY <1>1, <3>1 DEF Policy
    <3> QED
      BY <2>1, <3>2 DEF PolicyLevel, Rule
  <2>2. CASE ~\E i \in DOMAIN policy.rules : First(i)
    BY <1>1, <2>2 DEF PolicyLevel, Policy
  <2> QED
    BY <2>1, <2>2
<1>3. Floor(tool) \in Level
  BY DEF Floor, Level
<1>4. tool \in Restricted => Floor(tool) = "APPROVAL_REQUIRED"
  BY DEF Floor
<1> QED
  BY <1>2, <1>3, <1>4 DEF StepLevel, Strictest, Severity, Level

-----------------------------------------------------------------------------
(* Types *)

LEMMA InitTyped == Init => TypeOK
  BY AgentAssumption DEF Init, PlannerInit, TypeOK

\* What the sort does to the variables of the planner.
LEMMA PlannerTyped ==
    ASSUME TypeOK,
           \/ \E t \in Tasks : AskForPlan(t)
           \/ SortTools
           \/ RefusePlan
           \/ \E s \in Sessions \cup {None} : AnswerPlan(s)
    PROVE  TypeOK'
<1> USE DEF TypeOK
<1>1. ASSUME NEW t \in Tasks, AskForPlan(t) PROVE TypeOK'
  BY <1>1, SelectedIsWish DEF AskForPlan, BeginPlan
<1>2. ASSUME NextLayer, SortTools PROVE TypeOK'
  <2>1. Ready \subseteq Names
    BY <1>2 DEF NextLayer, Ready, Remaining, Wanted, Wish
  <2> QED
    BY <1>2, <2>1 DEF NextLayer, SortTools
<1>3. ASSUME PlaceNext, SortTools PROVE TypeOK'
  BY <1>3 DEF PlaceNext, SortTools
<1>4. ASSUME RefusePlan PROVE TypeOK'
  BY <1>4 DEF RefusePlan, Circular
<1>5. ASSUME NEW s \in Sessions \cup {None}, AnswerPlan(s) PROVE TypeOK'
  <2>1. PlanOf(task, order) \in Plan
    BY DEF PlanOf, Plan
  <2>2. Attached(s) \in [Sessions -> {None, "CREATED", "PLANNING", "DROPPED"}]
    BY DEF Attached
  <2> QED
    BY <1>5, <2>1, <2>2 DEF AnswerPlan
<1> QED
  BY <1>1, <1>2, <1>3, <1>4, <1>5 DEF SortTools

\* What the two routes before an execution hand out.
LEMMA AuthorizationTyped ==
    ASSUME NEW policy \in Policies, NEW tools \in Seq(Names)
    PROVE  Authorization(policy, tools) \in [tools : Seq(Names), levels : Seq(Level)]
<1>1. \A i \in 1..Len(tools) : StepLevel(policy, tools[i]) \in Level
  BY StepLevelFacts
<1>2. [i \in 1..Len(tools) |-> StepLevel(policy, tools[i])] \in Seq(Level)
  BY <1>1
<1> QED
  BY <1>2 DEF Authorization

LEMMA BeginRunTyped ==
    ASSUME NEW p \in Plan, NEW a \in [tools : Seq(Names), levels : Seq(Level)],
           NEW grants, BeginRun(p, a, grants)
    PROVE  run' \in Run
<1>1. {p.tools[i] : i \in {j \in DOMAIN p.tools : /\ a.levels[j] = "APPROVAL_REQUIRED"
                                                   /\ p.tools[j] \in grants}} \subseteq Names
  BY DEF Plan
<1> QED
  BY <1>1 DEF BeginRun, Run

\* Recording a step keeps the run a run.
LEMMA RecordTyped ==
    ASSUME run \in Run, NEW outcome \in Outcome, NEW events \in Seq(Event),
           NEW produced \in SUBSET Names, Record(outcome, events, produced)
    PROVE  run' \in Run
<1> DEFINE entries == [k \in 1..Len(events) |-> [event |-> events[k], step |-> Current]]
<1>1. Current \in Nat
  BY DEF Current, Run
<1>2. entries \in Seq([event : Event, step : Nat])
  BY <1>1
<1>3. run.audit \o entries \in Seq([event : Event, step : Nat])
  BY <1>2 DEF Run
<1>4. Append(run.outcomes, outcome) \in Seq(Outcome)
  BY DEF Run
<1>5. run.outputs \cup produced \in SUBSET Names
  BY DEF Run
<1>6. run' = [run EXCEPT !.outcomes = Append(run.outcomes, outcome),
                         !.outputs = run.outputs \cup produced,
                         !.audit = run.audit \o entries]
  BY DEF Record
<1> HIDE DEF entries
<1> QED
  BY <1>3, <1>4, <1>5, <1>6 DEF Run

LEMMA RunStepTyped ==
    ASSUME run \in Run, RunStep
    PROVE  run' \in Run
<1>1. Running => CurrentTool \in Names
  BY DEF Running, CurrentTool, Current, Run, Plan
<1>2. /\ <<"denied">> \in Seq(Event) /\ <<"skipped">> \in Seq(Event)
      /\ <<"failed">> \in Seq(Event) /\ <<"started", "failed">> \in Seq(Event)
      /\ <<"started", "completed">> \in Seq(Event)
  BY DEF Event
<1>3. /\ "SUCCESS" \in Outcome /\ "SKIPPED" \in Outcome
      /\ "DENIED" \in Outcome /\ "FAILED" \in Outcome
  BY DEF Outcome
<1>4. {} \in SUBSET Names
  OBVIOUS
<1>5. CASE Deny
  <2>1. Record("DENIED", <<"denied">>, {})
    BY <1>5 DEF Deny
  <2> QED
    BY <1>2, <1>3, <1>4, <2>1, RecordTyped
<1>6. CASE Skip
  <2>1. Record("SKIPPED", <<"skipped">>, {})
    BY <1>6 DEF Skip
  <2> QED
    BY <1>2, <1>3, <1>4, <2>1, RecordTyped
<1>7. CASE Unavailable
  <2>1. Record("FAILED", <<"failed">>, {})
    BY <1>7 DEF Unavailable
  <2> QED
    BY <1>2, <1>3, <1>4, <2>1, RecordTyped
<1>8. CASE Completes
  <2>1. Record("SUCCESS", <<"started", "completed">>, {CurrentTool})
    BY <1>8 DEF Completes
  <2>2. {CurrentTool} \in SUBSET Names
    BY <1>1, <1>8 DEF Completes, Eligible
  <2> QED
    BY <1>2, <1>3, <2>1, <2>2, RecordTyped
<1>9. CASE Fails
  <2>1. Record("FAILED", <<"started", "failed">>, {})
    BY <1>9 DEF Fails
  <2> QED
    BY <1>2, <1>3, <1>4, <2>1, RecordTyped
<1> QED
  BY <1>5, <1>6, <1>7, <1>8, <1>9 DEF RunStep

LEMMA NextTyped == TypeOK /\ [Next]_vars => TypeOK'
<1> SUFFICES ASSUME TypeOK, [Next]_vars PROVE TypeOK'
  OBVIOUS
<1>1. ASSUME NEW s \in Sessions, CreateSession(s) \/ DeleteSession(s) PROVE TypeOK'
  BY <1>1 DEF CreateSession, DeleteSession, TypeOK
<1>2. ASSUME NEW policy \in Policies, Authorize(policy) PROVE TypeOK'
  <2>1. authorization' \in [tools : Seq(Names), levels : Seq(Level)]
    BY <1>2, AuthorizationTyped DEF Authorize, TypeOK, Plan
  <2> QED
    BY <1>2, <2>1 DEF Authorize, TypeOK
<1>3. ASSUME NEW grants \in SUBSET Tools, Execute(grants) PROVE TypeOK'
  <2>1. run' \in Run
    BY <1>3, BeginRunTyped DEF Execute, TypeOK
  <2> QED
    BY <1>3, <2>1 DEF Execute, TypeOK
<1>4. CASE ExecuteStep
  <2>1. RunStep => run # None
    BY DEF RunStep, Deny, Skip, Unavailable, Completes, Fails, Eligible, Running
  <2>2. run' \in Run \cup {None}
    BY <1>4, <2>1, RunStepTyped DEF ExecuteStep, EndRun, TypeOK
  <2> QED
    BY <1>4, <2>2 DEF ExecuteStep, TypeOK
<1>5. CASE Restart
  BY <1>5, AgentAssumption DEF Restart, TypeOK
<1>6. CASE UNCHANGED vars
  BY <1>6 DEF vars, TypeOK
<1> QED
  BY <1>1, <1>2, <1>3, <1>4, <1>5, <1>6, PlannerTyped DEF Next, ClientStep, ServerStep

\* Every state of the pipeline is well typed.
THEOREM TypeCorrect == Spec => []TypeOK
  BY InitTyped, NextTyped, PTL DEF Spec

-----------------------------------------------------------------------------
(* The sort *)

\* The layers respect the dependencies: what is placed, and what may be
\* placed now, has all it depends on placed before.
SortInv ==
    IF task = None THEN order = <<>> /\ layer = {}
    ELSE /\ NeedsKnown(task)
         /\ Placed \subseteq Wanted(task)
         /\ layer \subseteq Remaining
         /\ \A n \in layer : task.needs[n] \subseteq Placed
         /\ \A i, j \in DOMAIN order : order[i] = order[j] => i = j
         /\ \A i \in DOMAIN order : \A m \in task.needs[order[i]] :
               \E j \in DOMAIN order : j < i /\ order[j] = m

LEMMA SortInit == Init => SortInv
  BY DEF Init, PlannerInit, SortInv

\* A layer that is ready depends on what is placed.
LEMMA LayerKept ==
    ASSUME TypeOK, SortInv, NextLayer
    PROVE  SortInv'
<1>1. layer' = Ready /\ task' = task /\ order' = order /\ task # None
  BY DEF NextLayer
<1>2. Ready \subseteq Remaining /\ \A n \in Ready : task.needs[n] \subseteq Placed
  BY DEF Ready
<1>3. Placed' = Placed /\ Remaining' = Remaining
  BY <1>1 DEF Placed, Remaining
<1> HIDE DEF Placed
<1> QED
  BY <1>1, <1>2, <1>3 DEF SortInv

\* A tool that is placed follows all it depends on.
LEMMA PlacedKept ==
    ASSUME TypeOK, SortInv, PlaceNext
    PROVE  SortInv'
<1>1. PICK n \in layer : order' = Append(order, n) /\ layer' = layer \ {n} /\ task' = task
  BY DEF PlaceNext
<1>2. task # None /\ n \in Remaining /\ task.needs[n] \subseteq Placed
  BY <1>1 DEF SortInv
<1>3. order \in Seq(Names) /\ n \in Names
  BY DEF TypeOK
<1>4. /\ DOMAIN order = 1..Len(order) /\ Len(order) \in Nat
      /\ DOMAIN order' = 1..(Len(order) + 1)
      /\ \A i \in 1..Len(order) : order'[i] = order[i]
      /\ order'[Len(order) + 1] = n
  BY <1>1, <1>3
<1>5. Placed' = Placed \cup {n}
  BY <1>4 DEF Placed
<1>6. Remaining' = Remaining \ {n}
  BY <1>1, <1>5 DEF Remaining
<1>7. \A i, j \in DOMAIN order' : order'[i] = order'[j] => i = j
  BY <1>2, <1>4 DEF SortInv, Remaining, Placed
<1>8. \A i \in DOMAIN order' : \A m \in task.needs[order'[i]] :
         \E j \in DOMAIN order' : j < i /\ order'[j] = m
  <2> SUFFICES ASSUME NEW i \in DOMAIN order', NEW m \in task.needs[order'[i]]
               PROVE  \E j \in DOMAIN order' : j < i /\ order'[j] = m
    OBVIOUS
  <2>1. CASE i \in DOMAIN order
    BY <1>2, <1>4, <2>1 DEF SortInv
  <2>2. CASE i = Len(order) + 1
    <3>1. PICK j \in DOMAIN order : order[j] = m
      BY <1>2, <1>4, <2>2 DEF Placed
    <3> QED
      BY <1>4, <2>2, <3>1
  <2> QED
    BY <1>4, <2>1, <2>2
<1>9. /\ NeedsKnown(task') /\ Placed' \subseteq Wanted(task')
      /\ layer' \subseteq Remaining'
      /\ \A k \in layer' : task'.needs[k] \subseteq Placed'
  BY <1>1, <1>2, <1>5, <1>6 DEF SortInv, Remaining
<1> QED
  BY <1>1, <1>2, <1>7, <1>8, <1>9 DEF SortInv

LEMMA SortStep == TypeOK /\ SortInv /\ [Next]_vars => SortInv'
<1> SUFFICES ASSUME TypeOK, SortInv, [Next]_vars PROVE SortInv'
  OBVIOUS
<1>1. ASSUME UNCHANGED <<task, order, layer>> PROVE SortInv'
  BY <1>1 DEF SortInv, Remaining, Placed
<1>2. ASSUME task' = None, order' = <<>>, layer' = {} PROVE SortInv'
  BY <1>2 DEF SortInv
<1>3. ASSUME NEW t \in Tasks, AskForPlan(t) PROVE SortInv'
  <2>1. /\ task' = Selected(t) /\ order' = <<>> /\ layer' = {}
        /\ NeedsKnown(Selected(t)) /\ Selected(t) # None
    BY <1>3, SelectedIsWish, PlannerAssumption DEF AskForPlan, BeginPlan
  <2> QED
    BY <2>1 DEF SortInv, Remaining, Placed
<1>4. CASE SortTools
  BY <1>4, LayerKept, PlacedKept DEF SortTools
<1>5. CASE RefusePlan
  BY <1>2, <1>5 DEF RefusePlan, Circular
<1>6. ASSUME NEW s \in Sessions \cup {None}, AnswerPlan(s) PROVE SortInv'
  BY <1>2, <1>6 DEF AnswerPlan, Sorted
<1>7. CASE ExecuteStep
  BY <1>1, <1>7 DEF ExecuteStep
<1>8. CASE Restart
  BY <1>2, <1>8 DEF Restart
<1>9. ASSUME NEW s \in Sessions, CreateSession(s) \/ DeleteSession(s) PROVE SortInv'
  BY <1>1, <1>9 DEF CreateSession, DeleteSession
<1>10. ASSUME NEW policy \in Policies, Authorize(policy) PROVE SortInv'
  BY <1>1, <1>10 DEF Authorize
<1>11. ASSUME NEW grants \in SUBSET Tools, Execute(grants) PROVE SortInv'
  BY <1>1, <1>11 DEF Execute
<1>12. CASE UNCHANGED vars
  BY <1>1, <1>12 DEF vars
<1> QED
  BY <1>3, <1>4, <1>5, <1>6, <1>7, <1>8, <1>9, <1>10, <1>11, <1>12
     DEF Next, ClientStep, ServerStep

\* The steps of a plan depend on earlier steps.
PlanInOrder(p) ==
    /\ Len(p.needs) = Len(p.tools)
    /\ \A i \in DOMAIN p.tools : \A d \in p.needs[i] : d \in 1..(i - 1)

\* A plan that is complete realises the task, and is in order.
LEMMA SortedFits ==
    ASSUME TypeOK, SortInv, Sorted
    PROVE  /\ Realises(PlanOf(task, order), task)
           /\ PlanInOrder(PlanOf(task, order))
<1> DEFINE p == PlanOf(task, order)
<1>1. order \in Seq(Names) /\ DOMAIN order = 1..Len(order)
  BY DEF TypeOK
<1>2. /\ p.tools = order /\ Len(p.needs) = Len(order)
      /\ \A i \in DOMAIN order :
            p.needs[i] = {j \in 1..Len(order) : order[j] \in task.needs[order[i]]}
  BY <1>1 DEF PlanOf
<1>3. Placed = Wanted(task)
  BY DEF Sorted, SortInv, Remaining
<1>4. \A i \in DOMAIN order : \A j \in p.needs[i] : j \in DOMAIN order /\ j < i
  BY <1>1, <1>2 DEF Sorted, SortInv
<1>5. \A i, j \in DOMAIN order : order[i] = order[j] => i = j
  BY DEF Sorted, SortInv
<1> HIDE DEF p
<1>6. Realises(p, task)
  BY <1>1, <1>2, <1>3, <1>4, <1>5 DEF Realises, Placed
<1>7. PlanInOrder(p)
  BY <1>1, <1>2, <1>4 DEF PlanInOrder
<1> QED
  BY <1>6, <1>7 DEF p

\* What no layer can take holds a cycle.
LEMMA CircularHasCycle ==
    ASSUME SortInv, Circular
    PROVE  HasCycle(task)
<1>1. Remaining \in (SUBSET Wanted(task)) \ {{}}
  BY DEF Circular, Remaining
<1>2. \A n \in Remaining : task.needs[n] \cap Remaining # {}
  BY DEF Circular, SortInv, Remaining, Ready, NeedsKnown
<1> QED
  BY <1>1, <1>2 DEF HasCycle

-----------------------------------------------------------------------------
(* What the client holds, and the run *)

\* No decision lets a restricted tool pass without approval.
FloorKept(levels, tools) ==
    /\ Len(levels) = Len(tools)
    /\ \A i \in DOMAIN tools : tools[i] \in Restricted => levels[i] # "ALLOWED"

HeldInv ==
    /\ plan # None => PlanInOrder(plan)
    /\ authorization # None => FloorKept(authorization.levels, authorization.tools)

Settled(step) ==
    Started(step) \/ Succeeded(step) =>
        /\ run.plan.tools[step] \in available
        /\ run.levels[step] # "DENIED"
        /\ run.plan.tools[step] \in Restricted => run.plan.tools[step] \in run.granted
        /\ \A d \in run.plan.needs[step] : d < step /\ Succeeded(d)

RunInv ==
    run # None =>
        /\ PlanInOrder(run.plan)
        /\ FloorKept(run.levels, run.plan.tools)
        /\ Len(run.outcomes) <= Len(run.plan.tools)
        /\ \A k \in DOMAIN run.audit : run.audit[k].step <= Len(run.outcomes)
        /\ \A step \in DOMAIN run.outcomes : Settled(step)

LEMMA ElementInRange ==
    ASSUME NEW S, NEW seq \in Seq(S), NEW k \in DOMAIN seq
    PROVE  seq[k] \in S
  OBVIOUS

\* A step that is recorded leaves the earlier ones as settled as they were,
\* and is settled itself.
LEMMA RecordSettled ==
    ASSUME run \in Run, RunInv, run # None, Running, available' = available,
           NEW outcome \in Outcome, NEW events \in Seq(Event), NEW produced,
           Record(outcome, events, produced),
           outcome = "SUCCESS" \/ (\E k \in DOMAIN events : events[k] = "started")
              => Eligible /\ CurrentTool \in available
    PROVE  RunInv'
<1> DEFINE entries == [k \in 1..Len(events) |-> [event |-> events[k], step |-> Current]]
<1>1. /\ run.outcomes \in Seq(Outcome) /\ Current = Len(run.outcomes) + 1
      /\ Current \in Nat /\ DOMAIN run.outcomes = 1..Len(run.outcomes)
      /\ Len(run.outcomes) \in Nat
  BY DEF Run, Current
<1>2. /\ run'.outcomes = Append(run.outcomes, outcome)
      /\ run'.plan = run.plan /\ run'.levels = run.levels /\ run'.granted = run.granted
  BY DEF Record, Run
<1>3. run'.audit = run.audit \o entries
  BY DEF Record, Run
<1>4. /\ Len(run'.outcomes) = Current /\ DOMAIN run'.outcomes = 1..Current
      /\ \A i \in 1..Len(run.outcomes) : run'.outcomes[i] = run.outcomes[i]
      /\ run'.outcomes[Current] = outcome
  BY <1>1, <1>2
<1>5. /\ PlanInOrder(run.plan) /\ FloorKept(run.levels, run.plan.tools)
      /\ Current <= Len(run.plan.tools)
      /\ \A k \in DOMAIN run.audit : run.audit[k].step <= Len(run.outcomes)
      /\ \A step \in DOMAIN run.outcomes : Settled(step)
  BY DEF RunInv, Running
<1>6. /\ entries \in Seq([event : Event, step : Nat])
      /\ DOMAIN entries = DOMAIN events
      /\ \A k \in DOMAIN entries : entries[k] = [event |-> events[k], step |-> Current]
  BY <1>1
<1> HIDE DEF entries
<1>7. \A k \in DOMAIN run'.audit :
         \/ k \in DOMAIN run.audit /\ run'.audit[k] = run.audit[k]
         \/ \E e \in DOMAIN entries : run'.audit[k] = entries[e]
  BY <1>3, <1>6 DEF Run
<1>8. \A k \in DOMAIN run'.audit : run'.audit[k].step <= Len(run'.outcomes)
  <2> SUFFICES ASSUME NEW k \in DOMAIN run'.audit
               PROVE  run'.audit[k].step <= Current
    BY <1>4
  <2>1. CASE k \in DOMAIN run.audit /\ run'.audit[k] = run.audit[k]
    <3>1. run.audit[k].step \in Nat
      <4>1. run.audit \in Seq([event : Event, step : Nat])
        BY DEF Run
      <4>2. run.audit[k] \in [event : Event, step : Nat]
        BY <2>1, <4>1, ElementInRange
      <4> QED
        BY <4>2
    <3> QED
      BY <1>1, <1>5, <2>1, <3>1
  <2>2. CASE \E e \in DOMAIN entries : run'.audit[k] = entries[e]
    <3>1. run'.audit[k].step = Current
      BY <1>6, <2>2
    <3> QED
      BY <1>1, <3>1
  <2> QED
    BY <1>7, <2>1, <2>2
<1>9. ASSUME NEW step \in DOMAIN run'.outcomes PROVE Settled(step)'
  <2>1. CASE step \in DOMAIN run.outcomes
    <3>1. step # Current /\ step \in 1..Len(run.outcomes)
      BY <1>1, <2>1
    <3>2. Started(step)' => Started(step)
      BY <1>6, <1>7, <3>1 DEF Started
    <3>3. Succeeded(step)' => Succeeded(step)
      BY <1>4, <2>1, <3>1 DEF Succeeded
    <3>4. ASSUME NEW d, Succeeded(d) PROVE Succeeded(d)'
      BY <1>1, <1>4, <3>4 DEF Succeeded
    <3> QED
      BY <1>2, <1>5, <2>1, <3>2, <3>3, <3>4 DEF Settled
  <2>2. CASE step = Current
    <3>1. Started(step)' => \E k \in DOMAIN events : events[k] = "started"
      <4> SUFFICES ASSUME Started(step)'
                   PROVE  \E k \in DOMAIN events : events[k] = "started"
        OBVIOUS
      <4>1. PICK k \in DOMAIN run'.audit :
               run'.audit[k] = [event |-> "started", step |-> step]
        BY DEF Started
      <4>2. ~(k \in DOMAIN run.audit /\ run'.audit[k] = run.audit[k])
        BY <1>1, <1>5, <2>2, <4>1
      <4>3. PICK e \in DOMAIN entries : run'.audit[k] = entries[e]
        BY <1>7, <4>2
      <4> QED
        BY <1>6, <4>1, <4>3
    <3>2. Succeeded(step)' => outcome = "SUCCESS"
      BY <1>4, <2>2 DEF Succeeded
    <3>3. ASSUME Started(step)' \/ Succeeded(step)'
          PROVE  Eligible /\ CurrentTool \in available
      BY <3>1, <3>2, <3>3
    <3>4. ASSUME Eligible, CurrentTool \in available PROVE Settled(step)'
      <4>1. Current \in DOMAIN run.plan.tools
        BY <1>1, <1>5 DEF Run, Plan
      <4>2. run.levels[step] # "DENIED"
        BY <2>2, <3>4 DEF Eligible, Denied
      <4>3. run.plan.tools[step] \in Restricted => run.plan.tools[step] \in run.granted
        <5>1. run.levels[Current] \in Level
          BY <1>5, <4>1 DEF Run, Plan, FloorKept
        <5> QED
          BY <1>5, <2>2, <3>4, <4>1, <4>2, <5>1
             DEF Eligible, Unapproved, CurrentTool, FloorKept, Level
      <4>4. \A d \in run.plan.needs[step] : d < step /\ Succeeded(d)'
        <5> SUFFICES ASSUME NEW d \in run.plan.needs[step]
                     PROVE  d < step /\ Succeeded(d)'
          OBVIOUS
        <5>1. d \in 1..(Current - 1)
          BY <1>5, <2>2, <4>1 DEF PlanInOrder
        <5>2. run.outcomes[d] = "SUCCESS"
          BY <2>2, <3>4 DEF Eligible, Blocked
        <5> QED
          BY <1>1, <1>4, <2>2, <5>1, <5>2 DEF Succeeded
      <4> QED
        BY <1>2, <2>2, <3>4, <4>2, <4>3, <4>4 DEF Settled, CurrentTool
    <3> QED
      BY <3>3, <3>4 DEF Settled
  <2> QED
    BY <1>1, <1>4, <1>9, <2>1, <2>2
<1> QED
  BY <1>2, <1>4, <1>5, <1>8, <1>9 DEF RunInv

LEMMA RunStepSettled ==
    ASSUME run \in Run, RunInv, run # None, RunStep, available' = available
    PROVE  RunInv'
<1>1. /\ <<"denied">> \in Seq(Event) /\ <<"skipped">> \in Seq(Event)
      /\ <<"failed">> \in Seq(Event) /\ <<"started", "failed">> \in Seq(Event)
      /\ <<"started", "completed">> \in Seq(Event)
  BY DEF Event
<1>2. /\ "SUCCESS" \in Outcome /\ "SKIPPED" \in Outcome
      /\ "DENIED" \in Outcome /\ "FAILED" \in Outcome
  BY DEF Outcome
<1>3. CASE Deny
  <2>1. Running /\ Record("DENIED", <<"denied">>, {})
    BY <1>3 DEF Deny
  <2>2. ~\E k \in DOMAIN <<"denied">> : <<"denied">>[k] = "started"
    OBVIOUS
  <2> QED
    BY <1>1, <1>2, <2>1, <2>2, RecordSettled
<1>4. CASE Skip
  <2>1. Running /\ Record("SKIPPED", <<"skipped">>, {})
    BY <1>4 DEF Skip
  <2>2. ~\E k \in DOMAIN <<"skipped">> : <<"skipped">>[k] = "started"
    OBVIOUS
  <2> QED
    BY <1>1, <1>2, <2>1, <2>2, RecordSettled
<1>5. CASE Unavailable
  <2>1. Running /\ Record("FAILED", <<"failed">>, {})
    BY <1>5 DEF Unavailable, Eligible
  <2>2. ~\E k \in DOMAIN <<"failed">> : <<"failed">>[k] = "started"
    OBVIOUS
  <2> QED
    BY <1>1, <1>2, <2>1, <2>2, RecordSettled
<1>6. CASE Completes
  <2>1. /\ Record("SUCCESS", <<"started", "completed">>, {CurrentTool})
        /\ Running /\ Eligible /\ CurrentTool \in available
    BY <1>6 DEF Completes, Eligible
  <2> QED
    BY <1>1, <1>2, <2>1, RecordSettled
<1>7. CASE Fails
  <2>1. /\ Record("FAILED", <<"started", "failed">>, {})
        /\ Running /\ Eligible /\ CurrentTool \in available
    BY <1>7 DEF Fails, Eligible
  <2> QED
    BY <1>1, <1>2, <2>1, RecordSettled
<1> QED
  BY <1>3, <1>4, <1>5, <1>6, <1>7 DEF RunStep

-----------------------------------------------------------------------------
(* The pipeline *)

IInv == TypeOK /\ SortInv /\ HeldInv /\ RunInv

LEMMA InitInv == Init => IInv
  BY InitTyped, SortInit DEF Init, IInv, HeldInv, RunInv

\* What the client is given keeps the two rules, whatever it had before.
LEMMA HeldStep == IInv /\ [Next]_vars => HeldInv'
<1> SUFFICES ASSUME IInv, [Next]_vars PROVE HeldInv'
  OBVIOUS
<1> USE DEF IInv
<1>1. ASSUME UNCHANGED <<plan, authorization>> PROVE HeldInv'
  BY <1>1 DEF HeldInv
<1>2. ASSUME NEW t \in Tasks, AskForPlan(t) PROVE HeldInv'
  BY <1>2 DEF AskForPlan, HeldInv
<1>3. ASSUME NEW s \in Sessions \cup {None}, AnswerPlan(s) PROVE HeldInv'
  BY <1>3, SortedFits DEF AnswerPlan, HeldInv
<1>4. ASSUME NEW policy \in Policies, Authorize(policy) PROVE HeldInv'
  <2>1. /\ plan.tools \in Seq(Names) /\ plan' = plan
        /\ authorization' = Authorization(policy, plan.tools)
    BY <1>4 DEF Authorize, TypeOK, Plan
  <2>2. FloorKept(authorization'.levels, authorization'.tools)
    BY <2>1, StepLevelFacts DEF Authorization, FloorKept
  <2> QED
    BY <2>1, <2>2 DEF HeldInv
<1>5. ASSUME NEW grants \in SUBSET Tools, Execute(grants) PROVE HeldInv'
  BY <1>1, <1>5 DEF Execute
<1>6. ASSUME NEW s \in Sessions, CreateSession(s) \/ DeleteSession(s) PROVE HeldInv'
  BY <1>1, <1>6 DEF CreateSession, DeleteSession
<1>7. ASSUME SortTools \/ RefusePlan \/ ExecuteStep \/ Restart PROVE HeldInv'
  BY <1>1, <1>7 DEF SortTools, RefusePlan, ExecuteStep, Restart
<1>8. CASE UNCHANGED vars
  BY <1>1, <1>8 DEF vars
<1> QED
  BY <1>2, <1>3, <1>4, <1>5, <1>6, <1>7, <1>8 DEF Next, ClientStep, ServerStep

LEMMA RunInvStep == IInv /\ [Next]_vars => RunInv'
<1> SUFFICES ASSUME IInv, [Next]_vars PROVE RunInv'
  OBVIOUS
<1> USE DEF IInv
<1>1. ASSUME UNCHANGED <<run, available>> PROVE RunInv'
  BY <1>1 DEF RunInv, Settled, Started, Succeeded
<1>2. ASSUME run' = None PROVE RunInv'
  BY <1>2 DEF RunInv
<1>3. ASSUME NEW grants \in SUBSET Tools, Execute(grants) PROVE RunInv'
  <2>1. /\ run'.plan = plan /\ run'.levels = authorization.levels
        /\ run'.outcomes = <<>> /\ run'.audit = <<>>
        /\ authorization.tools = plan.tools /\ plan # None /\ authorization # None
    BY <1>3 DEF Execute, BeginRun
  <2>2. PlanInOrder(plan) /\ FloorKept(authorization.levels, plan.tools)
    BY <2>1 DEF HeldInv
  <2>3. plan.tools \in Seq(Names)
    BY <2>1 DEF TypeOK, Plan
  <2> QED
    BY <2>1, <2>2, <2>3 DEF RunInv
<1>4. CASE ExecuteStep
  <2>1. CASE RunStep
    <3>1. run # None /\ available' = available
      BY <1>4, <2>1 DEF ExecuteStep, RunStep, Deny, Skip, Unavailable, Completes,
                        Fails, Eligible, Running
    <3> QED
      BY <2>1, <3>1, RunStepSettled DEF TypeOK
  <2> QED
    BY <1>2, <1>4, <2>1 DEF ExecuteStep, EndRun
<1>5. CASE Restart
  BY <1>2, <1>5 DEF Restart
<1>6. ASSUME NEW t \in Tasks, AskForPlan(t) PROVE RunInv'
  BY <1>1, <1>6 DEF AskForPlan
<1>7. ASSUME NEW s \in Sessions \cup {None}, AnswerPlan(s) PROVE RunInv'
  BY <1>1, <1>7 DEF AnswerPlan
<1>8. ASSUME NEW policy \in Policies, Authorize(policy) PROVE RunInv'
  BY <1>1, <1>8 DEF Authorize
<1>9. ASSUME NEW s \in Sessions, CreateSession(s) \/ DeleteSession(s) PROVE RunInv'
  BY <1>1, <1>9 DEF CreateSession, DeleteSession
<1>10. ASSUME SortTools \/ RefusePlan PROVE RunInv'
  BY <1>1, <1>10 DEF SortTools, RefusePlan
<1>11. CASE UNCHANGED vars
  BY <1>1, <1>11 DEF vars
<1> QED
  BY <1>3, <1>4, <1>5, <1>6, <1>7, <1>8, <1>9, <1>10, <1>11
     DEF Next, ClientStep, ServerStep

LEMMA NextInv == IInv /\ [Next]_vars => IInv'
  BY NextTyped, SortStep, HeldStep, RunInvStep DEF IInv

LEMMA InvImplies == IInv => OnlySettledWork
  BY DEF IInv, RunInv, Settled, OnlySettledWork

\* A tool runs only if it is available, allowed, approved where the policy or
\* its metadata asks for it, and after all its dependencies succeeded:
\* whatever the policies say, and over any number of restarts.
THEOREM SettledWork == Spec => []OnlySettledWork
  BY InitInv, NextInv, InvImplies, PTL DEF Spec

LEMMA PlanStep ==
    ASSUME IInv, [Next]_vars
    PROVE  [plan' # plan /\ plan' # None => Realises(plan', task)]_vars
<1>1. ASSUME NEW s \in Sessions \cup {None}, AnswerPlan(s) PROVE Realises(plan', task)
  BY <1>1, SortedFits DEF AnswerPlan, IInv
<1>2. ASSUME NEW t \in Tasks, AskForPlan(t) PROVE plan' = None
  BY <1>2 DEF AskForPlan
<1>3. ASSUME NEW s \in Sessions, CreateSession(s) \/ DeleteSession(s) PROVE plan' = plan
  BY <1>3 DEF CreateSession, DeleteSession
<1>4. ASSUME NEW policy \in Policies, Authorize(policy) PROVE plan' = plan
  BY <1>4 DEF Authorize
<1>5. ASSUME NEW grants \in SUBSET Tools, Execute(grants) PROVE plan' = plan
  BY <1>5 DEF Execute
<1>6. ASSUME SortTools \/ RefusePlan \/ ExecuteStep \/ Restart PROVE plan' = plan
  BY <1>6 DEF SortTools, RefusePlan, ExecuteStep, Restart
<1>7. CASE UNCHANGED vars
  BY <1>7
<1> QED
  BY <1>1, <1>2, <1>3, <1>4, <1>5, <1>6, <1>7 DEF Next, ClientStep, ServerStep

\* Every plan that is handed out realises the task it was asked for.
THEOREM PlansFit == Spec => PlanFitsTask
<1>1. IInv /\ [Next]_vars => [plan' # plan /\ plan' # None => Realises(plan', task)]_vars
  BY PlanStep
<1> QED
  BY <1>1, InitInv, NextInv, PTL DEF Spec, PlanFitsTask

LEMMA RefusalStep ==
    ASSUME IInv, [Next]_vars, task # None, task' = None, plan' = None, restarts' = restarts
    PROVE  HasCycle(task)
<1>1. ASSUME NEW s \in Sessions \cup {None}, AnswerPlan(s) PROVE FALSE
  <2>1. plan' \in Plan
    BY <1>1, NextTyped DEF AnswerPlan, PlanOf, Plan, IInv, TypeOK
  <2> QED
    BY <2>1, AgentAssumption
<1>2. CASE RefusePlan
  BY <1>2, CircularHasCycle DEF RefusePlan, IInv
<1>3. ASSUME NEW t \in Tasks, AskForPlan(t) PROVE FALSE
  BY <1>3 DEF AskForPlan, Free
<1>4. ASSUME NEW s \in Sessions, CreateSession(s) \/ DeleteSession(s) PROVE FALSE
  BY <1>4 DEF CreateSession, DeleteSession
<1>5. ASSUME NEW policy \in Policies, Authorize(policy) PROVE FALSE
  BY <1>5 DEF Authorize
<1>6. ASSUME NEW grants \in SUBSET Tools, Execute(grants) PROVE FALSE
  BY <1>6 DEF Execute
<1>7. ASSUME SortTools \/ ExecuteStep PROVE FALSE
  BY <1>7 DEF SortTools, NextLayer, PlaceNext, ExecuteStep
<1>8. CASE Restart
  BY <1>8, NextTyped DEF Restart, IInv, TypeOK
<1>9. CASE UNCHANGED vars
  BY <1>9 DEF vars
<1> QED
  BY <1>1, <1>2, <1>3, <1>4, <1>5, <1>6, <1>7, <1>8, <1>9 DEF Next, ClientStep, ServerStep

\* The planner refuses no task that has an order.
THEOREM NoNeedlessRefusal == Spec => RefusedOnlyIfCircular
<1>1. IInv /\ [Next]_vars
      => [task # None /\ task' = None /\ plan' = None /\ restarts' = restarts
          => HasCycle(task)]_vars
  BY RefusalStep
<1> QED
  BY <1>1, InitInv, NextInv, PTL DEF Spec, RefusedOnlyIfCircular

-----------------------------------------------------------------------------
(* The audit *)

NoRepeats(tools) == \A i, j \in DOMAIN tools : tools[i] = tools[j] => i = j

Entry == [event : Event, step : Nat]

\* Every closing entry is of a step that is over, and tells its outcome.
Tells(audit, outcomes) ==
    \A k \in DOMAIN audit :
        Closes(audit[k]) => /\ audit[k].step \in DOMAIN outcomes
                            /\ audit[k].event = ClosingEvent(outcomes[audit[k].step])

\* They are in the order of the steps,
InOrder(audit) ==
    \A k \in DOMAIN audit : \A j \in 1..(k - 1) :
        Closes(audit[k]) /\ Closes(audit[j]) => audit[j].step < audit[k].step

\* and there is one for every step that is over.
Complete(audit, outcomes) ==
    \A i \in DOMAIN outcomes : \E k \in DOMAIN audit : Closes(audit[k]) /\ audit[k].step = i

\* An invocation is announced directly before its closing entry.
Announces(audit) ==
    \A k \in DOMAIN audit :
        audit[k].event = "started" =>
            /\ k < Len(audit)
            /\ audit[k + 1].event \in {"completed", "failed"}
            /\ audit[k + 1].step = audit[k].step

Trail(audit, outcomes) ==
    /\ Tells(audit, outcomes) /\ InOrder(audit) /\ Complete(audit, outcomes) /\ Announces(audit)

\* What a step writes to the audit: its closing entry, after its announcement
\* if the tool was invoked.
StepWrites(outcome, events) ==
    /\ Len(events) \in 1..2
    /\ events[Len(events)] = ClosingEvent(outcome)
    /\ Len(events) = 2 => events[1] = "started" /\ outcome \in {"SUCCESS", "FAILED"}

LEMMA Joined ==
    ASSUME NEW s \in Seq(Entry), NEW t \in Seq(Entry)
    PROVE  /\ Len(s \o t) = Len(s) + Len(t)
           /\ DOMAIN (s \o t) = 1..(Len(s) + Len(t))
           /\ \A k \in 1..Len(s) : (s \o t)[k] = s[k]
           /\ \A k \in 1..Len(t) : (s \o t)[Len(s) + k] = t[k]
<1>1. Len(s \o t) = Len(s) + Len(t) /\ DOMAIN (s \o t) = 1..(Len(s) + Len(t))
  OBVIOUS
<1>2. \A k \in 1..Len(s) : (s \o t)[k] = s[k]
  OBVIOUS
<1>3. \A k \in 1..Len(t) : (s \o t)[Len(s) + k] = t[k]
  OBVIOUS
<1> QED
  BY <1>1, <1>2, <1>3

\* The next step's entries continue the trail.
LEMMA TrailContinues ==
    ASSUME NEW audit \in Seq(Entry), NEW outcomes \in Seq(Outcome), Trail(audit, outcomes),
           \A k \in DOMAIN audit : audit[k].step <= Len(outcomes),
           NEW outcome \in Outcome, NEW events \in Seq(Event), StepWrites(outcome, events),
           NEW entries \in Seq(Entry), Len(entries) = Len(events),
           \A k \in 1..Len(events) :
              entries[k].event = events[k] /\ entries[k].step = Len(outcomes) + 1
    PROVE  Trail(audit \o entries, Append(outcomes, outcome))
<1> DEFINE a == audit \o entries
           o == Append(outcomes, outcome)
           n == Len(audit)
           m == Len(outcomes)
           z == n + Len(events)
<1>1. /\ n \in Nat /\ DOMAIN audit = 1..n /\ m \in Nat /\ DOMAIN outcomes = 1..m
      /\ Len(events) \in {1, 2} /\ z \in Nat /\ z > n
  BY DEF StepWrites
<1>2. /\ Len(a) = z /\ DOMAIN a = 1..z
      /\ \A k \in 1..n : a[k] = audit[k]
      /\ \A k \in 1..Len(events) : a[n + k] = entries[k]
  <2>1. /\ Len(audit \o entries) = Len(audit) + Len(entries)
        /\ DOMAIN (audit \o entries) = 1..(Len(audit) + Len(entries))
        /\ \A k \in 1..Len(audit) : (audit \o entries)[k] = audit[k]
        /\ \A k \in 1..Len(entries) : (audit \o entries)[Len(audit) + k] = entries[k]
    BY Joined
  <2> QED
    BY <2>1, Zenon
<1>3. /\ DOMAIN o = 1..(m + 1) /\ o[m + 1] = outcome
      /\ \A i \in 1..m : o[i] = outcomes[i]
  BY <1>1
<1>4. \A k \in 1..n : audit[k].step \in Nat /\ audit[k].step <= m
  <2>1. \A k \in 1..n : audit[k] \in Entry
    BY <1>1
  <2> QED
    BY <1>1, <2>1 DEF Entry
<1>5. ClosingEvent(outcome) # "started"
  BY DEF ClosingEvent, Outcome
<1>6. a[z].event = ClosingEvent(outcome) /\ a[z].step = m + 1 /\ Closes(a[z])
  BY <1>1, <1>2, <1>5 DEF StepWrites, Closes
\* The entry before the last is old, or announces it.
<1>7. ASSUME NEW k \in 1..z
      PROVE  \/ k \in 1..n
             \/ k = z
             \/ /\ k = n + 1 /\ z = n + 2 /\ ~Closes(a[k]) /\ a[k].step = m + 1
                /\ ClosingEvent(outcome) \in {"completed", "failed"}
  <2>1. CASE Len(events) = 1
    BY <1>1, <2>1
  <2>2. CASE Len(events) = 2
    <3>1. outcome = "SUCCESS" \/ outcome = "FAILED"
      BY <2>2 DEF StepWrites
    <3>2. ClosingEvent(outcome) \in {"completed", "failed"}
      BY <3>1 DEF ClosingEvent
    <3>3. a[n + 1].event = "started" /\ a[n + 1].step = m + 1
      BY <1>2, <2>2 DEF StepWrites
    <3>4. z = n + 2
      BY <2>2
    <3> HIDE DEF a, n, m, z
    <3>5. k \in 1..n \/ k = n + 1 \/ k = z
      BY <1>1, <3>4
    <3> QED
      BY <3>2, <3>3, <3>4, <3>5 DEF Closes
  <2> QED
    BY <1>1, <2>1, <2>2
<1> HIDE DEF a, o, n, m, z
<1>8. Tells(a, o)
  <2> SUFFICES ASSUME NEW k \in 1..z, Closes(a[k])
               PROVE  a[k].step \in DOMAIN o /\ a[k].event = ClosingEvent(o[a[k].step])
    BY <1>2 DEF Tells
  <2>1. CASE k \in 1..n
    <3>1. audit[k].step \in 1..m /\ audit[k].event = ClosingEvent(outcomes[audit[k].step])
      BY <1>1, <1>2, <2>1 DEF Trail, Tells
    <3> QED
      BY <1>1, <1>2, <1>3, <2>1, <3>1
  <2>2. CASE k = z
    BY <1>1, <1>3, <1>6, <2>2
  <2> QED
    BY <1>7, <2>1, <2>2
<1>9. InOrder(a)
  <2> SUFFICES ASSUME NEW k \in 1..z, NEW j \in 1..(k - 1), Closes(a[k]), Closes(a[j])
               PROVE  a[j].step < a[k].step
    BY <1>2 DEF InOrder
  <2>1. CASE k \in 1..n
    <3>1. j \in 1..n /\ k \in DOMAIN audit
      BY <1>1, <2>1
    <3>2. a[k] = audit[k] /\ a[j] = audit[j]
      BY <1>2, <2>1, <3>1
    <3>3. Closes(audit[k]) /\ Closes(audit[j])
      BY <3>2
    <3> QED
      BY <3>1, <3>2, <3>3 DEF Trail, InOrder
  <2>2. CASE k = z
    <3>1. j \in 1..z /\ j # z
      BY <1>1, <2>2
    <3>2. j \in 1..n
      BY <1>7, <3>1
    <3> QED
      BY <1>1, <1>2, <1>4, <1>6, <2>2, <3>2
  <2> QED
    BY <1>7, <2>1, <2>2
<1>10. Complete(a, o)
  <2> SUFFICES ASSUME NEW i \in 1..(m + 1)
               PROVE  \E k \in 1..z : Closes(a[k]) /\ a[k].step = i
    BY <1>2, <1>3 DEF Complete
  <2>1. CASE i = m + 1
    BY <1>1, <1>6, <2>1
  <2>2. CASE i # m + 1
    <3>0. i \in DOMAIN outcomes
      BY <1>1, <2>2
    <3>1. PICK k \in DOMAIN audit : Closes(audit[k]) /\ audit[k].step = i
      BY <3>0 DEF Trail, Complete
    <3>2. k \in 1..z /\ a[k] = audit[k]
      BY <1>1, <1>2
    <3> QED
      BY <3>1, <3>2
  <2> QED
    BY <2>1, <2>2
<1>11. Announces(a)
  <2> SUFFICES ASSUME NEW k \in 1..z, a[k].event = "started"
               PROVE  /\ k < z
                      /\ a[k + 1].event \in {"completed", "failed"}
                      /\ a[k + 1].step = a[k].step
    BY <1>2 DEF Announces
  <2>1. CASE k \in 1..n
    <3>1. audit[k].event = "started"
      BY <1>2, <2>1
    <3>2. /\ k < n
          /\ audit[k + 1].event \in {"completed", "failed"}
          /\ audit[k + 1].step = audit[k].step
      BY <1>1, <2>1, <3>1 DEF Trail, Announces, n
    <3>3. k + 1 \in 1..n
      BY <1>1, <2>1, <3>2
    <3> QED
      BY <1>1, <1>2, <2>1, <3>2, <3>3
  <2>2. CASE k = n + 1 /\ z = n + 2 /\ a[k].step = m + 1
             /\ ClosingEvent(outcome) \in {"completed", "failed"}
    <3>1. k + 1 = z
      BY <1>1, <2>2
    <3> QED
      BY <1>1, <1>6, <2>2, <3>1
  <2>3. k # z
    BY <1>6 DEF Closes
  <2> QED
    BY <1>7, <2>1, <2>2, <2>3
<1> QED
  BY <1>8, <1>9, <1>10, <1>11 DEF Trail, a, o

\* The outputs are those of the steps that succeeded.
OutputsOf(r) == {r.plan.tools[i] : i \in {j \in DOMAIN r.outcomes : r.outcomes[j] = "SUCCESS"}}

AuditInv ==
    /\ plan # None => NoRepeats(plan.tools)
    /\ run # None => /\ NoRepeats(run.plan.tools)
                     /\ Trail(run.audit, run.outcomes)
                     /\ run.outputs = OutputsOf(run)

LEMMA RecordAudited ==
    ASSUME run \in Run, run # None, RunInv, AuditInv, plan' = plan,
           NEW outcome \in Outcome, NEW events \in Seq(Event), StepWrites(outcome, events),
           NEW produced, produced = (IF outcome = "SUCCESS" THEN {CurrentTool} ELSE {}),
           Record(outcome, events, produced)
    PROVE  AuditInv'
<1> DEFINE entries == [k \in 1..Len(events) |-> [event |-> events[k], step |-> Current]]
           o == run.outcomes
<1>1. /\ o \in Seq(Outcome) /\ run.audit \in Seq(Entry) /\ Current = Len(o) + 1
      /\ Len(o) \in Nat /\ DOMAIN o = 1..Len(o)
  BY DEF Run, Current, Entry
<1>2. /\ run'.outcomes = Append(o, outcome) /\ run'.plan = run.plan
      /\ run'.outputs = run.outputs \cup produced /\ run'.audit = run.audit \o entries
  BY DEF Record, Run
<1>3. /\ entries \in Seq(Entry) /\ Len(entries) = Len(events)
      /\ \A k \in 1..Len(events) : entries[k].event = events[k] /\ entries[k].step = Len(o) + 1
  BY <1>1 DEF Entry
<1>4. /\ NoRepeats(run.plan.tools) /\ Trail(run.audit, o) /\ run.outputs = OutputsOf(run)
      /\ \A k \in DOMAIN run.audit : run.audit[k].step <= Len(o)
  BY DEF AuditInv, RunInv
<1> HIDE DEF entries, o
<1>5. Trail(run.audit \o entries, Append(o, outcome))
  BY <1>1, <1>3, <1>4, TrailContinues
<1>6. run'.outputs = OutputsOf(run')
  <2>1. {j \in DOMAIN Append(o, outcome) : Append(o, outcome)[j] = "SUCCESS"}
        = {j \in DOMAIN o : o[j] = "SUCCESS"}
          \cup (IF outcome = "SUCCESS" THEN {Current} ELSE {})
    BY <1>1
  <2>2. OutputsOf(run') = OutputsOf(run) \cup produced
    BY <1>2, <2>1 DEF OutputsOf, CurrentTool, o
  <2> QED
    BY <1>2, <1>4, <2>2
<1>7. Trail(run'.audit, run'.outcomes) /\ NoRepeats(run'.plan.tools)
  BY <1>2, <1>4, <1>5
<1> QED
  BY <1>6, <1>7 DEF AuditInv

LEMMA RunStepAudited ==
    ASSUME run \in Run, run # None, RunInv, AuditInv, plan' = plan, RunStep
    PROVE  AuditInv'
<1>1. /\ <<"denied">> \in Seq(Event) /\ <<"skipped">> \in Seq(Event)
      /\ <<"failed">> \in Seq(Event) /\ <<"started", "failed">> \in Seq(Event)
      /\ <<"started", "completed">> \in Seq(Event)
  BY DEF Event
<1>2. /\ "SUCCESS" \in Outcome /\ "SKIPPED" \in Outcome
      /\ "DENIED" \in Outcome /\ "FAILED" \in Outcome
  BY DEF Outcome
<1>3. /\ StepWrites("DENIED", <<"denied">>) /\ StepWrites("SKIPPED", <<"skipped">>)
      /\ StepWrites("FAILED", <<"failed">>) /\ StepWrites("FAILED", <<"started", "failed">>)
      /\ StepWrites("SUCCESS", <<"started", "completed">>)
  BY DEF StepWrites, ClosingEvent
<1>4. CASE Deny
  BY <1>1, <1>2, <1>3, <1>4, RecordAudited DEF Deny
<1>5. CASE Skip
  BY <1>1, <1>2, <1>3, <1>5, RecordAudited DEF Skip
<1>6. CASE Unavailable
  BY <1>1, <1>2, <1>3, <1>6, RecordAudited DEF Unavailable
<1>7. CASE Completes
  BY <1>1, <1>2, <1>3, <1>7, RecordAudited DEF Completes
<1>8. CASE Fails
  BY <1>1, <1>2, <1>3, <1>8, RecordAudited DEF Fails
<1> QED
  BY <1>4, <1>5, <1>6, <1>7, <1>8 DEF RunStep

LEMMA AuditStep == IInv /\ AuditInv /\ [Next]_vars => AuditInv'
<1> SUFFICES ASSUME IInv, AuditInv, [Next]_vars PROVE AuditInv'
  OBVIOUS
<1> USE DEF IInv
<1>1. ASSUME UNCHANGED <<run, plan>> PROVE AuditInv'
  BY <1>1 DEF AuditInv, OutputsOf
<1>2. ASSUME run' = None, plan' = plan PROVE AuditInv'
  BY <1>2 DEF AuditInv
<1>3. ASSUME NEW t \in Tasks, AskForPlan(t) PROVE AuditInv'
  BY <1>3 DEF AskForPlan, Free, AuditInv
<1>4. ASSUME NEW s \in Sessions \cup {None}, AnswerPlan(s) PROVE AuditInv'
  <2>1. NoRepeats(plan'.tools)
    BY <1>4, SortedFits DEF AnswerPlan, Realises, NoRepeats
  <2> QED
    BY <1>4, <2>1 DEF AnswerPlan, AuditInv, OutputsOf
<1>5. ASSUME NEW grants \in SUBSET Tools, Execute(grants) PROVE AuditInv'
  <2>1. /\ plan' = plan /\ plan # None /\ run'.plan = plan /\ run'.outcomes = <<>>
        /\ run'.outputs = {} /\ run'.audit = <<>>
    BY <1>5 DEF Execute, BeginRun
  <2>2. Trail(run'.audit, run'.outcomes)
    BY <2>1 DEF Trail, Tells, InOrder, Complete, Announces
  <2>3. run'.outputs = OutputsOf(run')
    BY <2>1 DEF OutputsOf
  <2> QED
    BY <2>1, <2>2, <2>3 DEF AuditInv
<1>6. CASE ExecuteStep
  <2>1. CASE RunStep
    <3>1. run # None /\ plan' = plan
      BY <1>6, <2>1 DEF ExecuteStep, RunStep, Deny, Skip, Unavailable, Completes,
                        Fails, Eligible, Running
    <3> QED
      BY <2>1, <3>1, RunStepAudited DEF TypeOK
  <2> QED
    BY <1>2, <1>6, <2>1 DEF ExecuteStep, EndRun
<1>7. CASE Restart
  BY <1>2, <1>7 DEF Restart
<1>8. ASSUME NEW policy \in Policies, Authorize(policy) PROVE AuditInv'
  BY <1>1, <1>8 DEF Authorize
<1>9. ASSUME NEW s \in Sessions, CreateSession(s) \/ DeleteSession(s) PROVE AuditInv'
  BY <1>1, <1>9 DEF CreateSession, DeleteSession
<1>10. ASSUME SortTools \/ RefusePlan PROVE AuditInv'
  BY <1>1, <1>10 DEF SortTools, RefusePlan
<1>11. CASE UNCHANGED vars
  BY <1>1, <1>11 DEF vars
<1> QED
  BY <1>3, <1>4, <1>5, <1>6, <1>7, <1>8, <1>9, <1>10, <1>11
     DEF Next, ClientStep, ServerStep

\* The worst outcome of a run is SUCCESS only if every step succeeded.
LEMMA OverallSuccess ==
    ASSUME NEW outcomes \in Seq(Outcome)
    PROVE  Overall(outcomes) = "SUCCESS" <=> \A i \in DOMAIN outcomes : outcomes[i] = "SUCCESS"
<1> DEFINE seen == {"SUCCESS"} \cup {outcomes[i] : i \in DOMAIN outcomes}
           Worst(o) == \A other \in seen : OutcomeSeverity(other) <= OutcomeSeverity(o)
<1>1. seen \subseteq Outcome
  BY DEF Outcome
<1>2. /\ OutcomeSeverity("SUCCESS") = 0 /\ OutcomeSeverity("SKIPPED") = 1
      /\ OutcomeSeverity("DENIED") = 2 /\ OutcomeSeverity("FAILED") = 3
  BY DEF OutcomeSeverity
<1>3. Overall(outcomes) = CHOOSE o \in seen : Worst(o)
  BY DEF Overall
<1>4. "SUCCESS" \in seen
  OBVIOUS
<1>5. (\A i \in DOMAIN outcomes : outcomes[i] = "SUCCESS") <=> seen = {"SUCCESS"}
  OBVIOUS
<1> HIDE DEF seen
<1>6. \E o \in seen : Worst(o)
  <2>1. CASE "FAILED" \in seen
    BY <1>1, <1>2, <2>1 DEF Outcome
  <2>2. CASE "FAILED" \notin seen /\ "DENIED" \in seen
    BY <1>1, <1>2, <2>2 DEF Outcome
  <2>3. CASE "FAILED" \notin seen /\ "DENIED" \notin seen /\ "SKIPPED" \in seen
    BY <1>1, <1>2, <2>3 DEF Outcome
  <2>4. CASE "FAILED" \notin seen /\ "DENIED" \notin seen /\ "SKIPPED" \notin seen
    BY <1>1, <1>2, <1>4, <2>4 DEF Outcome
  <2> QED
    BY <2>1, <2>2, <2>3, <2>4
<1> DEFINE worst == CHOOSE o \in seen : Worst(o)
<1>7. worst \in seen /\ Worst(worst)
  BY <1>6
<1> HIDE DEF worst
<1>8. worst = "SUCCESS" => seen = {"SUCCESS"}
  <2> SUFFICES ASSUME worst = "SUCCESS", NEW o \in seen PROVE o = "SUCCESS"
    BY <1>4
  <2>1. OutcomeSeverity(o) <= 0
    BY <1>2, <1>7
  <2> QED
    BY <1>1, <1>2, <2>1 DEF Outcome
<1>9. seen = {"SUCCESS"} => worst = "SUCCESS"
  BY <1>7
<1> QED
  BY <1>3, <1>5, <1>8, <1>9 DEF worst

LEMMA AuditTold == IInv /\ AuditInv => AuditTellsTheRun
<1> SUFFICES ASSUME IInv, AuditInv, run # None PROVE AuditTellsTheRun
  BY DEF AuditTellsTheRun
<1>1. /\ run \in Run /\ Trail(run.audit, run.outcomes) /\ NoRepeats(run.plan.tools)
      /\ run.outputs = OutputsOf(run) /\ Len(run.outcomes) <= Len(run.plan.tools)
  BY DEF IInv, TypeOK, RunInv, AuditInv
<1>2. /\ run.outcomes \in Seq(Outcome) /\ run.plan.tools \in Seq(Names)
  BY <1>1 DEF Run, Plan
<1>3. \A k \in DOMAIN run.audit :
         Closes(run.audit[k]) =>
             /\ run.audit[k].step \in DOMAIN run.outcomes
             /\ run.audit[k].event = ClosingEvent(run.outcomes[run.audit[k].step])
             /\ \A j \in 1..(k - 1) :
                   Closes(run.audit[j]) => run.audit[j].step < run.audit[k].step
  BY <1>1 DEF Trail, Tells, InOrder
<1>4. ASSUME Current > Len(run.plan.tools)
      PROVE  Overall(run.outcomes) = "SUCCESS"
             <=> run.outputs = {run.plan.tools[i] : i \in DOMAIN run.plan.tools}
  <2>1. DOMAIN run.outcomes = DOMAIN run.plan.tools
    BY <1>1, <1>2, <1>4 DEF Current
  <2>2. (\A i \in DOMAIN run.outcomes : run.outcomes[i] = "SUCCESS")
        <=> OutputsOf(run) = {run.plan.tools[i] : i \in DOMAIN run.plan.tools}
    <3>1. ASSUME \A i \in DOMAIN run.outcomes : run.outcomes[i] = "SUCCESS"
          PROVE  OutputsOf(run) = {run.plan.tools[i] : i \in DOMAIN run.plan.tools}
      BY <2>1, <3>1 DEF OutputsOf
    <3>2. ASSUME OutputsOf(run) = {run.plan.tools[i] : i \in DOMAIN run.plan.tools},
                 NEW i \in DOMAIN run.outcomes
          PROVE  run.outcomes[i] = "SUCCESS"
      <4>1. run.plan.tools[i] \in OutputsOf(run)
        BY <2>1, <3>2
      <4>2. PICK j \in DOMAIN run.outcomes :
              run.outcomes[j] = "SUCCESS" /\ run.plan.tools[j] = run.plan.tools[i]
        BY <4>1 DEF OutputsOf
      <4> QED
        BY <1>1, <2>1, <4>2 DEF NoRepeats
    <3> QED
      BY <3>1, <3>2
  <2> QED
    BY <1>1, <1>2, <2>2, OverallSuccess
<1> QED
  BY <1>1, <1>3, <1>4 DEF AuditTellsTheRun, Trail, Complete, Announces

\* The audit of a run tells its steps, in the order of the plan, each with its
\* outcome and every invocation announced, and the run is a success as a whole
\* exactly if every tool of the plan left an output: for any plan, policy and
\* grants, in every state of the run (Executor.execute, ExecutionResult.create).
THEOREM AuditHolds == Spec => []AuditTellsTheRun
<1>1. Init => IInv /\ AuditInv
  BY InitInv DEF Init, AuditInv
<1>2. (IInv /\ AuditInv) /\ [Next]_vars => (IInv /\ AuditInv)'
  BY NextInv, AuditStep
<1> QED
  BY <1>1, <1>2, AuditTold, PTL DEF Spec

-----------------------------------------------------------------------------
(* Induction, and a finite set of numbers in ascending order *)

IsWalk(w, N, base, step) ==
    w[0] = base /\ \A n \in 1..N : w[n] = step[n][w[n - 1]]

LEMMA Induction ==
    ASSUME NEW N \in Nat, NEW T, 0 \in T, \A n \in 1..N : n - 1 \in T => n \in T
    PROVE  \A n \in 0..N : n \in T
<1> DEFINE missing == {n \in 0..N : n \notin T}
<1> SUFFICES ASSUME missing # {}
             PROVE  FALSE
  OBVIOUS
<1>1. missing \subseteq Nat
  OBVIOUS
<1>2. PICK m \in missing : \A k \in missing : <<k, m>> \notin OpToRel(<, Nat)
  BY <1>1, WFMin, NatLessThanWellFounded, Zenon
<1>3. m \in 1..N /\ m \notin T /\ m - 1 \in 0..N
  OBVIOUS
<1>4. m - 1 \notin missing
  <2> SUFFICES ASSUME m - 1 \in missing
               PROVE  FALSE
    OBVIOUS
  <2>1. <<m - 1, m>> \in OpToRel(<, Nat)
    BY <1>1, <1>3 DEF OpToRel
  <2> QED
    BY <1>2, <2>1
<1> QED
  BY <1>3, <1>4

LEMMA WalkExists ==
    ASSUME NEW N \in Nat, NEW S, NEW base \in S, NEW step \in [1..N -> [S -> S]]
    PROVE  \E w \in [0..N -> S] : IsWalk(w, N, base, step)
<1> DEFINE Walked(m) == \E w \in [0..m -> S] : IsWalk(w, m, base, step)
           T == {m \in 0..N : Walked(m)}
<1>1. Walked(0)
  <2> DEFINE w == [n \in 0..0 |-> base]
  <2>1. w \in [0..0 -> S] /\ IsWalk(w, 0, base, step)
    BY DEF IsWalk
  <2> QED
    BY <2>1
<1>2. ASSUME NEW m \in 1..N, Walked(m - 1)
      PROVE  Walked(m)
  <2>1. m \in Nat /\ m - 1 \in Nat
    OBVIOUS
  <2>2. PICK v \in [0..(m - 1) -> S] : IsWalk(v, m - 1, base, step)
    BY <1>2
  <2> DEFINE w == [n \in 0..m |-> IF n = m THEN step[m][v[m - 1]] ELSE v[n]]
  <2>3. m - 1 \in 0..(m - 1) /\ v[m - 1] \in S
    BY <2>1
  <2>4. step[m][v[m - 1]] \in S
    BY <2>1, <2>3
  <2>5. w \in [0..m -> S]
    <3>1. \A n \in 0..m : n # m => n \in 0..(m - 1)
      BY <2>1
    <3> QED
      BY <2>4, <3>1
  <2>6. w[0] = base
    BY <2>1, <2>2 DEF IsWalk
  <2>7. ASSUME NEW n \in 1..m
        PROVE  w[n] = step[n][w[n - 1]]
    <3>1. n - 1 \in 0..m /\ n - 1 # m /\ n \in 0..m
      BY <2>1
    <3>2. w[n - 1] = v[n - 1]
      BY <3>1
    <3>3. CASE n = m
      BY <3>1, <3>2, <3>3
    <3>4. CASE n # m
      <4>1. n \in 1..(m - 1)
        BY <2>1, <3>4
      <4> QED
        BY <2>2, <3>1, <3>2, <3>4, <4>1 DEF IsWalk
    <3> QED
      BY <3>3, <3>4
  <2>8. Walked(m)
    BY <2>5, <2>6, <2>7 DEF IsWalk
  <2> QED
    BY <2>8
<1> HIDE DEF Walked
<1>3. 0 \in T /\ (\A n \in 1..N : n - 1 \in T => n \in T)
  BY <1>1, <1>2
<1> HIDE DEF T
<1>4. N \in T
  <2>1. N \in 0..N
    OBVIOUS
  <2> QED
    BY <1>3, <2>1, Induction
<1> QED
  BY <1>4 DEF T, Walked

Below(set, n) == {m \in set : m < n}
Rank(set, n) == Cardinality(Below(set, n))

LEMMA RankType ==
    ASSUME NEW set, IsFiniteSet(set), set \subseteq Int, NEW n \in set
    PROVE  Rank(set, n) \in 0..(Cardinality(set) - 1)
<1>1. IsFiniteSet(Below(set, n)) /\ Cardinality(Below(set, n)) <= Cardinality(set)
      /\ (Cardinality(set) = Cardinality(Below(set, n)) => set = Below(set, n))
  <2>1. Below(set, n) \in SUBSET set
    BY DEF Below
  <2> QED
    BY <2>1, FS_Subset
<1>2. set # Below(set, n)
  BY DEF Below
<1>3. Cardinality(set) \in Nat /\ Cardinality(Below(set, n)) \in Nat
  BY <1>1, FS_CardinalityType
<1> QED
  BY <1>1, <1>2, <1>3 DEF Rank

LEMMA RankGrows ==
    ASSUME NEW set, IsFiniteSet(set), set \subseteq Int, NEW m \in set, NEW n \in set, m < n
    PROVE  Rank(set, m) < Rank(set, n)
<1>1. Below(set, m) \in SUBSET Below(set, n) /\ m \in Below(set, n) /\ m \notin Below(set, m)
  <2>1. m \in Int /\ n \in Int /\ \A k \in set : k \in Int
    OBVIOUS
  <2>2. \A k \in Below(set, m) : k \in Below(set, n)
    BY <2>1 DEF Below
  <2>3. m \in Below(set, n) /\ m \notin Below(set, m)
    BY <2>1 DEF Below
  <2> QED
    BY <2>2, <2>3
<1>2. Below(set, n) \in SUBSET set
  BY DEF Below
<1>3. IsFiniteSet(Below(set, n))
  BY <1>2, FS_Subset
<1>4. /\ IsFiniteSet(Below(set, m))
      /\ Cardinality(Below(set, m)) <= Cardinality(Below(set, n))
      /\ Cardinality(Below(set, n)) = Cardinality(Below(set, m)) => Below(set, n) = Below(set, m)
  BY <1>1, <1>3, FS_Subset
<1>5. Cardinality(Below(set, m)) \in Nat /\ Cardinality(Below(set, n)) \in Nat
  BY <1>3, <1>4, FS_CardinalityType
<1> QED
  BY <1>1, <1>4, <1>5 DEF Rank

LEMMA RankIsUnique ==
    ASSUME NEW set, IsFiniteSet(set), set \subseteq Int, NEW m \in set, NEW n \in set,
           Rank(set, m) = Rank(set, n)
    PROVE  m = n
<1>1. Rank(set, m) \in Int /\ Rank(set, n) \in Int
  <2>1. Cardinality(set) \in Nat
    BY FS_CardinalityType
  <2>2. Rank(set, m) \in 0..(Cardinality(set) - 1)
    BY RankType
  <2> QED
    BY <2>1, <2>2
<1>2. m \in Int /\ n \in Int
  OBVIOUS
<1>3. ASSUME m < n
      PROVE  FALSE
  <2>1. Rank(set, m) < Rank(set, n)
    BY <1>3, RankGrows
  <2> QED
    BY <1>1, <2>1
<1>4. ASSUME n < m
      PROVE  FALSE
  <2>1. Rank(set, n) < Rank(set, m)
    BY <1>4, RankGrows
  <2> QED
    BY <1>1, <2>1
<1> QED
  BY <1>2, <1>3, <1>4

\* Every rank is someone's: the pigeonhole principle.
LEMMA RankIsTaken ==
    ASSUME NEW set, IsFiniteSet(set), set \subseteq Int, NEW r \in 0..(Cardinality(set) - 1)
    PROVE  \E n \in set : Rank(set, n) = r
<1> DEFINE ranks == 0..(Cardinality(set) - 1)
           rank == [n \in set |-> Rank(set, n)]
<1>1. Cardinality(set) \in Nat
  BY FS_CardinalityType
<1>2. IsFiniteSet(ranks) /\ Cardinality(ranks) = Cardinality(set)
  BY <1>1, FS_Interval
<1>3. rank \in [set -> ranks]
  BY RankType
<1>4. rank \in Injection(set, ranks)
  BY <1>3, RankIsUnique DEF Injection, IsInjective
<1>5. rank \in Surjection(set, ranks)
  BY <1>2, <1>4, FS_Injection
<1> QED
  BY <1>5 DEF Surjection

\* The sequence holds the members of the set, each in its place.
LEMMA AscendingHolds ==
    ASSUME NEW set, IsFiniteSet(set), set \subseteq Int
    PROVE  /\ Ascending(set) \in Seq(set)
           /\ Range(Ascending(set)) = set
           /\ set # {} => Len(Ascending(set)) > 0
<1> DEFINE n == Cardinality(set)
           s == Ascending(set)
<1>1. n \in Nat
  BY FS_CardinalityType
<1>2. s = [i \in 1..n |-> CHOOSE m \in set : Rank(set, m) = i - 1]
  BY DEF Ascending, Rank, Below
<1>3. ASSUME NEW i \in 1..n
      PROVE  s[i] \in set /\ Rank(set, s[i]) = i - 1
  <2>0. i - 1 \in 0..(n - 1)
    BY <1>1
  <2>1. \E m \in set : Rank(set, m) = i - 1
    BY <2>0, RankIsTaken
  <2> QED
    BY <1>2, <2>1
<1>4. s \in Seq(set) /\ Len(s) = n
  BY <1>1, <1>2, <1>3
<1>5. ASSUME NEW m \in set
      PROVE  \E i \in 1..n : s[i] = m
  <2>1. Rank(set, m) \in 0..(n - 1)
    BY RankType
  <2>2. Rank(set, m) + 1 \in 1..n
    BY <1>1, <2>1
  <2>3. s[Rank(set, m) + 1] \in set /\ Rank(set, s[Rank(set, m) + 1]) = Rank(set, m)
    BY <1>3, <2>1, <2>2
  <2>4. s[Rank(set, m) + 1] = m
    BY <2>3, RankIsUnique
  <2> QED
    BY <2>2, <2>4
<1>6. Range(s) = set
  <2>1. DOMAIN s = 1..n
    BY <1>2
  <2> HIDE DEF s, n
  <2> QED
    BY <1>3, <1>5, <2>1 DEF Range
<1>7. set # {} => n > 0
  BY <1>1, FS_EmptySet
<1> QED
  BY <1>4, <1>6, <1>7

-----------------------------------------------------------------------------
(* The registry *)

\* What registration keeps: the tools come in the order of their ids.
Catalogued(registry) ==
    /\ IsFiniteSet(Registered(registry)) /\ Registered(registry) \subseteq Nat
    /\ Ids(registry) = Ascending(Registered(registry))

LEMMA RegisterKeeps ==
    ASSUME NEW T, NEW registry \in Seq(T), NEW tool \in T, Catalogued(registry)
    PROVE  Register(registry, tool) \in Seq(T) /\ Catalogued(Register(registry, tool))
<1>1. CASE ~CanRegister(registry, tool)
  BY <1>1 DEF Register
<1>2. CASE CanRegister(registry, tool)
  <2> DEFINE S == Registered(registry) \cup {tool.id}
             ids == Ascending(S)
             known == Range(registry) \cup {tool}
             next == Register(registry, tool)
  <2>1. tool.id \in Nat
    BY <1>2 DEF CanRegister, WellFormed, Definition
  <2>2. IsFiniteSet(S) /\ S \subseteq Nat /\ S \subseteq Int
    <3> DEFINE before == Registered(registry)
    <3>1. IsFiniteSet(before) /\ before \subseteq Nat
      BY DEF Catalogued
    <3>2. IsFiniteSet(before \cup {tool.id})
      BY <3>1, FS_AddElement
    <3>3. S \subseteq Nat
      <4> HIDE DEF before
      <4> QED
        BY <2>1, <3>1 DEF before
    <3> HIDE DEF S
    <3>4. S \subseteq Int
      BY <3>3
    <3> QED
      BY <3>2, <3>3, <3>4 DEF S
  <2>3. ids \in Seq(S) /\ Range(ids) = S
    BY <2>2, AscendingHolds
  <2>4. next = [i \in DOMAIN ids |-> CHOOSE t \in known : t.id = ids[i]]
    BY <1>2 DEF Register
  <2>5. known \subseteq T
    BY DEF Range
  <2>6. \A n \in S : \E t \in known : t.id = n
    BY DEF Registered, Range
  <2> HIDE DEF S, ids, known, next
  <2>7. DOMAIN ids = 1..Len(ids) /\ Len(ids) \in Nat /\ \A i \in DOMAIN ids : ids[i] \in S
    BY <2>3
  <2>8. DOMAIN next = DOMAIN ids /\ \A i \in DOMAIN ids : next[i] \in known /\ next[i].id = ids[i]
    BY <2>4, <2>6, <2>7
  <2>9. next \in Seq(T)
    <3>1. next = [i \in 1..Len(ids) |-> next[i]]
      BY <2>4, <2>7, <2>8
    <3>2. \A i \in 1..Len(ids) : next[i] \in T
      BY <2>5, <2>7, <2>8
    <3> QED
      BY <2>7, <3>1, <3>2
  <2>10. Ids(next) = ids
    <3>1. Ids(next) = [i \in DOMAIN ids |-> ids[i]]
      BY <2>8 DEF Ids
    <3> QED
      BY <2>3, <3>1
  <2>11. Registered(next) = S
    BY <2>3, <2>8 DEF Registered, Range
  <2> QED
    BY <2>2, <2>9, <2>10, <2>11 DEF Catalogued, ids, next
<1> QED
  BY <1>1, <1>2

\* However the tools come, the registry lists them in the order of their ids.
LEMMA RegistryIsOrdered ==
    ASSUME NEW T, NEW tools \in Seq(T)
    PROVE  RegisterAll(tools) \in Seq(T) /\ Catalogued(RegisterAll(tools))
<1> DEFINE N == Len(tools)
           S == {registry \in Seq(T) : Catalogued(registry)}
           step == [n \in 1..N |-> [registry \in S |-> Register(registry, tools[n])]]
           All(w) == w = [n \in 0..N |-> IF n = 0 THEN <<>> ELSE Register(w[n - 1], tools[n])]
<1>1. <<>> \in S
  <2>1. Registered(<<>>) = {} /\ Ids(<<>>) = <<>>
    BY DEF Registered, Ids
  <2>2. Ascending({}) = <<>>
    <3>1. Cardinality({}) = 0
      BY FS_EmptySet
    <3> QED
      BY <3>1 DEF Ascending
  <2>3. IsFiniteSet({})
    BY FS_EmptySet
  <2> QED
    <3>1. Catalogued(<<>>)
      BY <2>1, <2>2, <2>3 DEF Catalogued
    <3>2. <<>> \in Seq(T)
      OBVIOUS
    <3> QED
      BY <3>1, <3>2
<1>2. step \in [1..N -> [S -> S]]
  <2>1. ASSUME NEW n \in 1..N, NEW registry \in S
        PROVE  Register(registry, tools[n]) \in S
    <3>1. tools[n] \in T /\ registry \in Seq(T) /\ Catalogued(registry)
      OBVIOUS
    <3>2. Register(registry, tools[n]) \in Seq(T) /\ Catalogued(Register(registry, tools[n]))
      BY <3>1, RegisterKeeps
    <3> QED
      BY <3>2
  <2> HIDE DEF S
  <2> QED
    BY <2>1
<1>3. N \in Nat
  OBVIOUS
<1> HIDE DEF S, step, N
<1>4. PICK w \in [0..N -> S] : IsWalk(w, N, <<>>, step)
  BY <1>1, <1>2, <1>3, WalkExists
<1>5. \A n \in 1..N : w[n] = Register(w[n - 1], tools[n])
  <2> SUFFICES ASSUME NEW n \in 1..N
               PROVE  w[n] = Register(w[n - 1], tools[n])
    OBVIOUS
  <2>1. n - 1 \in 0..N
    BY <1>3
  <2>2. w[n - 1] \in S /\ w[n] = step[n][w[n - 1]]
    BY <1>4, <2>1 DEF IsWalk
  <2> QED
    BY <2>2 DEF step
<1>6. All(w)
  <2>1. w[0] = <<>>
    BY <1>4 DEF IsWalk
  <2> QED
    BY <1>4, <1>5, <2>1
<1> DEFINE all == CHOOSE v : All(v)
<1>7. RegisterAll(tools) = all[N]
  BY DEF RegisterAll, N
<1>8. All(all)
  BY <1>6
<1> HIDE DEF all
<1>9. all[0] = <<>> /\ \A n \in 1..N : all[n] = Register(all[n - 1], tools[n])
  BY <1>3, <1>8
<1> DEFINE Kept == {n \in 0..N : all[n] \in S}
<1>10. 0 \in Kept
  BY <1>1, <1>3, <1>9
<1>11. ASSUME NEW n \in 1..N, n - 1 \in Kept
       PROVE  n \in Kept
  <2>1. tools[n] \in T
    BY DEF N
  <2>2. Register(all[n - 1], tools[n]) \in S
    BY <1>11, <2>1, RegisterKeeps DEF S
  <2> QED
    BY <1>9, <2>2
<1> HIDE DEF Kept
<1>12. N \in Kept
  <2>1. N \in 0..N
    BY <1>3
  <2> QED
    BY <1>3, <1>10, <1>11, <2>1, Induction
<1> QED
  BY <1>7, <1>12 DEF Kept, S

-----------------------------------------------------------------------------
(* The planning advice *)

\* A request, and what a provider may make of it.
Counsel(request, answer) ==
    /\ request.tools \in Seq(Names) /\ Ascending(Range(request.tools)) \in Seq(Names)
    /\ answer.kind \in {"echo", "no_client", "raised", "steps"}
    /\ answer.kind = "steps" =>
         answer.steps \in Seq([tool : Names \cup {None}, needs : SUBSET Names])

\* A suggestion passes on what the provider suggested only if it is acceptable.
LEMMA SuggestIs ==
    ASSUME NEW request, NEW answer, Counsel(request, answer)
    PROVE  LET response == Suggest(request, answer)
           IN  \/ response.steps = <<>>
               \/ /\ response.error = None /\ Acceptable(response.steps, request)
                  /\ response.steps \in Seq([tool : Names, needs : SUBSET Names])
<1> DEFINE Steps == Seq([tool : Names, needs : SUBSET Names])
           first == IF answer.kind = "echo" THEN Echo(request) ELSE FromProvider(answer)
           response == Suggest(request, answer)
<1>1. first.steps = <<>> \/ (first.error = None /\ first.steps \in Steps)
  <2>1. CASE answer.kind = "echo"
    <3> DEFINE ids == Ascending(Range(request.tools))
    <3>1. first.error = None /\ first.steps = [i \in DOMAIN ids |-> [tool |-> ids[i], needs |-> {}]]
      BY <2>1 DEF Echo, Suggestion
    <3>2. ids \in Seq(Names)
      BY DEF Counsel
    <3> HIDE DEF ids, first, Steps
    <3>3. DOMAIN ids = 1..Len(ids) /\ Len(ids) \in Nat /\ \A i \in DOMAIN ids : ids[i] \in Names
      BY <3>2
    <3>4. \A i \in 1..Len(ids) : [tool |-> ids[i], needs |-> {}] \in [tool : Names, needs : SUBSET Names]
      BY <3>3
    <3>5. first.steps = [i \in 1..Len(ids) |-> [tool |-> ids[i], needs |-> {}]]
      BY <3>1, <3>3
    <3>6. first.steps \in Steps
      BY <3>3, <3>4, <3>5 DEF Steps
    <3> QED
      BY <3>1, <3>6
  <2>2. CASE answer.kind \in {"no_client", "raised"}
    BY <2>2 DEF FromProvider, Refusal
  <2>3. CASE answer.kind = "steps"
    <3>1. CASE \E i \in DOMAIN answer.steps : answer.steps[i].tool = None
      BY <2>3, <3>1 DEF FromProvider, Refusal
    <3>2. CASE ~\E i \in DOMAIN answer.steps : answer.steps[i].tool = None
      <4> DEFINE given == answer.steps
                 Step == [tool : Names, needs : SUBSET Names]
      <4>1. first.error = None /\ first.steps = given
        BY <2>3, <3>2 DEF FromProvider, Suggestion
      <4>2. given \in Seq([tool : Names \cup {None}, needs : SUBSET Names])
        BY <2>3 DEF Counsel
      <4>3. \A i \in DOMAIN given : given[i].tool # None
        BY <3>2
      <4> HIDE DEF given, first
      <4>4. /\ DOMAIN given = 1..Len(given) /\ Len(given) \in Nat
            /\ given = [i \in 1..Len(given) |-> given[i]]
            /\ \A i \in DOMAIN given : given[i] \in [tool : Names \cup {None}, needs : SUBSET Names]
        <5> DEFINE Loose == [tool : Names \cup {None}, needs : SUBSET Names]
        <5>1. given \in Seq(Loose)
          BY <4>2
        <5> HIDE DEF Loose
        <5>2. /\ DOMAIN given = 1..Len(given) /\ Len(given) \in Nat
              /\ \A i \in DOMAIN given : given[i] \in Loose
          BY <5>1
        <5>3. given = [i \in 1..Len(given) |-> given[i]]
          BY <5>1, <5>2
        <5> QED
          BY <5>2, <5>3 DEF Loose
      <4>5. \A i \in 1..Len(given) : given[i] \in Step
        BY <4>3, <4>4
      <4> HIDE DEF Step
      <4>6. given \in Seq(Step)
        BY <4>4, <4>5
      <4> QED
        BY <4>1, <4>6 DEF Step
    <3> QED
      BY <3>1, <3>2
  <2> QED
    BY <2>1, <2>2, <2>3 DEF Counsel
<1>2. response = IF first.error # None \/ Acceptable(first.steps, request)
                 THEN first ELSE Refusal("INVALID_RESPONSE")
  BY DEF Suggest
<1> HIDE DEF first, Steps, response
<1>3. CASE first.error # None \/ Acceptable(first.steps, request)
  <2>1. response = first
    BY <1>2, <1>3
  <2>2. response.steps = <<>> \/ (response.error = None /\ Acceptable(response.steps, request)
                                   /\ response.steps \in Steps)
    BY <1>1, <1>3, <2>1
  <2> QED
    BY <2>2 DEF response, Steps
<1>4. CASE ~(first.error # None \/ Acceptable(first.steps, request))
  <2>1. response.steps = <<>>
    BY <1>2, <1>4 DEF Refusal
  <2> QED
    BY <2>1 DEF response
<1> QED
  BY <1>3, <1>4

\* Whatever a provider answers or raises, the planner can judge the suggestion.
\* It refuses it only for a tool that waits for itself, or for one that was
\* never on offer or is not available (PlanningLLMAdapter.suggest,
\* validate_planning_response, as_requested_tools; Planner._select).
THEOREM AdviceIsPlannable ==
    ASSUME NEW request, NEW answer, Counsel(request, answer)
    PROVE  Plannable(request, Suggest(request, answer))
<1> DEFINE response == Suggest(request, answer)
           steps == response.steps
           asked == AsTask(response)
           wish == asked.wish
<1>1. \/ steps = <<>>
      \/ /\ response.error = None /\ Acceptable(steps, request)
         /\ steps \in Seq([tool : Names, needs : SUBSET Names])
  BY SuggestIs
<1>2. /\ wish.tools = [i \in DOMAIN steps |-> steps[i].tool]
      /\ wish.needs = [n \in Names |-> UNION {steps[i].needs : i \in {k \in DOMAIN steps : steps[k].tool = n}}]
  BY DEF AsTask, SuggestedTools
<1> HIDE DEF response
<1>3. CASE steps = <<>>
  BY <1>3 DEF Plannable, response
<1>4. CASE /\ steps # <<>> /\ response.error = None /\ Acceptable(steps, request)
           /\ steps \in Seq([tool : Names, needs : SUBSET Names])
  <2> HIDE DEF steps, asked
  <2>1. /\ DOMAIN steps = 1..Len(steps) /\ Len(steps) \in Nat /\ Len(steps) # 0
        /\ \A i \in DOMAIN steps : steps[i].tool \in Names
    <3> DEFINE Step == [tool : Names, needs : SUBSET Names]
    <3>1. steps \in Seq(Step) /\ steps # <<>>
      BY <1>4
    <3>2. \A step \in Step : step.tool \in Names
      OBVIOUS
    <3> HIDE DEF Step
    <3>3. DOMAIN steps = 1..Len(steps) /\ Len(steps) \in Nat /\ \A i \in DOMAIN steps : steps[i] \in Step
      BY <3>1
    <3>4. Len(steps) # 0
      BY <3>1
    <3> QED
      BY <3>2, <3>3, <3>4
  <2>2. DOMAIN wish.tools = DOMAIN steps /\ \A i \in DOMAIN steps : wish.tools[i] = steps[i].tool
    BY <1>2
  <2>3. wish.tools = SuggestedTools(steps)
    BY <1>2 DEF SuggestedTools
  <2>4. /\ IsInjective(wish.tools)
        /\ request.tools # <<>> => Range(wish.tools) \subseteq Range(request.tools)
        /\ \A i \in DOMAIN steps : steps[i].needs \subseteq Range(wish.tools)
    BY <1>4, <2>3 DEF Acceptable
  <2>5. Wanted(wish) = Range(wish.tools)
    BY DEF Wanted, Range
  <2>6. wish.tools # <<>>
    BY <2>1, <2>2
  <2>7. Selectable(asked)
    <3>1. Selected(asked) = wish
      BY <2>6 DEF Selected
    <3> QED
      BY <2>4, <2>6, <3>1 DEF Selectable, IsInjective
  <2>8. \A n \in Wanted(wish) : wish.needs[n] \subseteq Wanted(wish)
    <3> SUFFICES ASSUME NEW n \in Wanted(wish), NEW m \in wish.needs[n]
                 PROVE  m \in Wanted(wish)
      OBVIOUS
    <3>1. n \in Names
      BY <2>1, <2>2 DEF Wanted
    <3>2. PICK i \in DOMAIN steps : m \in steps[i].needs
      BY <1>2, <3>1
    <3> QED
      BY <2>4, <2>5, <3>2
  <2>9. Knot(wish) \/ NeedsKnown(wish)
    BY <2>8 DEF Knot, NeedsKnown
  <2>10. request.tools # <<>> /\ Range(request.tools) \subseteq available => Resolvable(wish)
    BY <2>4, <2>5 DEF Resolvable
  <2>11. Plannable(request, response)
    BY <1>4, <2>7, <2>9, <2>10 DEF Plannable, asked
  <2> QED
    BY <2>11 DEF response
<1> QED
  BY <1>1, <1>3, <1>4

\* The same of the instance, whose tools the planner knows by name; and the
\* default registry is suggested whole, in its order (AdviceCanBePlanned).
THEOREM AdviceHolds == Spec => []AdviceCanBePlanned
<1>1. ASSUME NEW tools, Catalogued(tools)
      PROVE  SuggestedTools(Echo([tools |-> Ids(tools)]).steps) = Ids(tools)
  <2> DEFINE ids == Ascending(Range(Ids(tools)))
             steps == [i \in DOMAIN ids |-> [tool |-> ids[i], needs |-> {}]]
  <2>1. Range(Ids(tools)) = Registered(tools)
    BY DEF Ids, Range, Registered
  <2>2. ids = Ids(tools)
    BY <1>1, <2>1 DEF Catalogued
  <2>3. Echo([tools |-> Ids(tools)]).steps = steps
    BY DEF Echo, Suggestion
  <2> HIDE DEF ids
  <2>4. SuggestedTools(steps) = [i \in DOMAIN ids |-> ids[i]]
    BY DEF SuggestedTools
  <2>5. [i \in DOMAIN ids |-> ids[i]] = ids
    BY <2>2 DEF Ids
  <2> QED
    BY <2>2, <2>3, <2>4, <2>5
<1>2. Catalogued(DefaultRegistry)
  <2>1. DefaultTools \in Seq(Range(DefaultTools))
    BY DEF DefaultTools, Range
  <2> QED
    BY <2>1, RegistryIsOrdered DEF DefaultRegistry
<1>3. Ids(Registry) \in Seq(FourNames)
  <2> DEFINE tools == <<Writing, ReadOnly(1, "MEMORY"), ReadOnly(3, "MEMORY"),
                        [Writing EXCEPT !.id = 4, !.restricted = FALSE], ReadOnly(2, "SYSTEM")>>
             T == {tools[i] : i \in 1..5}
  <2>1. tools \in Seq(T)
    OBVIOUS
  <2>2. \A tool \in T : tool.id \in FourNames
    <3>1. Writing.id = 3 /\ [Writing EXCEPT !.id = 4, !.restricted = FALSE].id = 4
      BY DEF Writing, ReadOnly
    <3>2. ReadOnly(1, "MEMORY").id = 1 /\ ReadOnly(3, "MEMORY").id = 3 /\ ReadOnly(2, "SYSTEM").id = 2
      BY DEF ReadOnly
    <3>3. \A tool \in T : tool \in {Writing, ReadOnly(1, "MEMORY"), ReadOnly(3, "MEMORY"),
                                    [Writing EXCEPT !.id = 4, !.restricted = FALSE], ReadOnly(2, "SYSTEM")}
      OBVIOUS
    <3> HIDE DEF T
    <3> SUFFICES ASSUME NEW tool \in T
                 PROVE  tool.id \in {1, 2, 3, 4}
      BY DEF FourNames
    <3> QED
      BY <3>1, <3>2, <3>3, Zenon
  <2> HIDE DEF tools, T
  <2>3. Registry \in Seq(T)
    BY <2>1, RegistryIsOrdered DEF Registry, tools
  <2>4. Ids(Registry) = [i \in 1..Len(Registry) |-> Registry[i].id]
    BY <2>3 DEF Ids
  <2> QED
    BY <2>2, <2>3, <2>4
<1>4. ASSUME NEW request \in Requests, ValidRequest(request), NEW answer \in Answers
      PROVE  Plannable(request, Suggest(request, answer))
  <2>1. request.tools \in Seq(FourNames)
    <3>1. request.tools \in {<<>>, <<2, 1>>, Ids(Registry), <<1, 1>>, <<1, None>>, <<1, 2>>}
      BY DEF Requests, Offers
    <3>2. request.tools # <<1, None>>
      <4>1. None \in Range(<<1, None>>)
        BY DEF Range
      <4> QED
        BY <1>4, <4>1 DEF ValidRequest
    <3>3. <<>> \in Seq(FourNames) /\ <<2, 1>> \in Seq(FourNames) /\ <<1, 1>> \in Seq(FourNames)
          /\ <<1, 2>> \in Seq(FourNames)
      BY DEF FourNames
    <3> QED
      BY <1>3, <3>1, <3>2, <3>3
  <2>2. request.tools \in Seq(Names) /\ Ascending(Range(request.tools)) \in Seq(Names)
    <3> DEFINE set == Range(request.tools)
    <3>1. set \subseteq FourNames
      BY <2>1 DEF Range
    <3>2. IsFiniteSet(FourNames) /\ FourNames \subseteq Int
      <4>1. IsFiniteSet(1..4)
        <5>1. 1 \in Int /\ 4 \in Int
          OBVIOUS
        <5> QED
          BY <5>1, FS_Interval, Zenon
      <4>2. 1..4 \subseteq Int
        OBVIOUS
      <4> QED
        BY <4>1, <4>2 DEF FourNames
    <3>3. IsFiniteSet(set) /\ set \subseteq Int
      BY <3>1, <3>2, FS_Subset
    <3>4. Ascending(set) \in Seq(set)
      BY <3>3, AscendingHolds
    <3> HIDE DEF set
    <3>5. Ascending(set) \in Seq(Names)
      BY <3>1, <3>4, InstanceAssumption
    <3>6. request.tools \in Seq(Names)
      BY <2>1, InstanceAssumption
    <3> QED
      BY <3>5, <3>6 DEF set
  <2>3. answer.kind \in {"echo", "no_client", "raised", "steps"}
    BY DEF Answers
  <2>4. ASSUME answer.kind = "steps"
        PROVE  answer.steps \in Seq([tool : Names \cup {None}, needs : SUBSET Names])
    <3> DEFINE Step == [tool : Names \cup {None}, needs : SUBSET Names]
    <3>1. answer.steps \in {<<>>} \cup {<<a>> : a \in AnyStep} \cup {<<a, b>> : a, b \in AnyStep}
      BY <2>4 DEF Answers
    <3>2. AnyStep \subseteq Step
      BY InstanceAssumption DEF AnyStep, FourNames
    <3> HIDE DEF Step
    <3>3. answer.steps \in Seq(Step)
      <4>1. CASE answer.steps = <<>>
        BY <4>1
      <4>2. ASSUME NEW a \in AnyStep, answer.steps = <<a>>
            PROVE  answer.steps \in Seq(Step)
        <5>1. a \in Step
          BY <3>2
        <5> QED
          BY <4>2, <5>1
      <4>3. ASSUME NEW a \in AnyStep, NEW b \in AnyStep, answer.steps = <<a, b>>
            PROVE  answer.steps \in Seq(Step)
        <5>1. a \in Step /\ b \in Step
          BY <3>2
        <5> QED
          BY <4>3, <5>1
      <4> QED
        BY <3>1, <4>1, <4>2, <4>3
    <3> QED
      BY <3>3 DEF Step
  <2>5. Counsel(request, answer)
    BY <2>2, <2>3, <2>4 DEF Counsel
  <2> QED
    BY <2>5, AdviceIsPlannable
<1>5. AdviceCanBePlanned
  BY <1>1, <1>2, <1>4 DEF AdviceCanBePlanned, Advice
<1> QED
  BY <1>5, PTL

=============================================================================
