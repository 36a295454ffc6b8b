----------------------------- MODULE MCWorkflow -----------------------------
(***************************************************************************)
(* Definitions for TLC: every graph over three steps, every graph without  *)
(* self-loops over four of which one is terminal, and malformed ones.      *)
(***************************************************************************)
EXTENDS WorkflowSession

NoPolicies == [retry |-> None, timeout |-> None, rollback |-> None]

Step(id, kind) == [step_id |-> id, kind |-> kind, agent_task |-> "task", config |-> NoPolicies]

Edge(from, to) == [from_step |-> from, to_step |-> to, condition |-> None]

AllEdges(n) == [k \in 1..(n * n) |-> Edge(((k - 1) \div n) + 1, ((k - 1) % n) + 1)]

Graph(kinds, edges, initial) ==
    [steps |-> [i \in 1..Len(kinds) |-> Step(i, kinds[i])],
     transitions |-> SelectSeq(AllEdges(Len(kinds)),
                               LAMBDA e : <<e.from_step, e.to_step>> \in edges),
     initial_step |-> initial, metadata |-> NoPolicies]

Pairs(n) == (1..n) \X (1..n)

ThreeSteps ==
    {Graph(<<"TASK", "WAIT", last>>, edges, initial) :
        last \in {"TASK", "TERMINAL"}, edges \in SUBSET Pairs(3), initial \in 1..3}

FourSteps ==
    {Graph(<<"TASK", "TASK", "APPROVAL", "TERMINAL">>, edges, 2) :
        edges \in SUBSET {e \in Pairs(4) : e[1] # e[2] /\ e[1] # 4}}

Policies ==
    {[NoPolicies EXCEPT !.retry = policy] : policy \in
        {IllTyped} \cup [max_attempts : {None, IllTyped, -1, 0}, backoff_seconds : {None, -1, 0},
                         strategy : {None, "fixed", "sometimes"}]}
    \cup {[NoPolicies EXCEPT !.timeout = policy] :
             policy \in {IllTyped} \cup [seconds : {None, 0, 1}]}
    \cup {[NoPolicies EXCEPT !.rollback = policy] : policy \in
             {IllTyped} \cup [hook : {None, "", "undo"}, on : {None, "failure", "always"}]}

Chain == Graph(<<"TASK", "TERMINAL">>, {<<1, 2>>}, 1)

Malformed ==
    {[Chain EXCEPT !.steps = steps, !.transitions = transitions, !.initial_step = initial] :
        steps \in {<<>>, <<Step(1, "TASK"), Step(1, "TERMINAL")>>, Chain.steps,
                   <<[Step(1, "TASK") EXCEPT !.agent_task = ""], Step(2, "TASK")>>},
        transitions \in {<<>>, <<Edge(1, 2), Edge(1, 2)>>, <<Edge(1, 2), Edge(2, 3)>>},
        initial \in {None, 1, 3}}
    \cup {[Chain EXCEPT !.steps[1].config = config] : config \in Policies}
    \cup {[Chain EXCEPT !.metadata = config] : config \in Policies}

AllDefinitions == ThreeSteps \cup FourSteps \cup Malformed

=============================================================================
