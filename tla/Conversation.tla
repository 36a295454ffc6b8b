---------------------------- MODULE Conversation ----------------------------
(***************************************************************************)
(* The conversation engine and its API (app/conversation/engine,           *)
(* app/api/chat): sessions of several turns, each of which is classified   *)
(* against what the session remembers, resumes a question that waits for   *)
(* its subject, and is answered from the composed decision, while the      *)
(* forward test goes on storing and settling predictions.  A request runs  *)
(* to its end before the next one: its handler awaits nothing.             *)
(*                                                                         *)
(* Of the transcript the user's turns are kept: the engine never stores an *)
(* answer.  The API closes sessions; nothing in it expires one, though the *)
(* engine can.                                                             *)
(***************************************************************************)
EXTENDS AnswerPipeline

CONSTANTS
    Messages,           \* the messages that a user may send
    InitialStores,      \* the predictions in the store at first
    Arrivals,           \* the predictions that may be stored later
    Reads,              \* what the stores and engines may answer
    Sizes,              \* the tokens of a prompt's sections
    Failures,           \* the failures of the provider, by the words of their names
    MaxSessions, MaxTurns

PredictionFields == {"id", "symbol", "direction", "conf", "outcome", "planned", "r"}

\* Predictions are numbered as they were stored; a message has finitely many
\* words; what the engines answer is what they may; None is
\* no intent, facet, error or number.
ConversationAssumption ==
    /\ \A s \in InitialStores :
         /\ IsFiniteSet(DOMAIN s) /\ DOMAIN s = 1..Cardinality(DOMAIN s)
         /\ \A id \in DOMAIN s : s[id].id = id /\ DOMAIN s[id] = PredictionFields
    /\ \A record \in Arrivals : DOMAIN record = PredictionFields
    /\ \A message \in Messages : IsFiniteSet(message.terms)
    /\ Sizes \subseteq [Sections -> Nat]
    /\ \A read \in Reads : IsRead(read)
    /\ {MaxSessions, MaxTurns} \subseteq Nat
    /\ None \notin Known \cup FacetNames \cup {"MissingCitation"} /\ None \notin Nat

ASSUME ConversationAssumption

VARIABLES
    store,              \* the stored predictions
    sessions,           \* the engine's sessions, in the order they were created
    reply               \* the response to the last message, None before

vars == <<store, sessions, reply>>

NoTurns == <<>>

Turn(message, intent, followUp) == [message |-> message, intent |-> intent, followUp |-> followUp]

NewSession ==
    [state |-> "CREATED", entities |-> NoEntities, pending |-> None, turns |-> NoTurns]

Terminal == {"COMPLETED", "EXPIRED", "ERROR"}

TurnsTaken == MapThenSumSet(LAMBDA k : Len(sessions[k].turns), DOMAIN sessions)

-----------------------------------------------------------------------------
(* The engine *)

Duplicate(session, message) ==
    /\ session.turns # NoTurns
    /\ session.turns[Len(session.turns)].message = message

\* Mutant of Resumes: a question resumes whether or not its subject is known.
ResumesAnyway(session, classified) ==
    /\ session.state = "WAITING_FOR_INPUT"
    /\ session.pending # None
    /\ classified.intent \in {"UNKNOWN", session.pending}

\* A message without an intent of its own that supplies the awaited subject.
Resumes(session, classified) ==
    /\ session.state = "WAITING_FOR_INPUT"
    /\ session.pending # None
    /\ classified.intent \in {"UNKNOWN", session.pending}
    /\ SubjectOk(session.pending, classified.entities)

FollowUp(intent, valid) ==
    IF intent = "UNKNOWN" THEN "CLARIFICATION_REQUIRED"
    ELSE IF valid THEN "CONTINUATION" ELSE "MISSING_ENTITY"

\* The session after an accepted message, with the turn it took.
Handled(session, message) ==
    LET after(turn, entities) ==
            [state |-> IF turn.followUp = "CONTINUATION" THEN "ACTIVE" ELSE "WAITING_FOR_INPUT",
             entities |-> entities,
             pending |-> IF turn.followUp = "MISSING_ENTITY" THEN turn.intent ELSE None,
             turns |-> Append(session.turns, turn)]
        routed(classified) ==
            after(IF Resumes(session, classified)
                  THEN Turn(message, session.pending, FollowUp(session.pending, TRUE))
                  ELSE Turn(message, classified.intent, FollowUp(classified.intent, classified.valid)),
                  classified.entities)
    IN  routed(Classify(message, session.entities))

-----------------------------------------------------------------------------
(* The API *)

NoPrompt == [present |-> {}, omitted |-> {}, total |-> 0, sizes |-> <<>>]

Refusal(code) ==
    [code |-> code, detail |-> None, session |-> None, intent |-> None, availability |-> None,
     citations |-> {}, decision |-> None, prompt |-> NoPrompt]

\* A clarifying question, without retrieval and without the model.
Clarification(k, turn) ==
    [Refusal(200) EXCEPT !.session = k, !.intent = turn.intent, !.availability = "NOT_AVAILABLE"]

\* The provider failed: what was retrieved is not part of the response.
Failed(failure) ==
    [Refusal(HttpStatus(NormaliseError(failure))) EXCEPT !.detail = NormaliseError(failure)]

\* The answer to a turn: retrieval, prompt, provider.
Answer(k, turn, entities, reads, sizes) ==
    LET answer(retrieval) ==
            IF Uncited(retrieval) THEN [Refusal(500) EXCEPT !.detail = "MissingCitation"]
            ELSE [code |-> 200, detail |-> None, session |-> k, intent |-> turn.intent,
                  availability |-> retrieval.availability, citations |-> retrieval.citations,
                  decision |-> retrieval.decision, prompt |-> BuildPrompt(retrieval, sizes)]
    IN  answer(Retrieve(turn.intent, entities, store, reads))

\* The reads and sizes matter to a turn whose answer fetches a decision.
Asked(turn, entities) ==
    turn.followUp = "CONTINUATION" /\ NeedsDecision(turn.intent) /\ HasSubject(entities)

\* A turn of session k, which was there or has just been created.  The turn
\* stays in the session when its answer fails.
Take(k, session, message) ==
    LET respond(turn, entities) ==
            IF turn.followUp # "CONTINUATION"
            THEN reply' = Clarification(k, turn)
            ELSE \/ \E failure \in Failures : reply' = Failed(failure)
                 \/ \E reads \in IF Asked(turn, entities) THEN Reads ELSE {CHOOSE r \in Reads : TRUE},
                       sizes \in Sizes :
                         reply' = Answer(k, turn, entities, reads, sizes)
        taken(after) ==
            /\ sessions' = [j \in DOMAIN sessions \cup {k} |-> IF j = k THEN after ELSE sessions[j]]
            /\ respond(after.turns[Len(after.turns)], after.entities)
    IN  taken(Handled(session, message))

\* A message to a session, which may not exist, may be over or may just have had
\* the same message.
Post(k, message) ==
    /\ TurnsTaken < MaxTurns
    /\ UNCHANGED store
    /\ IF k \notin DOMAIN sessions
       THEN reply' = Refusal(404) /\ UNCHANGED sessions
       ELSE IF sessions[k].state \in Terminal \/ Duplicate(sessions[k], message)
       THEN reply' = Refusal(409) /\ UNCHANGED sessions
       ELSE Take(k, sessions[k], message)

\* A message without a session: one is created for it.
PostNew(message) ==
    /\ TurnsTaken < MaxTurns
    /\ Len(sessions) < MaxSessions
    /\ UNCHANGED store
    /\ Take(Len(sessions) + 1, NewSession, message)

\* A blank message is refused before a session is looked up or created.
PostBlank == reply' = Refusal(400) /\ UNCHANGED <<store, sessions>>

Create ==
    /\ Len(sessions) < MaxSessions
    /\ sessions' = Append(sessions, NewSession)
    /\ reply' = None
    /\ UNCHANGED store

\* Closing a closed session changes nothing; the refusal to close an expired one
\* is not caught.
Close(k) ==
    /\ UNCHANGED store
    /\ IF k \notin DOMAIN sessions THEN reply' = Refusal(404) /\ UNCHANGED sessions
       ELSE IF sessions[k].state \in Terminal \ {"COMPLETED"}
       THEN reply' = Refusal(500) /\ UNCHANGED sessions
       ELSE /\ sessions' = [sessions EXCEPT ![k].state = "COMPLETED"]
            /\ reply' = None

Expire(k) ==
    /\ k \in DOMAIN sessions
    /\ sessions[k].state \notin Terminal
    /\ sessions' = [sessions EXCEPT ![k].state = "EXPIRED"]
    /\ reply' = None
    /\ UNCHANGED store

\* The forward test stores a prediction, or settles one.
Arrive(record) ==
    LET id == Cardinality(DOMAIN store) + 1
    IN  /\ record.id = id
        /\ store' = [i \in 1..id |-> IF i = id THEN record ELSE store[i]]
        /\ UNCHANGED <<sessions, reply>>

Settle(id, result) ==
    /\ id \in DOMAIN store /\ store[id].r = None
    /\ store' = [store EXCEPT ![id].r = result]
    /\ UNCHANGED <<sessions, reply>>

-----------------------------------------------------------------------------

Init ==
    /\ store \in InitialStores
    /\ sessions = <<>>
    /\ reply = None

Next ==
    \/ \E k \in 1..MaxSessions, message \in Messages : Post(k, message)
    \/ \E message \in Messages : PostNew(message)
    \/ PostBlank
    \/ Create
    \/ \E k \in 1..MaxSessions : Close(k) \/ Expire(k)
    \/ \E record \in Arrivals : Arrive(record)
    \/ \E id \in DOMAIN store, result \in {"gain", "loss"} : Settle(id, result)

Spec == Init /\ [][Next]_vars

-----------------------------------------------------------------------------
(* Properties *)

NamesASubject(message) == HasSubject(Entities(message, NoEntities))

\* The last of the turns up to n that names a prediction or a symbol, 0 without.
LastNaming(turns, n, field) ==
    Max({0} \cup {k \in 1..n : turns[k].message[field] # None})

\* What the first n turns have named.
NamedBy(turns, n) ==
    [field \in {"prediction", "symbol"} |->
        LET k == LastNaming(turns, n, field) IN IF k = 0 THEN None ELSE turns[k].message[field]]

\* The session remembers what was named last.
Remembers(session) == session.entities = NamedBy(session.turns, Len(session.turns))

\* A turn that is answered had its subject named, and was asked for.
AnswersWhatWasAsked(turns, n) ==
    turns[n].followUp = "CONTINUATION" =>
        /\ \E m \in 1..n : Winner(turns[m].message) = turns[n].intent
        /\ SubjectOk(turns[n].intent, NamedBy(turns, n))

\* A turn after another is not the same message again; it is about something
\* else than its message asks only after a question without a subject; and it
\* answers that question if it names a subject and asks nothing else.
FollowsUp(turns, n) ==
    LET asked == Winner(turns[n].message)
        waiting == turns[n - 1].followUp = "MISSING_ENTITY"
    IN  /\ turns[n].message # turns[n - 1].message
        /\ turns[n].intent # asked => waiting
        /\ (/\ waiting
            /\ NamesASubject(turns[n].message)
            /\ asked \in {"UNKNOWN", turns[n - 1].intent})
           => turns[n].intent = turns[n - 1].intent /\ turns[n].followUp = "CONTINUATION"

\* The transcript explains the session: it remembers what was named last; a
\* question about a subject is answered only when a turn has named one, and
\* only when a message asked it; a question that lacked its subject is answered
\* by the next message if that names one and asks nothing else; and the client
\* is never answered twice for one message sent twice.
\* (app/conversation/engine.handle_message, intent.IntentClassifier.classify)
TranscriptIsSound ==
    \A k \in DOMAIN sessions :
        LET turns == sessions[k].turns
        IN  /\ Remembers(sessions[k])
            /\ \A n \in DOMAIN turns : AnswersWhatWasAsked(turns, n)
            /\ \A n \in DOMAIN turns \ {1} : FollowsUp(turns, n)

\* An answer about a decision is about the subject that the session's turns
\* named, carries that decision among its citations and nothing of another one,
\* and its citations are never dropped from the prompt.  No retrieval leaves
\* evidence without a source.
\* (retrieval.RetrievalOrchestrator.retrieve, prompt.PromptBuilder.build)
AnswersAreCited ==
    reply # None =>
        /\ reply.detail # "MissingCitation"
        /\ reply.citations # {} =>
             LET decision == reply.decision
                 named == sessions[reply.session].entities
             IN  /\ <<"decision", decision.id>> \in reply.citations
                 /\ \/ decision.id = named.prediction
                    \/ named.prediction = None /\ store[decision.id].symbol = named.symbol
                 /\ \A c \in reply.citations :
                      \/ c = <<"decision", decision.id>>
                      \/ c[1] \in Contributors /\ c[2] \in decision.sections[c[1]].evidence
                 /\ "CITATIONS" \in reply.prompt.present \ reply.prompt.omitted
        /\ (reply.code = 200 /\ reply.decision # None /\ reply.availability # "NOT_AVAILABLE")
             => reply.citations # {}

\* What the decision stands on and what is missing as a whole are the four
\* sections, every absence speaks against it, and the graph of the evidence is
\* empty exactly where a facet is missing.
ExplainedInFull(decision) ==
    LET missing == Missing(decision)
        absent == {m[1] : m \in {m \in missing : m[2] = None}}
    IN  /\ Complete(decision) \cap absent = {}
        /\ For(decision) \cup absent = Contributors
        /\ {x[1] : x \in {x \in Against(decision) : x[2] = "absent"}} = absent
        /\ {node.path : node \in {n \in Graph(decision) : n.status = "EMPTY"}}
             = {<<m[1], m[2]>> : m \in {m \in missing : m[2] # None}}

\* The other decision has no less evidence and no further conflict.
NoLess(decision, other) ==
    /\ Complete(decision) \subseteq Complete(other)
    /\ Conflicts(other) \subseteq Conflicts(decision)
    /\ other.sections["similarity"].payload.count >= decision.sections["similarity"].payload.count
    /\ other.sections["learning"].payload.patterns >= decision.sections["learning"].payload.patterns

\* More evidence of the same prediction never costs confidence or priority,
\* unless it contradicts it; a HIGH confidence rests on its settled memory, on
\* similar cases and on validated learning; and the explanation tells what is
\* there, what is missing and what speaks against the decision.
\* (decision_intelligence.confidence.ConfidenceEngine.assess, evidence.EvidenceEngine.explain)
ConfidenceIsOfTheEvidence ==
    (reply # None /\ reply.decision # None) =>
        LET d == reply.decision
        IN  /\ ExplainedInFull(d)
            /\ Assess(d).level = "HIGH" => Complete(d) = Contributors
            /\ \A reads \in Reads :
                 LET e == Compose(store[d.id], reads)
                 IN  NoLess(d, e) => /\ Assess(e).score >= Assess(d).score
                                     /\ Assess(e).priority >= Assess(d).priority

\* What a prompt costs when some of its sections gave way to the marker.
Cost(present, sizes, omitted) ==
    Tokens(present \ omitted, sizes) + Marker * Cardinality(omitted)

\* The place of the section that was dropped last, 0 without one.
LastDropped(omitted) == Max({0} \cup {k \in DOMAIN TrimOrder : TrimOrder[k] \in omitted})

TrimmedAsItMust(prompt) ==
    LET cost(omitted) == Cost(prompt.present, prompt.sizes, omitted)
        last == LastDropped(prompt.omitted)
    IN  /\ prompt.omitted \subseteq prompt.present
        /\ prompt.total = cost(prompt.omitted)
        /\ prompt.total <= Budget \/ prompt.present \ prompt.omitted = NeverTrimmed
        /\ last # 0 => cost(prompt.omitted \ {TrimOrder[last]}) > Budget

\* A prompt either fits the budget or keeps nothing that may be dropped, and no
\* section was dropped in vain: with the one that was dropped last put back, the
\* prompt would not fit.
\* (prompt.PromptBuilder._apply_budget)
TrimsOnlyWhatItMust ==
    (reply # None /\ reply.prompt # NoPrompt) => TrimmedAsItMust(reply.prompt)

=============================================================================
