-------------------------- MODULE Database_proofs --------------------------
(***************************************************************************)
(* Proofs about what prediction_history.db holds: the historical memory,   *)
(* MemoryBuilder, for any number of predictions, builders, buckets and     *)
(* crashes; and the schema, Migrations, for any number of overlapping      *)
(* starts, any mix of releases and any number of crashes.                  *)
(***************************************************************************)
EXTENDS MemoryBuilder, Migrations, FiniteSetTheorems, SequenceTheorems,
        NaturalsInduction, WellFoundedInduction, TLAPS

-----------------------------------------------------------------------------
(* The order of a backfill. *)

\* Predictions of a set that are not older than p.
Rank(ps, p) == Cardinality({q \in ps : q >= p})

LEMMA PredictionsAreFinite ==
    ASSUME NEW ps \in SUBSET Predictions
    PROVE  IsFiniteSet(ps) /\ Cardinality(ps) \in Nat /\ (ps # {} => Cardinality(ps) >= 1)
<1>1. IsFiniteSet(Predictions)
  BY MemoryAssumption, FS_Interval DEF Predictions
<1>2. IsFiniteSet(ps)
  BY <1>1, FS_Subset
<1> QED
  BY <1>2, FS_CardinalityType, FS_EmptySet

\* Of n predictions one has the rank i, for every i up to n.
LEMMA RanksAreTaken ==
    ASSUME NEW ps \in SUBSET Predictions, NEW i \in 1..Cardinality(ps)
    PROVE  \E p \in ps : Rank(ps, p) = i
<1> DEFINE n == Cardinality(ps)
           rank == [p \in ps |-> Rank(ps, p)]
<1>1. n \in Nat /\ IsFiniteSet(ps)
  BY PredictionsAreFinite
<1>2. ASSUME NEW p \in ps
      PROVE  Rank(ps, p) \in 1..n
  <2>1. {q \in ps : q >= p} \in SUBSET ps /\ p \in {q \in ps : q >= p}
    BY DEF Predictions
  <2>2. Cardinality({q \in ps : q >= p}) <= n
    BY <1>1, <2>1, FS_Subset
  <2>3. Cardinality({q \in ps : q >= p}) \in Nat /\ Cardinality({q \in ps : q >= p}) >= 1
    BY <2>1, PredictionsAreFinite
  <2> QED
    BY <1>1, <2>2, <2>3 DEF Rank
<1>3. ASSUME NEW p \in ps, NEW r \in ps, p < r
      PROVE  Rank(ps, p) # Rank(ps, r)
  <2>0. ps \subseteq Int /\ p \in Int /\ r \in Int
    BY MemoryAssumption, <1>3 DEF Predictions
  <2>1. {q \in ps : q >= r} \in SUBSET {q \in ps : q >= p}
    <3>1. ASSUME NEW q \in ps, q >= r
          PROVE  q >= p
      BY <1>3, <2>0, <3>1
    <3> QED
      BY <3>1
  <2>2. p \in {q \in ps : q >= p} /\ p \notin {q \in ps : q >= r}
    BY <1>3, <2>0
  <2>3. IsFiniteSet({q \in ps : q >= p})
    BY <1>1, FS_Subset
  <2> QED
    BY <2>1, <2>2, <2>3, FS_Subset DEF Rank
<1>4. rank \in [ps -> 1..n]
  BY <1>2
<1>5. \A p, r \in ps : rank[p] = rank[r] => p = r
  BY <1>3 DEF Predictions
<1>6. rank \in Injection(ps, 1..n)
  BY <1>4, <1>5 DEF Injection, IsInjective
<1>7. IsFiniteSet(1..n) /\ Cardinality(1..n) = n
  BY <1>1, FS_Interval
<1>8. rank \in Surjection(ps, 1..n)
  BY <1>6, <1>7, FS_Injection
<1> QED
  BY <1>8 DEF Surjection

\* A backfill handles members of the set only, and one at least.
LEMMA NewestFirstIsOfTheSet ==
    ASSUME NEW ps \in SUBSET Predictions, NEW limit \in Nat, ps # {}
    PROVE  NewestFirst(ps, limit) \in Seq(ps) /\ NewestFirst(ps, limit) # <<>>
<1> DEFINE n == Cardinality(ps)
<1> DEFINE ranked == [i \in 1..n |-> CHOOSE p \in ps : Cardinality({q \in ps : q >= p}) = i]
<1> DEFINE m == IF limit < Len(ranked) THEN limit ELSE Len(ranked)
<1>1. n \in Nat /\ n >= 1
  BY PredictionsAreFinite
<1>2. ranked \in [1..n -> ps]
  BY RanksAreTaken DEF Rank
<1>3. ASSUME NEW f \in [1..n -> ps]
      PROVE  f \in Seq(ps) /\ Len(f) = n
  BY <1>1
<1>3a. ranked \in Seq(ps) /\ Len(ranked) = n
  BY <1>2, <1>3
<1>3b. ASSUME NEW j \in Nat, j >= 1, j <= n
       PROVE  SubSeq(ranked, 1, j) \in Seq(ps) /\ Len(SubSeq(ranked, 1, j)) = j
  <2> HIDE DEF ranked
  <2>1. \A i \in 1..j : ranked[i] \in ps
    BY <1>1, <1>2, <1>3b
  <2> QED
    BY <1>3a, <1>3b, <2>1, SubSeqProperties
<1>4. CASE limit = 0
  <2>1. NewestFirst(ps, limit) = ranked
    BY <1>4 DEF NewestFirst
  <2> HIDE DEF ranked
  <2> QED
    BY <1>1, <1>3a, <2>1
<1>5. CASE limit # 0
  <2>1. NewestFirst(ps, limit) = SubSeq(ranked, 1, m)
    BY <1>5 DEF NewestFirst
  <2> HIDE DEF ranked
  <2>2. m \in Nat /\ m >= 1 /\ m <= n
    BY <1>1, <1>3a, <1>5
  <2>3. SubSeq(ranked, 1, m) \in Seq(ps) /\ Len(SubSeq(ranked, 1, m)) = m
    BY <1>3b, <2>2
  <2> QED
    BY <2>1, <2>2, <2>3
<1> QED
  BY <1>4, <1>5

-----------------------------------------------------------------------------
(* The inductive invariant. *)

\* A call handles terminal predictions only, has one at hand in the phases that
\* take one, has written its reasoning before it looks at its embedding, and
\* has counted scored predictions only.
SoundIn(j, terminal, built, scored) ==
    /\ j.todo \in Seq(terminal)
    /\ j.phase \in {"scan", "reason", "check", "embed"} => j.todo # <<>>
    /\ j.phase \in {"check", "embed"} => Head(j.todo) \in built
    /\ j.seen \subseteq scored

Jobs ==
    /\ job \in [Builders -> JobType]
    /\ \A b \in Builders : SoundIn(job[b], Terminal, reasoning, Scored)

IInv == TypeOK /\ MemoryIsOfTheCompleted /\ Jobs

LEMMA SoundIsKept ==
    ASSUME NEW j, NEW terminal, NEW built, NEW scored, NEW terminal2, NEW built2, NEW scored2,
           terminal \subseteq terminal2, built \subseteq built2, scored \subseteq scored2,
           SoundIn(j, terminal, built, scored)
    PROVE  SoundIn(j, terminal2, built2, scored2)
<1>1. j.todo \in Seq(terminal2)
  <2>1. j.todo \in Seq(terminal)
    BY DEF SoundIn
  <2>2. \A i \in 1..Len(j.todo) : j.todo[i] \in terminal
    BY <2>1, ElementOfSeq
  <2> QED
    BY <2>1, <2>2
<1> QED
  BY <1>1 DEF SoundIn

LEMMA IdleIsSound ==
    ASSUME NEW terminal, NEW built, NEW scored
    PROVE  IdleJob \in JobType /\ SoundIn(IdleJob, terminal, built, scored)
BY DEF IdleJob, JobType, SoundIn

LEMMA CountingIsSound ==
    ASSUME NEW seen \in SUBSET Predictions, NEW left \in SUBSET Buckets,
           NEW terminal, NEW built
    PROVE  LET j == [IdleJob EXCEPT !.phase = "rollup", !.seen = seen, !.left = left]
           IN  j \in JobType /\ SoundIn(j, terminal, built, seen)
<1> DEFINE j == [IdleJob EXCEPT !.phase = "rollup", !.seen = seen, !.left = left]
<1>1. j.phase = "rollup" /\ j.todo = <<>> /\ j.batch = FALSE /\ j.seen = seen /\ j.left = left
  BY DEF IdleJob
<1>2. IdleJob \in JobType
  BY IdleIsSound
<1>3. j \in JobType
  BY <1>2 DEF JobType
<1> HIDE DEF j
<1>4. SoundIn(j, terminal, built, seen)
  BY <1>1 DEF SoundIn
<1> QED
  BY <1>3, <1>4 DEF j

\* A prediction stays terminal, and scored; a reasoning row is never deleted.
LEMMA Growth ==
    ASSUME TypeOK, [Next]_vars
    PROVE  Terminal \subseteq Terminal' /\ Scored \subseteq Scored' /\ reasoning \subseteq reasoning'
<1> USE DEF TypeOK, Terminal, Scored
<1>1. ASSUME UNCHANGED status, reasoning \subseteq reasoning'
      PROVE  Terminal \subseteq Terminal' /\ Scored \subseteq Scored' /\ reasoning \subseteq reasoning'
  BY <1>1
<1>2. ASSUME NEW p \in Predictions, NEW how \in {"scored", "withdrawn"}, Resolve(p, how)
      PROVE  Terminal \subseteq Terminal' /\ Scored \subseteq Scored' /\ reasoning \subseteq reasoning'
  BY <1>2 DEF Resolve
<1>3. ASSUME NEW b \in Builders, BuilderStep(b)
      PROVE  UNCHANGED status /\ reasoning \subseteq reasoning'
  BY <1>3 DEF BuilderStep, BeginBuild, BeginBackfill, BeginRebuild, Scan, WriteReasoning,
              CheckEmbedding, CreateEmbedding, ReadCompleted, UpsertAggregate, WriteFails
<1>4. CASE Restart \/ UNCHANGED vars \/ \E p \in Predictions : StoreEmbedding(p)
  BY <1>1, <1>4 DEF Restart, vars, StoreEmbedding
<1> QED
  BY <1>1, <1>2, <1>3, <1>4 DEF Next

\* A step of one builder leaves the calls of the others as they are.
LEMMA OneJobChanges ==
    ASSUME IInv, [Next]_vars, NEW b \in Builders, NEW j \in JobType,
           job' = [job EXCEPT ![b] = j],
           SoundIn(j, Terminal', reasoning', Scored')
    PROVE  Jobs'
<1>1. job' \in [Builders -> JobType]
  BY DEF IInv, Jobs
<1>2. ASSUME NEW c \in Builders
      PROVE  SoundIn(job'[c], Terminal', reasoning', Scored')
  <2>1. CASE c = b
    BY <2>1 DEF IInv, Jobs
  <2>2. CASE c # b
    <3>1. job'[c] = job[c]
      BY <2>2 DEF IInv, Jobs
    <3>2. SoundIn(job[c], Terminal, reasoning, Scored)
      BY DEF IInv, Jobs
    <3>3. Terminal \subseteq Terminal' /\ Scored \subseteq Scored' /\ reasoning \subseteq reasoning'
      BY Growth DEF IInv
    <3> QED
      BY <3>1, <3>2, <3>3, SoundIsKept
  <2> QED
    BY <2>1, <2>2
<1> QED
  BY <1>1, <1>2 DEF Jobs

LEMMA JobsKept ==
    ASSUME IInv, [Next]_vars, UNCHANGED job
    PROVE  Jobs'
<1>1. Terminal \subseteq Terminal' /\ Scored \subseteq Scored' /\ reasoning \subseteq reasoning'
  BY Growth DEF IInv
<1>2. ASSUME NEW c \in Builders
      PROVE  SoundIn(job'[c], Terminal', reasoning', Scored')
  BY <1>1, SoundIsKept DEF IInv, Jobs
<1> QED
  BY <1>2 DEF IInv, Jobs

\* A call that has handled its prediction is sound.
LEMMA HandledIsSound ==
    ASSUME IInv, [Next]_vars, NEW b \in Builders, job[b].todo # <<>>, job' = Handled(b)
    PROVE  Jobs'
<1> DEFINE rest == Tail(job[b].todo)
           j == [job[b] EXCEPT !.todo = rest,
                               !.phase = IF rest = <<>> THEN "refresh" ELSE "scan"]
<1>1. job[b] \in JobType /\ SoundIn(job[b], Terminal, reasoning, Scored)
  BY DEF IInv, Jobs
<1>2. rest \in Seq(Terminal) /\ Terminal \subseteq Predictions
  BY <1>1, HeadTailProperties DEF SoundIn, Terminal
<1>3. rest \in Seq(Predictions)
  BY <1>1, HeadTailProperties DEF JobType
<1>4. j \in JobType
  BY <1>1, <1>3 DEF JobType
<1>5. SoundIn(j, Terminal, reasoning, Scored)
  BY <1>1, <1>2, <1>4 DEF SoundIn, JobType
<1>6. SoundIn(j, Terminal', reasoning', Scored')
  BY <1>5, Growth, SoundIsKept DEF IInv
<1>7. job' = [job EXCEPT ![b] = j]
  BY DEF Handled, IInv, Jobs
<1> QED
  BY <1>4, <1>6, <1>7, OneJobChanges

\* A step that writes no reasoning of an open prediction, no placeholder without
\* reasoning and no rollup of open predictions leaves the memory sound.
LEMMA MemoryKept ==
    ASSUME IInv, [Next]_vars,
           reasoning' \subseteq reasoning \cup Terminal,
           \A p \in Predictions :
              embedding'[p] = "placeholder" => embedding[p] = "placeholder" \/ p \in reasoning,
           \A k \in Buckets : rollup'[k] # rollup[k] => rollup'[k] \subseteq Members(k, Scored)
    PROVE  MemoryIsOfTheCompleted'
<1>1. Terminal \subseteq Terminal' /\ Scored \subseteq Scored' /\ reasoning \subseteq reasoning'
  BY Growth DEF IInv
<1>2. \A p \in reasoning' : status'[p] # "open"
  <2>1. reasoning \subseteq Terminal
    BY DEF IInv, MemoryIsOfTheCompleted, TypeOK, Terminal
  <2>2. reasoning' \subseteq Terminal'
    BY <1>1, <2>1
  <2> QED
    BY <2>2 DEF Terminal
<1>3. \A p \in Predictions : embedding'[p] = "placeholder" => p \in reasoning'
  BY <1>1 DEF IInv, MemoryIsOfTheCompleted
<1>4. ASSUME NEW k \in Buckets
      PROVE  rollup'[k] \subseteq Members(k, Scored')
  <2>1. rollup'[k] \subseteq Members(k, Scored)
    BY DEF IInv, MemoryIsOfTheCompleted
  <2> QED
    BY <1>1, <2>1 DEF Members
<1> QED
  BY <1>2, <1>3, <1>4 DEF MemoryIsOfTheCompleted

\* An abandoned call is sound.
LEMMA AbandonedIsSound ==
    ASSUME IInv, [Next]_vars, NEW b \in Builders, job' = Abandoned(b)
    PROVE  Jobs'
<1>1. CASE job[b].batch /\ job[b].phase \in {"reason", "embed"}
  <2>1. job[b].todo # <<>>
    BY <1>1 DEF IInv, Jobs, SoundIn
  <2> QED
    BY <1>1, <2>1, HandledIsSound DEF Abandoned
<1>2. CASE ~(job[b].batch /\ job[b].phase \in {"reason", "embed"})
  <2>1. job' = [job EXCEPT ![b] = IdleJob]
    BY <1>2 DEF Abandoned
  <2> QED
    BY <2>1, IdleIsSound, OneJobChanges
<1> QED
  BY <1>1, <1>2

LEMMA InitIsSound == Init => IInv
<1> SUFFICES ASSUME Init PROVE IInv
  OBVIOUS
<1> USE MemoryAssumption DEF Init
<1>1. TypeOK
  BY IdleIsSound DEF TypeOK
<1>2. MemoryIsOfTheCompleted
  BY DEF MemoryIsOfTheCompleted
<1>3. Jobs
  BY IdleIsSound DEF Jobs
<1> QED
  BY <1>1, <1>2, <1>3 DEF IInv

\* What a step writes, apart from the calls, is of its type.
LEMMA StepIsSound ==
    ASSUME IInv, [Next]_vars
    PROVE  IInv'
<1> USE MemoryAssumption
<1>0. Terminal \subseteq Predictions /\ Scored \subseteq Predictions
  BY DEF Terminal, Scored
\* The state but for the calls is kept by a step that only moves a call.
<1>1. ASSUME UNCHANGED <<status, reasoning, embedding, rollup>>, Jobs'
      PROVE  IInv'
  <2>1. MemoryIsOfTheCompleted'
    BY <1>1 DEF IInv, MemoryIsOfTheCompleted, Members, Scored
  <2>2. TypeOK'
    BY <1>1 DEF IInv, TypeOK, Jobs
  <2> QED
    BY <1>1, <2>1, <2>2 DEF IInv
<1>2. ASSUME NEW b \in Builders
      PROVE  job[b] \in JobType /\ SoundIn(job[b], Terminal, reasoning, Scored)
  BY DEF IInv, Jobs
<1>3. ASSUME NEW b \in Builders, NEW j \in JobType, job' = [job EXCEPT ![b] = j],
             SoundIn(j, Terminal, reasoning, Scored)
      PROVE  Jobs'
  BY <1>3, Growth, SoundIsKept, OneJobChanges DEF IInv
<1>4. ASSUME NEW b \in Builders, NEW p \in Predictions, BeginBuild(b, p)
      PROVE  IInv'
  <2> DEFINE j == [IdleJob EXCEPT !.phase = "reason", !.todo = <<p>>]
  <2>0. <<p>> \in Seq(Terminal) /\ <<p>> \in Seq(Predictions) /\ <<p>> # <<>>
    BY <1>4 DEF BeginBuild
  <2>1. j \in JobType /\ SoundIn(j, Terminal, reasoning, Scored)
    BY <2>0 DEF IdleJob, JobType, SoundIn
  <2> QED
    BY <1>1, <1>3, <1>4, <2>1 DEF BeginBuild
<1>5. ASSUME NEW b \in Builders, NEW limit \in Limits, BeginBackfill(b, limit)
      PROVE  IInv'
  <2> DEFINE j == [IdleJob EXCEPT !.phase = "scan", !.batch = TRUE,
                                  !.todo = NewestFirst(Terminal, limit)]
  <2>1. limit \in Nat /\ Terminal # {}
    BY <1>5 DEF BeginBackfill
  <2>2. NewestFirst(Terminal, limit) \in Seq(Terminal) /\ NewestFirst(Terminal, limit) # <<>>
    BY <1>0, <2>1, NewestFirstIsOfTheSet
  <2>3. NewestFirst(Terminal, limit) \in Seq(Predictions)
    BY <1>0, <2>2
  <2>4. j \in JobType /\ SoundIn(j, Terminal, reasoning, Scored)
    BY <2>2, <2>3 DEF IdleJob, JobType, SoundIn
  <2> QED
    BY <1>1, <1>3, <1>5, <2>4 DEF BeginBackfill
<1>6. ASSUME NEW b \in Builders, BeginRebuild(b)
      PROVE  IInv'
  <2> DEFINE j == [job[b] EXCEPT !.phase = "refresh"]
  <2>1. j \in JobType /\ SoundIn(j, Terminal, reasoning, Scored)
    BY <1>2 DEF JobType, SoundIn
  <2>2. job' = [job EXCEPT ![b] = j]
    BY <1>6 DEF BeginRebuild
  <2> QED
    BY <1>1, <1>3, <1>6, <2>1, <2>2 DEF BeginRebuild
<1>7. ASSUME NEW b \in Builders, Scan(b)
      PROVE  IInv'
  <2> DEFINE j == [job[b] EXCEPT !.phase = "reason"]
  <2>1. job[b].todo # <<>>
    BY <1>2, <1>7 DEF Scan, SoundIn
  <2>2. j \in JobType /\ SoundIn(j, Terminal, reasoning, Scored)
    BY <1>2, <2>1 DEF JobType, SoundIn
  <2>3. job' = Handled(b) \/ job' = [job EXCEPT ![b] = j]
    BY <1>7 DEF Scan
  <2>4. Jobs'
    BY <1>3, <2>1, <2>2, <2>3, HandledIsSound
  <2> QED
    BY <1>1, <1>7, <2>4 DEF Scan
<1>8. ASSUME NEW b \in Builders, WriteReasoning(b)
      PROVE  IInv'
  <2> DEFINE j == [job[b] EXCEPT !.phase = "check"]
             p == Head(job[b].todo)
  <2>1. job[b].todo # <<>> /\ job[b].todo \in Seq(Terminal)
    BY <1>2, <1>8 DEF WriteReasoning, SoundIn
  <2>2. p \in Terminal
    BY <2>1, HeadTailProperties
  <2>3. j \in JobType /\ SoundIn(j, Terminal, reasoning \cup {p}, Scored)
    BY <1>2, <2>1 DEF JobType, SoundIn
  <2>4. job' = [job EXCEPT ![b] = j] /\ reasoning' = reasoning \cup {p}
    BY <1>8 DEF WriteReasoning
  <2>5. SoundIn(j, Terminal', reasoning', Scored')
    BY <2>3, <2>4, Growth, SoundIsKept DEF IInv
  <2>6. Jobs'
    BY <2>3, <2>4, <2>5, OneJobChanges
  <2>7. MemoryIsOfTheCompleted'
    BY <1>8, <2>2, <2>4, MemoryKept DEF WriteReasoning
  <2>8. TypeOK'
    BY <1>0, <1>8, <2>2, <2>4, <2>6 DEF IInv, TypeOK, Jobs, WriteReasoning
  <2> QED
    BY <2>6, <2>7, <2>8 DEF IInv
<1>9. ASSUME NEW b \in Builders, CheckEmbedding(b)
      PROVE  IInv'
  <2> DEFINE j == [job[b] EXCEPT !.phase = "embed"]
  <2>1. job[b].todo # <<>>
    BY <1>2, <1>9 DEF CheckEmbedding, SoundIn
  <2>2. j \in JobType /\ SoundIn(j, Terminal, reasoning, Scored)
    BY <1>2, <1>9, <2>1 DEF CheckEmbedding, JobType, SoundIn
  <2>3. job' = Handled(b) \/ job' = [job EXCEPT ![b] = j]
    BY <1>9 DEF CheckEmbedding
  <2>4. Jobs'
    BY <1>3, <2>1, <2>2, <2>3, HandledIsSound
  <2> QED
    BY <1>1, <1>9, <2>4 DEF CheckEmbedding
<1>10. ASSUME NEW b \in Builders, CreateEmbedding(b)
       PROVE  IInv'
  <2> DEFINE p == Head(job[b].todo)
  <2>1. job[b].todo # <<>> /\ p \in reasoning
    BY <1>2, <1>10 DEF CreateEmbedding, SoundIn
  <2>2. CASE embedding[p] = "none"
    <3>1. embedding' = [embedding EXCEPT ![p] = "placeholder"] /\ job' = Handled(b)
      BY <1>10, <2>2 DEF CreateEmbedding
    <3>2. Jobs'
      BY <2>1, <3>1, HandledIsSound
    <3>3. \A q \in Predictions :
             embedding'[q] = "placeholder" => embedding[q] = "placeholder" \/ q \in reasoning
      BY <2>1, <3>1 DEF IInv, TypeOK
    <3>4. MemoryIsOfTheCompleted'
      BY <1>10, <3>3, MemoryKept DEF CreateEmbedding
    <3>5. TypeOK'
      BY <1>10, <3>1, <3>2 DEF IInv, TypeOK, Jobs, CreateEmbedding
    <3> QED
      BY <3>2, <3>4, <3>5 DEF IInv
  <2>3. CASE embedding[p] # "none"
    <3>1. job' = Abandoned(b) /\ UNCHANGED <<status, reasoning, embedding, rollup>>
      BY <1>10, <2>3 DEF CreateEmbedding
    <3> QED
      BY <1>1, <3>1, AbandonedIsSound
  <2> QED
    BY <2>2, <2>3
<1>11. ASSUME NEW b \in Builders, ReadCompleted(b)
       PROVE  IInv'
  <2> DEFINE j == [IdleJob EXCEPT !.phase = "rollup", !.seen = Scored,
                                  !.left = BucketsWith(Scored)]
  <2>0. BucketsWith(Scored) \in SUBSET Buckets /\ Scored \in SUBSET Predictions
    BY <1>0 DEF BucketsWith
  <2>1. j \in JobType /\ SoundIn(j, Terminal, reasoning, Scored)
    BY <2>0, CountingIsSound
  <2>2. job' = [job EXCEPT ![b] = IdleJob] \/ job' = [job EXCEPT ![b] = j]
    BY <1>11 DEF ReadCompleted
  <2>3. Jobs'
    BY <1>3, <2>1, <2>2, IdleIsSound
  <2> QED
    BY <1>1, <1>11, <2>3 DEF ReadCompleted
<1>12. ASSUME NEW b \in Builders, NEW k \in Buckets, UpsertAggregate(b, k)
       PROVE  IInv'
  <2> DEFINE j == [job[b] EXCEPT !.left = @ \ {k}]
  <2>1. j \in JobType /\ SoundIn(j, Terminal, reasoning, Scored)
    BY <1>2 DEF JobType, SoundIn
  <2>2. job' = [job EXCEPT ![b] = IdleJob] \/ job' = [job EXCEPT ![b] = j]
    BY <1>12 DEF UpsertAggregate, IInv, Jobs
  <2>3. Jobs'
    BY <1>3, <2>1, <2>2, IdleIsSound
  <2>4. rollup' = [rollup EXCEPT ![k] = Members(k, job[b].seen)]
    BY <1>12 DEF UpsertAggregate
  <2>5. Members(k, job[b].seen) \subseteq Members(k, Scored)
    BY <1>2 DEF SoundIn, Members
  <2>6. \A c \in Buckets : rollup'[c] # rollup[c] => rollup'[c] \subseteq Members(c, Scored)
    BY <2>4, <2>5 DEF IInv, TypeOK
  <2>7. MemoryIsOfTheCompleted'
    BY <1>12, <2>6, MemoryKept DEF UpsertAggregate
  <2>8. Members(k, job[b].seen) \in SUBSET Predictions
    BY <1>2 DEF JobType, Members
  <2>9. TypeOK'
    BY <1>12, <2>3, <2>4, <2>8 DEF IInv, TypeOK, Jobs, UpsertAggregate
  <2> QED
    BY <2>3, <2>7, <2>9 DEF IInv
<1>13. ASSUME NEW b \in Builders, WriteFails(b)
       PROVE  IInv'
  BY <1>1, <1>13, AbandonedIsSound DEF WriteFails
<1>14. ASSUME NEW p \in Predictions, NEW how \in {"scored", "withdrawn"}, Resolve(p, how)
       PROVE  IInv'
  <2>1. Jobs'
    BY <1>14, JobsKept DEF Resolve
  <2>2. MemoryIsOfTheCompleted'
    BY <1>14, MemoryKept DEF Resolve
  <2>3. TypeOK'
    BY <1>14, <2>1 DEF IInv, TypeOK, Jobs, Resolve
  <2> QED
    BY <2>1, <2>2, <2>3 DEF IInv
<1>15. ASSUME NEW p \in Predictions, StoreEmbedding(p)
       PROVE  IInv'
  <2>1. Jobs'
    BY <1>15, JobsKept DEF StoreEmbedding
  <2>2. \A q \in Predictions :
           embedding'[q] = "placeholder" => embedding[q] = "placeholder" \/ q \in reasoning
    BY <1>15 DEF StoreEmbedding, IInv, TypeOK
  <2>3. MemoryIsOfTheCompleted'
    BY <1>15, <2>2, MemoryKept DEF StoreEmbedding
  <2>4. TypeOK'
    BY <1>15, <2>1 DEF IInv, TypeOK, Jobs, StoreEmbedding
  <2> QED
    BY <2>1, <2>3, <2>4 DEF IInv
<1>16. CASE Restart
  <2>1. Jobs'
    BY <1>16, IdleIsSound DEF Jobs, Restart
  <2>2. MemoryIsOfTheCompleted'
    BY <1>16, MemoryKept DEF Restart
  <2>3. TypeOK'
    BY <1>16, <2>1 DEF IInv, TypeOK, Jobs, Restart
  <2> QED
    BY <2>1, <2>2, <2>3 DEF IInv
<1>17. CASE UNCHANGED vars
  BY <1>1, <1>17, JobsKept DEF vars
<1> QED
  BY <1>4, <1>5, <1>6, <1>7, <1>8, <1>9, <1>10, <1>11, <1>12, <1>13, <1>14, <1>15, <1>16, <1>17
     DEF Next, BuilderStep

-----------------------------------------------------------------------------
(* The theorems. *)

\* The memory, its calls and the types of both, in every reachable state.
THEOREM InductiveInvariant == Spec => []IInv
<1>1. IInv /\ [Next]_vars => IInv'
  BY StepIsSound
<1> QED
  BY InitIsSound, <1>1, PTL DEF Spec

\* Every variable keeps its type.
THEOREM TypeCorrect == Spec => []TypeOK
<1>1. IInv => TypeOK
  BY DEF IInv
<1> QED
  BY <1>1, InductiveInvariant, PTL

\* Whatever builders, backfills, rebuilds, failing writes and restarts do, the
\* reasoning and the rollups (app/memory/builder.py) are of completed predictions
\* only, and so are the placeholders, whatever vectors the generator stores of
\* predictions that nobody has built.
THEOREM MemoryIsSound == Spec => []MemoryIsOfTheCompleted
<1>1. IInv => MemoryIsOfTheCompleted
  BY DEF IInv
<1> QED
  BY <1>1, InductiveInvariant, PTL

\* A vector is never replaced by a placeholder: the insert of a builder that
\* looked before the generator stored is refused (store.create_embedding).
THEOREM VectorsAreKept == Spec => VectorsSurvive
<1> DEFINE Keeps == \A p \in Predictions : embedding[p] = "vector" => embedding'[p] = "vector"
<1>1. TypeOK /\ [Next]_vars => [Keeps]_vars
  <2> SUFFICES ASSUME TypeOK, Next
               PROVE  Keeps
    BY DEF vars
  <2>1. ASSUME NEW b \in Builders, BuilderStep(b)
        PROVE  Keeps
    <3>1. CASE CreateEmbedding(b)
      BY <3>1 DEF CreateEmbedding, TypeOK
    <3>2. CASE ~CreateEmbedding(b)
      <4>1. UNCHANGED embedding
        BY <2>1, <3>2 DEF BuilderStep, BeginBuild, BeginBackfill, BeginRebuild, Scan,
           WriteReasoning, CheckEmbedding, ReadCompleted, UpsertAggregate, WriteFails
      <4> QED
        BY <4>1
    <3> QED
      BY <3>1, <3>2
  <2>2. ASSUME NEW p \in Predictions, StoreEmbedding(p)
        PROVE  Keeps
    BY <2>2 DEF StoreEmbedding, TypeOK
  <2>3. ASSUME Restart \/ \E p \in Predictions : \E how \in {"scored", "withdrawn"} : Resolve(p, how)
        PROVE  Keeps
    BY <2>3 DEF Restart, Resolve
  <2> QED
    BY <2>1, <2>2, <2>3 DEF Next
<1> QED
  BY <1>1, TypeCorrect, PTL DEF Spec, VectorsSurvive

-----------------------------------------------------------------------------
(* Facts about the scripts, the only ones that look inside MIGRATIONS. *)

\* A migration has a number of statements.
LEMMA ScriptsAreFinite == \A v \in Versions : Len(MIGRATIONS[v]) \in Nat
<1>1. /\ Len(CreatePredictions) = 4
      /\ Len(CreateMemoryReasoning) = 2
      /\ Len(CreateMemoryEmbeddings) = 3
      /\ Len(CreateMemoryAggregates) = 2
      /\ Len(MemoryRetrievalIndexes) = 4
      /\ Len(CreateLearningRuns) = 2
      /\ Len(CreateLearningPatterns) = 3
      /\ Len(CreateLearningPatternStats) = 4
      /\ Len(CreateLearningRecommendations) = 5
  BY DEF CreatePredictions, CreateMemoryReasoning, CreateMemoryEmbeddings, CreateMemoryAggregates,
         MemoryRetrievalIndexes, CreateLearningRuns, CreateLearningPatterns,
         CreateLearningPatternStats, CreateLearningRecommendations
<1>2. Versions = 1..9
  BY DEF Versions, MIGRATIONS
<1> QED
  BY <1>1, <1>2 DEF MIGRATIONS

LEMMA VersionsAreNumbers == Versions \subseteq Nat /\ \A v \in Versions : 1..v \subseteq Versions
<1>1. Len(MIGRATIONS) = 9
  BY DEF MIGRATIONS
<1> QED
  BY <1>1 DEF Versions

\* A set of versions that is not empty has a lowest one.
LEMMA LowestVersion ==
    ASSUME NEW S \in SUBSET Versions, S # {}
    PROVE  LET v == CHOOSE v \in S : \A w \in S : v <= w IN v \in S
<1>1. S \subseteq Nat
  BY VersionsAreNumbers
<1>2. PICK v \in S : \A w \in S : <<w, v>> \notin OpToRel(<, Nat)
  BY <1>1, WFMin, NatLessThanWellFounded, Zenon
<1>3. \A w \in S : ~(w < v)
  BY <1>1, <1>2 DEF OpToRel
<1>4. \A w \in S : v <= w
  BY <1>1, <1>3
<1> QED
  BY <1>4

LEMMA Lowest ==
    ASSUME NEW release \in Versions, NEW done, (1..release) \ done # {}
    PROVE  LET S == (1..release) \ done
               v == CHOOSE v \in S : \A w \in S : v <= w
           IN  v \in S /\ v \in Versions /\ Len(MIGRATIONS[v]) \in Nat
<1> DEFINE S == (1..release) \ done
<1>1. S \in SUBSET Versions
  BY VersionsAreNumbers
<1>2. (CHOOSE v \in S : \A w \in S : v <= w) \in S
  BY <1>1, LowestVersion
<1> QED
  BY <1>1, <1>2, ScriptsAreFinite

-----------------------------------------------------------------------------
(* The inductive invariant. *)

\* What a start has installed so far: all of the versions it read or applied,
\* and of the current one the statements before its line.
Installed(p) ==
    /\ process[p].done \subseteq recorded
    /\ Pending(p) # {} =>
         /\ process[p].line <= Len(Script(p))
         /\ \A k \in 1..process[p].line : Script(p)[k].creates \in schema

Progress(p) ==
    /\ process[p].phase # "down" => process[p].release \in Versions
    /\ process[p].phase = "read" => process[p].done = {} /\ process[p].line = 0
    /\ process[p].phase = "apply" => Installed(p)
    /\ process[p].phase = "serve" => process[p].done \subseteq recorded /\ Pending(p) = {}

\* The argument: nothing drops a table or an index, so a statement that ran
\* stays installed whoever else runs it; a version is recorded after the last
\* statement of its script; and a start skips only what it read as recorded.
MigrationIInv ==
    /\ MigrationTypeOK
    /\ RecordedIsInstalled
    /\ \A p \in Processes : Progress(p)

\* The current migration is one of the pending ones.
LEMMA CurrentIsPending ==
    ASSUME NEW p \in Processes, process[p].release \in Versions, Pending(p) # {}
    PROVE  /\ Current(p) \in Pending(p) /\ Current(p) \in Versions
           /\ Len(Script(p)) \in Nat
  BY Lowest DEF Pending, Current, Script

LEMMA NextCurrentIsPending ==
    ASSUME NEW p \in Processes, process'[p].release \in Versions, Pending(p)' # {}
    PROVE  Len(Script(p)') \in Nat
  BY Lowest DEF Pending, Current, Script

LEMMA InitMigrationIInv == MigrationInit => MigrationIInv
<1> SUFFICES ASSUME MigrationInit PROVE MigrationIInv
  OBVIOUS
<1>1. Down \in Start
  BY DEF Down, Start
<1>2. MigrationTypeOK
  BY <1>1, MigrationsAssumption DEF MigrationInit, MigrationTypeOK
<1> QED
  BY <1>2 DEF MigrationInit, MigrationIInv, RecordedIsInstalled, Progress, Down

\* A start that is not touched keeps what it has, since nothing is dropped.
LEMMA OthersKeep ==
    ASSUME NEW q \in Processes, Progress(q), process'[q] = process[q],
           recorded \subseteq recorded', schema \subseteq schema'
    PROVE  Progress(q)'
<1>1. Pending(q)' = Pending(q) /\ Script(q)' = Script(q)
  BY DEF Pending, Script, Current
<1> QED
  BY <1>1 DEF Progress, Installed

LEMMA DownProgresses ==
    ASSUME NEW p \in Processes, process'[p] = Down
    PROVE  Progress(p)'
  BY DEF Progress, Down

\* A start that ends, by a crash or an error, takes nothing back.
LEMMA EndedStart ==
    ASSUME MigrationIInv, NEW p \in Processes, process' = [process EXCEPT ![p] = Down],
           schema' = schema, recorded' = recorded, faults' \in 0..MaxFaults
    PROVE  MigrationIInv'
<1> USE DEF MigrationIInv
<1>1. Down \in Start
  BY DEF Down, Start
<1>2. MigrationTypeOK'
  BY <1>1 DEF MigrationTypeOK
<1>3. Progress(p)'
  BY DownProgresses DEF MigrationTypeOK
<1>4. \A q \in Processes \ {p} : Progress(q)'
  BY OthersKeep DEF MigrationTypeOK
<1> QED
  BY <1>2, <1>3, <1>4 DEF RecordedIsInstalled

LEMMA StepMigrationIInv == MigrationIInv /\ [MigrationNext]_migrationVars => MigrationIInv'
<1> SUFFICES ASSUME MigrationIInv, [MigrationNext]_migrationVars PROVE MigrationIInv'
  OBVIOUS
<1> USE DEF MigrationIInv
<1>down. Down \in Start
  BY DEF Down, Start
<1>1. ASSUME NEW p \in Processes, NEW release \in Releases, Launch(p, release) PROVE MigrationIInv'
  <2>1. process'[p] = [Down EXCEPT !.phase = "read", !.release = release]
    BY <1>1 DEF Launch, MigrationTypeOK
  <2>2. release \in Versions
    BY MigrationsAssumption
  <2>3. MigrationTypeOK'
    BY <1>1, <1>down, <2>2 DEF Launch, MigrationTypeOK, Start, Down
  <2>4. Progress(p)'
    BY <2>1, <2>2 DEF Progress, Down
  <2>5. \A q \in Processes \ {p} : Progress(q)'
    BY <1>1, OthersKeep DEF Launch, MigrationTypeOK
  <2> QED
    BY <1>1, <2>3, <2>4, <2>5 DEF Launch, RecordedIsInstalled
<1>2. ASSUME NEW p \in Processes, ReadApplied(p) PROVE MigrationIInv'
  <2>1. process'[p] = [process[p] EXCEPT !.phase = "apply", !.done = recorded]
    BY <1>2 DEF ReadApplied, MigrationTypeOK
  <2>2. MigrationTypeOK'
    BY <1>2 DEF ReadApplied, MigrationTypeOK, Start
  <2>3. process[p].release \in Versions /\ process[p].line = 0 /\ process[p] \in Start
    BY <1>2 DEF ReadApplied, Progress, MigrationTypeOK
  <2>4. process'[p].phase = "apply" /\ process'[p].release \in Versions
        /\ process'[p].done = recorded' /\ process'[p].line = 0
    BY <1>2, <2>1, <2>3 DEF ReadApplied, Start
  <2>5. Pending(p)' # {} => Len(Script(p)') \in Nat
    BY <2>4, NextCurrentIsPending
  <2>6. Progress(p)'
    BY <2>4, <2>5 DEF Progress, Installed
  <2>7. \A q \in Processes \ {p} : Progress(q)'
    BY <1>2, OthersKeep DEF ReadApplied, MigrationTypeOK
  <2> QED
    BY <1>2, <2>2, <2>6, <2>7 DEF ReadApplied, RecordedIsInstalled
<1>3. ASSUME NEW p \in Processes, RunStatement(p) PROVE MigrationIInv'
  <2> DEFINE line == process[p].line
  <2>1. /\ process[p] \in Start /\ process[p].phase = "apply"
        /\ process[p].release \in Versions /\ Pending(p) # {} /\ Installed(p)
    BY <1>3 DEF RunStatement, MigrationTypeOK, Progress
  <2>2. line \in Nat /\ Len(Script(p)) \in Nat /\ Current(p) \in Versions /\ line < Len(Script(p))
    BY <1>3, <2>1, CurrentIsPending DEF RunStatement, Start
  <2>3. CASE Accepted(Statement(p))
    <3>1. /\ schema' = schema \cup {Statement(p).creates}
          /\ process' = [process EXCEPT ![p].line = @ + 1]
          /\ UNCHANGED <<recorded, faults>>
      BY <1>3, <2>3 DEF RunStatement
    <3>2. Statement(p).creates \in Objects(Current(p))
      BY <2>2 DEF Statement, Script, Objects
    <3>3. MigrationTypeOK'
      <4>1. schema' \subseteq UNION {Objects(v) : v \in Versions}
        BY <2>2, <3>1, <3>2 DEF MigrationTypeOK
      <4>2. [process[p] EXCEPT !.line = line + 1] \in Start
        BY <2>1, <2>2 DEF Start
      <4>3. process' \in [Processes -> Start]
        BY <3>1, <4>2 DEF MigrationTypeOK
      <4> QED
        BY <3>1, <4>1, <4>3 DEF MigrationTypeOK
    <3>4. /\ process'[p].phase = "apply" /\ process'[p].done = process[p].done
          /\ process'[p].release = process[p].release /\ process'[p].line = line + 1
      BY <2>1, <3>1 DEF MigrationTypeOK, Start
    <3>5. Pending(p)' = Pending(p) /\ Script(p)' = Script(p)
      BY <3>4 DEF Pending, Script, Current
    <3>6. \A k \in 1..(line + 1) : Script(p)[k].creates \in schema'
      BY <2>1, <2>2, <3>1 DEF Installed, Statement
    <3>7. Progress(p)'
      BY <2>1, <2>2, <3>1, <3>4, <3>5, <3>6 DEF Progress, Installed
    <3>8. \A q \in Processes \ {p} : Progress(q)'
      BY <3>1, OthersKeep DEF MigrationTypeOK
    <3>9. RecordedIsInstalled'
      BY <3>1 DEF RecordedIsInstalled
    <3> QED
      BY <3>3, <3>7, <3>8, <3>9
  <2>4. CASE ~Accepted(Statement(p))
    <3>1. process' = [process EXCEPT ![p] = Down] /\ UNCHANGED <<schema, recorded, faults>>
      BY <1>3, <2>4 DEF RunStatement
    <3> QED
      BY <3>1, EndedStart DEF MigrationTypeOK
  <2> QED
    BY <2>3, <2>4
<1>4. ASSUME NEW p \in Processes, RecordVersion(p) PROVE MigrationIInv'
  <2>1. /\ process[p] \in Start /\ process[p].release \in Versions
        /\ Pending(p) # {} /\ Installed(p)
    BY <1>4 DEF RecordVersion, MigrationTypeOK, Progress
  <2>2. Current(p) \in Versions
    BY <2>1, CurrentIsPending
  <2>3. Objects(Current(p)) \subseteq schema
    BY <1>4, <2>1 DEF RecordVersion, ScriptIsThrough, Installed, Objects, Script
  <2>4. /\ recorded' = recorded \cup {Current(p)} /\ schema' = schema /\ faults' = faults
        /\ process' = [process EXCEPT ![p].done = @ \cup {Current(p)}, ![p].line = 0]
    BY <1>4 DEF RecordVersion
  <2>5. MigrationTypeOK'
    BY <2>2, <2>4 DEF MigrationTypeOK, Start
  <2>6. RecordedIsInstalled'
    BY <2>3, <2>4 DEF RecordedIsInstalled
  <2>7. /\ process'[p].phase = "apply" /\ process'[p].line = 0
        /\ process'[p].done = process[p].done \cup {Current(p)}
        /\ process'[p].release = process[p].release
    BY <1>4, <2>4 DEF RecordVersion, MigrationTypeOK, Start
  <2>8. Progress(p)'
    <3>1. Pending(p)' # {} => Len(Script(p)') \in Nat
      BY <2>1, <2>7, NextCurrentIsPending
    <3>2. process'[p].done \subseteq recorded'
      BY <2>1, <2>4, <2>7 DEF Installed
    <3> QED
      BY <2>1, <2>7, <3>1, <3>2 DEF Progress, Installed
  <2>9. \A q \in Processes \ {p} : Progress(q)'
    BY <2>4, OthersKeep DEF MigrationTypeOK
  <2> QED
    BY <2>5, <2>6, <2>8, <2>9
<1>5. ASSUME NEW p \in Processes, VersionTaken(p) PROVE MigrationIInv'
  BY <1>5, EndedStart DEF VersionTaken, MigrationTypeOK
<1>6. ASSUME NEW p \in Processes, NextStore(p) PROVE MigrationIInv'
  <2>1. process[p] \in Start /\ process[p].release \in Versions
        /\ process[p].done \subseteq recorded /\ Pending(p) = {}
    BY <1>6 DEF NextStore, Returned, MigrationTypeOK, Progress, Installed
  <2>2. UNCHANGED <<schema, recorded, faults>>
    BY <1>6 DEF NextStore
  <2>3. \/ process' = [process EXCEPT ![p].phase = "read", ![p].store = 2,
                                      ![p].done = {}, ![p].line = 0]
        \/ process' = [process EXCEPT ![p].phase = "serve", ![p].line = 0]
    BY <1>6 DEF NextStore
  <2>4. MigrationTypeOK'
    BY <2>2, <2>3 DEF MigrationTypeOK, Start
  <2>5. process'[p].release = process[p].release
    BY <2>3 DEF MigrationTypeOK, Start
  <2>6. \/ process'[p].phase = "read" /\ process'[p].done = {} /\ process'[p].line = 0
        \/ process'[p].phase = "serve" /\ process'[p].done = process[p].done
    BY <2>3 DEF MigrationTypeOK, Start
  <2>7. Progress(p)'
    BY <2>1, <2>2, <2>5, <2>6 DEF Progress, Pending
  <2>8. \A q \in Processes \ {p} : Progress(q)'
    BY <2>2, <2>3, OthersKeep DEF MigrationTypeOK
  <2> QED
    BY <2>2, <2>4, <2>7, <2>8 DEF RecordedIsInstalled
<1>7. ASSUME NEW p \in Processes, Dies(p) PROVE MigrationIInv'
  <2>1. faults' \in 0..MaxFaults
    BY <1>7, MigrationsAssumption DEF Dies, MigrationTypeOK
  <2> QED
    BY <1>7, <2>1, EndedStart DEF Dies
<1>8. ASSUME UNCHANGED migrationVars PROVE MigrationIInv'
  <2>1. \A q \in Processes : Progress(q)'
    BY <1>8, OthersKeep DEF migrationVars
  <2> QED
    BY <1>8, <2>1 DEF migrationVars, MigrationTypeOK, RecordedIsInstalled
<1> QED
  BY <1>1, <1>2, <1>3, <1>4, <1>5, <1>6, <1>7, <1>8 DEF MigrationNext, StartStep

-----------------------------------------------------------------------------
(* Theorems. *)

\* The invariant holds of every run of the starts.
THEOREM MigrationInductiveInvariant == MigrationSpec => []MigrationIInv
  BY InitMigrationIInv, StepMigrationIInv, PTL DEF MigrationSpec

\* The schema, the bookkeeping and the starts are what they should be
\* (run_migrations).
THEOREM MigrationTypeCorrect == MigrationSpec => []MigrationTypeOK
<1>1. MigrationIInv => MigrationTypeOK
  BY DEF MigrationIInv
<1> QED
  BY <1>1, MigrationInductiveInvariant, PTL

\* A recorded version is installed: what run_migrations skips is there.
THEOREM SkippedIsInstalled == MigrationSpec => []RecordedIsInstalled
<1>1. MigrationIInv => RecordedIsInstalled
  BY DEF MigrationIInv
<1> QED
  BY <1>1, MigrationInductiveInvariant, PTL

\* A serving process finds the whole schema of its release, however many starts
\* overlapped, died or raised beside it.
THEOREM SchemaIsServed == MigrationSpec => []ServesOnItsSchema
<1>1. MigrationIInv => ServesOnItsSchema
  <2> SUFFICES ASSUME MigrationIInv, NEW p \in Processes, process[p].phase = "serve",
                      NEW v \in 1..process[p].release
               PROVE  Objects(v) \subseteq schema
    BY DEF ServesOnItsSchema
  <2>1. v \in recorded
    BY DEF MigrationIInv, Progress, Pending
  <2> QED
    BY <2>1 DEF MigrationIInv, RecordedIsInstalled
<1> QED
  BY <1>1, MigrationInductiveInvariant, PTL

=============================================================================
