-------------------------- MODULE Workflow_proofs --------------------------
(***************************************************************************)
(* Proofs about the validator of workflow definitions and about sessions,  *)
(* for definitions of any size.                                            *)
(***************************************************************************)
EXTENDS WorkflowSession, FiniteSetTheorems, TLAPS

-----------------------------------------------------------------------------
(* A finite set of numbers in ascending order *)

Below(set, n) == {m \in set : m < n}
Rank(set, n) == Cardinality(Below(set, n))

LEMMA RankType ==
    ASSUME NEW set, IsFiniteSet(set), set \subseteq Int, NEW n \in set
    PROVE  Rank(set, n) \in 0..(Cardinality(set) - 1)
<1>1. IsFiniteSet(Below(set, n)) /\ Cardinality(Below(set, n)) <= Cardinality(set)
      /\ (Cardinality(set) = Cardinality(Below(set, n)) => set = Below(set, n))
  <2>1. Below(set, n) \in SUBSET set
    BY DEF Below
  <2> QED
    BY <2>1, FS_Subset
<1>2. set # Below(set, n)
  BY DEF Below
<1>3. Cardinality(set) \in Nat /\ Cardinality(Below(set, n)) \in Nat
  BY <1>1, FS_CardinalityType
<1> QED
  BY <1>1, <1>2, <1>3 DEF Rank

LEMMA RankGrows ==
    ASSUME NEW set, IsFiniteSet(set), set \subseteq Int, NEW m \in set, NEW n \in set, m < n
    PROVE  Rank(set, m) < Rank(set, n)
<1>1. Below(set, m) \in SUBSET Below(set, n) /\ m \in Below(set, n) /\ m \notin Below(set, m)
  <2>1. m \in Int /\ n \in Int /\ \A k \in set : k \in Int
    OBVIOUS
  <2>2. \A k \in Below(set, m) : k \in Below(set, n)
    BY <2>1 DEF Below
  <2>3. m \in Below(set, n) /\ m \notin Below(set, m)
    BY <2>1 DEF Below
  <2> QED
    BY <2>2, <2>3
<1>2. Below(set, n) \in SUBSET set
  BY DEF Below
<1>3. IsFiniteSet(Below(set, n))
  BY <1>2, FS_Subset
<1>4. /\ IsFiniteSet(Below(set, m))
      /\ Cardinality(Below(set, m)) <= Cardinality(Below(set, n))
      /\ Cardinality(Below(set, n)) = Cardinality(Below(set, m)) => Below(set, n) = Below(set, m)
  BY <1>1, <1>3, FS_Subset
<1>5. Cardinality(Below(set, m)) \in Nat /\ Cardinality(Below(set, n)) \in Nat
  BY <1>3, <1>4, FS_CardinalityType
<1> QED
  BY <1>1, <1>4, <1>5 DEF Rank

LEMMA RankIsUnique ==
    ASSUME NEW set, IsFiniteSet(set), set \subseteq Int, NEW m \in set, NEW n \in set,
           Rank(set, m) = Rank(set, n)
    PROVE  m = n
<1>1. Rank(set, m) \in Int /\ Rank(set, n) \in Int
  <2>1. Cardinality(set) \in Nat
    BY FS_CardinalityType
  <2>2. Rank(set, m) \in 0..(Cardinality(set) - 1)
    BY RankType
  <2> QED
    BY <2>1, <2>2
<1>2. m \in Int /\ n \in Int
  OBVIOUS
<1>3. ASSUME m < n
      PROVE  FALSE
  <2>1. Rank(set, m) < Rank(set, n)
    BY <1>3, RankGrows
  <2> QED
    BY <1>1, <2>1
<1>4. ASSUME n < m
      PROVE  FALSE
  <2>1. Rank(set, n) < Rank(set, m)
    BY <1>4, RankGrows
  <2> QED
    BY <1>1, <2>1
<1> QED
  BY <1>2, <1>3, <1>4

\* Every rank is someone's: the pigeonhole principle.
LEMMA RankIsTaken ==
    ASSUME NEW set, IsFiniteSet(set), set \subseteq Int, NEW r \in 0..(Cardinality(set) - 1)
    PROVE  \E n \in set : Rank(set, n) = r
<1> DEFINE ranks == 0..(Cardinality(set) - 1)
           rank == [n \in set |-> Rank(set, n)]
<1>1. Cardinality(set) \in Nat
  BY FS_CardinalityType
<1>2. IsFiniteSet(ranks) /\ Cardinality(ranks) = Cardinality(set)
  BY <1>1, FS_Interval
<1>3. rank \in [set -> ranks]
  BY RankType
<1>4. rank \in Injection(set, ranks)
  BY <1>3, RankIsUnique DEF Injection, IsInjective
<1>5. rank \in Surjection(set, ranks)
  BY <1>2, <1>4, FS_Injection
<1> QED
  BY <1>5 DEF Surjection

\* The sequence holds the members of the set, each in its place.
LEMMA AscendingHolds ==
    ASSUME NEW set, IsFiniteSet(set), set \subseteq Int
    PROVE  /\ Ascending(set) \in Seq(set)
           /\ ToSteps(Ascending(set)) = set
           /\ set # {} => Len(Ascending(set)) > 0
<1> DEFINE n == Cardinality(set)
           s == Ascending(set)
<1>1. n \in Nat
  BY FS_CardinalityType
<1>2. s = [i \in 1..n |-> CHOOSE m \in set : Rank(set, m) = i - 1]
  BY DEF Ascending, Rank, Below
<1>3. ASSUME NEW i \in 1..n
      PROVE  s[i] \in set /\ Rank(set, s[i]) = i - 1
  <2>0. i - 1 \in 0..(n - 1)
    BY <1>1
  <2>1. \E m \in set : Rank(set, m) = i - 1
    BY <2>0, RankIsTaken
  <2> QED
    BY <1>2, <2>1
<1>4. s \in Seq(set) /\ Len(s) = n
  BY <1>1, <1>2, <1>3
<1>5. ASSUME NEW m \in set
      PROVE  \E i \in 1..n : s[i] = m
  <2>1. Rank(set, m) \in 0..(n - 1)
    BY RankType
  <2>2. Rank(set, m) + 1 \in 1..n
    BY <1>1, <2>1
  <2>3. s[Rank(set, m) + 1] \in set /\ Rank(set, s[Rank(set, m) + 1]) = Rank(set, m)
    BY <1>3, <2>1, <2>2
  <2>4. s[Rank(set, m) + 1] = m
    BY <2>3, RankIsUnique
  <2> QED
    BY <2>2, <2>4
<1>6. ToSteps(s) = set
  BY <1>3, <1>4, <1>5 DEF ToSteps
<1>7. set # {} => n > 0
  BY <1>1, FS_EmptySet
<1> QED
  BY <1>4, <1>6, <1>7

-----------------------------------------------------------------------------
(* Definitions *)

\* What the searches need of a definition.
Sound(d) ==
    /\ DOMAIN d = {"steps", "transitions", "initial_step", "metadata"}
    /\ d.steps \in Seq(ToSteps(d.steps))
    /\ Ids(d) \subseteq Int

LEMMA TakenIsSound ==
    ASSUME NEW d, Sound(d)
    PROVE  /\ Sound(WithInitialStep(d))
           /\ Coherent(d) => LET e == WithInitialStep(d) IN e.initial_step \in Ids(e)
<1>1. CASE d.initial_step # None
  BY <1>1 DEF WithInitialStep, Coherent
<1>2. CASE d.initial_step = None
  <2> DEFINE e == [d EXCEPT !.initial_step = d.steps[1].step_id]
  <2>1. /\ WithInitialStep(d) = e
        /\ DOMAIN e = {"steps", "transitions", "initial_step", "metadata"}
        /\ e.steps = d.steps
        /\ e.initial_step = d.steps[1].step_id
    BY <1>2 DEF WithInitialStep, Sound
  <2> HIDE DEF e
  <2>2. Sound(e) /\ Ids(e) = Ids(d)
    BY <2>1 DEF Sound, Ids
  <2>3. ASSUME d.steps # <<>>
        PROVE  d.steps[1].step_id \in Ids(d)
    <3>1. d.steps[1] \in ToSteps(d.steps)
      BY <2>3 DEF Sound, ToSteps
    <3> QED
      BY <3>1 DEF Ids
  <2> QED
    BY <2>1, <2>2, <2>3 DEF Coherent
<1> QED
  BY <1>1, <1>2

LEMMA IdsFinite ==
    ASSUME NEW d, Sound(d)
    PROVE  IsFiniteSet(Ids(d))
<1> DEFINE n == Len(d.steps)
           f == [i \in 1..n |-> d.steps[i].step_id]
<1>1. n \in Nat /\ IsFiniteSet(1..n)
  BY FS_Interval DEF Sound
<1>2. \A i \in 1..n : d.steps[i].step_id \in Ids(d)
  BY DEF Ids, ToSteps
<1>3. \A id \in Ids(d) : \E i \in 1..n : f[i] = id
  BY DEF Ids, ToSteps
<1>4. f \in Surjection(1..n, Ids(d))
  BY <1>2, <1>3 DEF Surjection
<1> QED
  BY <1>1, <1>4, FS_Surjection

LEMMA SuccessorsFinite ==
    ASSUME NEW d, Sound(d), NEW n
    PROVE  /\ Successors(d, n) \subseteq Ids(d) \ {n}
           /\ IsFiniteSet(Successors(d, n))
           /\ Successors(d, n) \subseteq Int
<1>1. Successors(d, n) \subseteq Ids(d) \ {n}
  BY DEF Successors
<1>2. IsFiniteSet(Successors(d, n))
  BY <1>1, IdsFinite, FS_Subset
<1> QED
  BY <1>1, <1>2 DEF Sound

-----------------------------------------------------------------------------
(* Colouring: c the colours, f the open calls of visit *)

Colours == {"WHITE", "GREY", "BLACK"}
Frame == [node : Int, left : Seq(Int)]

Blacks(d, c) == {n \in Ids(d) : c[n] = "BLACK"}

HasKnot(d) == \E set \in SUBSET Ids(d) : Knotted(d, set)

\* The open calls are a path, of the grey steps, each once.
PathOpen(d, c, f) ==
    /\ f \in Seq(Frame)
    /\ \A k \in 1..Len(f) : f[k].node \in Ids(d) /\ c[f[k].node] = "GREY"
    /\ \A n \in Ids(d) : c[n] = "GREY" => \E k \in 1..Len(f) : f[k].node = n
    /\ \A j, k \in 1..Len(f) : f[j].node = f[k].node => j = k
    /\ \A k \in 1..Len(f) : k < Len(f) => f[k + 1].node \in Successors(d, f[k].node)

\* What a call has left are successors; those that it has not left are black,
\* or open in the next call.
CallsKnow(d, c, f) ==
    \A k \in 1..Len(f) :
        /\ ToSteps(f[k].left) \subseteq Successors(d, f[k].node)
        /\ \A n \in Successors(d, f[k].node) :
              \/ n \in Blacks(d, c)
              \/ n \in ToSteps(f[k].left)
              \/ k < Len(f) /\ n = f[k + 1].node

\* Black steps lead to black steps only, and no knot is among them.
BlackIsClear(d, c) ==
    /\ \A n \in Blacks(d, c) : Successors(d, n) \subseteq Blacks(d, c)
    /\ \A set \in SUBSET Blacks(d, c) : ~Knotted(d, set)

Colouring(d, c, f) ==
    /\ c \in [Ids(d) -> Colours]
    /\ PathOpen(d, c, f)
    /\ CallsKnow(d, c, f)
    /\ BlackIsClear(d, c)

LEMMA Split ==
    ASSUME NEW s \in Seq(Int), s # <<>>
    PROVE  /\ Tail(s) \in Seq(Int)
           /\ ToSteps(s) = {s[1]} \cup ToSteps(Tail(s))
           /\ s[1] \in ToSteps(s)
<1>1. /\ Tail(s) \in Seq(Int) /\ Len(s) \in Nat /\ Len(s) >= 1 /\ Len(Tail(s)) = Len(s) - 1
      /\ \A i \in 1..(Len(s) - 1) : Tail(s)[i] = s[i + 1]
  OBVIOUS
<1>2. \A i \in 1..Len(s) : i = 1 \/ (i - 1 \in 1..(Len(s) - 1) /\ s[i] = Tail(s)[i - 1])
  BY <1>1
<1>3. \A i \in 1..(Len(s) - 1) : i + 1 \in 1..Len(s)
  BY <1>1
<1> QED
  BY <1>1, <1>2, <1>3 DEF ToSteps

\* A new call.
Opened(d, n) == [node |-> n, left |-> Ascending(Successors(d, n))]

LEMMA OpenedType ==
    ASSUME NEW d, Sound(d), NEW n \in Ids(d)
    PROVE  /\ Opened(d, n) \in Frame
           /\ Opened(d, n).node = n
           /\ ToSteps(Opened(d, n).left) = Successors(d, n)
<1>1. /\ Ascending(Successors(d, n)) \in Seq(Successors(d, n))
      /\ ToSteps(Ascending(Successors(d, n))) = Successors(d, n)
  BY SuccessorsFinite, AscendingHolds
<1>2. Ascending(Successors(d, n)) \in Seq(Int)
  BY <1>1, SuccessorsFinite
<1>3. n \in Int
  BY DEF Sound
<1> QED
  BY <1>1, <1>2, <1>3 DEF Opened, Frame

LEMMA RootOpens ==
    ASSUME NEW d, Sound(d), NEW c, Colouring(d, c, <<>>),
           NEW n \in Ids(d), c[n] = "WHITE"
    PROVE  Colouring(d, [c EXCEPT ![n] = "GREY"], <<Opened(d, n)>>)
<1> DEFINE c2 == [c EXCEPT ![n] = "GREY"]
           f2 == <<Opened(d, n)>>
<1>1. /\ c2 \in [Ids(d) -> Colours]
      /\ c2[n] = "GREY"
      /\ \A m \in Ids(d) : m # n => c2[m] = c[m]
  BY DEF Colouring, Colours
<1>2. \A m \in Ids(d) : c[m] # "GREY"
  BY DEF Colouring, PathOpen
<1>3. Blacks(d, c2) = Blacks(d, c)
  BY <1>1 DEF Blacks
<1>4. f2 \in Seq(Frame) /\ Len(f2) = 1 /\ f2[1] = Opened(d, n)
  BY OpenedType
<1>5. f2[1].node = n /\ ToSteps(f2[1].left) = Successors(d, n)
  BY <1>4, OpenedType
<1> HIDE DEF c2, f2
<1>6. PathOpen(d, c2, f2)
  BY <1>1, <1>2, <1>4, <1>5 DEF PathOpen
<1>7. CallsKnow(d, c2, f2)
  BY <1>4, <1>5 DEF CallsKnow
<1> QED
  BY <1>1, <1>3, <1>6, <1>7 DEF Colouring, BlackIsClear, c2, f2

LEMMA AllBlack ==
    ASSUME NEW d, NEW c, Colouring(d, c, <<>>), {n \in DOMAIN c : c[n] = "WHITE"} = {}
    PROVE  ~HasKnot(d)
<1>1. \A n \in Ids(d) : c[n] # "GREY"
  BY DEF Colouring, PathOpen
<1>2. \A n \in Ids(d) : c[n] \in Colours /\ c[n] # "WHITE"
  BY DEF Colouring
<1>3. Ids(d) = Blacks(d, c)
  BY <1>1, <1>2 DEF Blacks, Colours
<1> QED
  BY <1>3 DEF HasKnot, Colouring, BlackIsClear

\* The innermost call goes on to its next successor.
Advanced(f) == [f EXCEPT ![Len(f)].left = Tail(@)]

LEMMA AdvancedType ==
    ASSUME NEW f \in Seq(Frame), f # <<>>, f[Len(f)].left # <<>>
    PROVE  /\ Advanced(f) \in Seq(Frame)
           /\ Len(Advanced(f)) = Len(f)
           /\ \A k \in 1..Len(f) : Advanced(f)[k].node = f[k].node
           /\ \A k \in 1..Len(f) : k < Len(f) => Advanced(f)[k] = f[k]
           /\ Advanced(f)[Len(f)].left = Tail(f[Len(f)].left)
<1> DEFINE top == f[Len(f)]
           new == [top EXCEPT !.left = Tail(@)]
<1>1. Len(f) \in Nat /\ Len(f) \in 1..Len(f)
  OBVIOUS
<1>2. top \in Frame
  BY <1>1
<1>3. Tail(top.left) \in Seq(Int)
  BY <1>2, Split DEF Frame
<1>4. new.node = top.node /\ new.left = Tail(top.left) /\ new \in Frame
  BY <1>2, <1>3 DEF Frame
<1>5. Advanced(f) = [f EXCEPT ![Len(f)] = new]
  BY DEF Advanced
<1> HIDE DEF new
<1>6. /\ Advanced(f) \in Seq(Frame) /\ Len(Advanced(f)) = Len(f)
      /\ \A k \in 1..Len(f) : Advanced(f)[k] = IF k = Len(f) THEN new ELSE f[k]
  BY <1>1, <1>4, <1>5
<1> QED
  BY <1>1, <1>4, <1>6

\* The successor is black: the call goes on.
LEMMA CallSkips ==
    ASSUME NEW d, NEW c, NEW f, Colouring(d, c, f), f # <<>>,
           f[Len(f)].left # <<>>, c[f[Len(f)].left[1]] \notin {"GREY", "WHITE"}
    PROVE  Colouring(d, c, Advanced(f))
<1> DEFINE n == Len(f)
           m == f[n].left[1]
           f2 == Advanced(f)
<1>1. /\ f \in Seq(Frame) /\ n \in Nat /\ n \in 1..n /\ f[n] \in Frame
      /\ c \in [Ids(d) -> Colours]
  BY DEF Colouring, PathOpen
<1>2. /\ f2 \in Seq(Frame) /\ Len(f2) = n
      /\ \A k \in 1..n : f2[k].node = f[k].node
      /\ \A k \in 1..n : k < n => f2[k] = f[k]
      /\ f2[n].left = Tail(f[n].left)
  BY <1>1, AdvancedType
<1>3. /\ ToSteps(f[n].left) = {m} \cup ToSteps(f2[n].left)
  BY <1>1, <1>2, Split DEF Frame
<1>4. m \in Successors(d, f[n].node)
  BY <1>1, <1>3 DEF Colouring, CallsKnow
<1>5. m \in Blacks(d, c)
  <2>1. m \in Ids(d)
    BY <1>4 DEF Successors
  <2> QED
    BY <1>1, <2>1 DEF Blacks, Colours
<1> HIDE DEF f2, m, n
<1>6. PathOpen(d, c, f2)
  <2>1. \A k \in 1..n : k < n => k + 1 \in 1..n
    BY <1>1
  <2> QED
    BY <1>2, <2>1 DEF Colouring, PathOpen, n
<1>7. CallsKnow(d, c, f2)
  <2> SUFFICES ASSUME NEW k \in 1..n
               PROVE  /\ ToSteps(f2[k].left) \subseteq Successors(d, f2[k].node)
                      /\ \A x \in Successors(d, f2[k].node) :
                            \/ x \in Blacks(d, c)
                            \/ x \in ToSteps(f2[k].left)
                            \/ k < n /\ x = f2[k + 1].node
    BY <1>2 DEF CallsKnow
  <2>1. /\ ToSteps(f[k].left) \subseteq Successors(d, f[k].node)
        /\ \A x \in Successors(d, f[k].node) :
              x \in Blacks(d, c) \/ x \in ToSteps(f[k].left) \/ (k < n /\ x = f[k + 1].node)
    BY DEF Colouring, CallsKnow, n
  <2>2. CASE k = n
    BY <1>1, <1>2, <1>3, <1>5, <2>1, <2>2
  <2>3. CASE k < n
    <3>1. k + 1 \in 1..n
      BY <1>1, <2>3
    <3> QED
      BY <1>2, <2>1, <2>3, <3>1
  <2> QED
    BY <1>1, <2>2, <2>3
<1> QED
  BY <1>6, <1>7 DEF Colouring, f2

\* The successor is white: it is visited.
LEMMA CallOpens ==
    ASSUME NEW d, Sound(d), NEW c, NEW f, Colouring(d, c, f), f # <<>>,
           f[Len(f)].left # <<>>, NEW m, m = f[Len(f)].left[1], c[m] = "WHITE"
    PROVE  Colouring(d, [c EXCEPT ![m] = "GREY"], Append(Advanced(f), Opened(d, m)))
<1> DEFINE n == Len(f)
           g == Advanced(f)
           c2 == [c EXCEPT ![m] = "GREY"]
           f2 == Append(g, Opened(d, m))
<1>1. /\ f \in Seq(Frame) /\ n \in Nat /\ n \in 1..n /\ f[n] \in Frame
      /\ c \in [Ids(d) -> Colours]
  BY DEF Colouring, PathOpen
<1>2. /\ g \in Seq(Frame) /\ Len(g) = n
      /\ \A k \in 1..n : g[k].node = f[k].node
      /\ \A k \in 1..n : k < n => g[k] = f[k]
      /\ g[n].left = Tail(f[n].left)
  BY <1>1, AdvancedType
<1>3. ToSteps(f[n].left) = {m} \cup ToSteps(g[n].left)
  BY <1>1, <1>2, Split DEF Frame
<1>4. m \in Successors(d, f[n].node)
  BY <1>1, <1>3 DEF Colouring, CallsKnow
<1>5. m \in Ids(d)
  BY <1>4 DEF Successors
<1>6. /\ Opened(d, m) \in Frame
      /\ Opened(d, m).node = m
      /\ ToSteps(Opened(d, m).left) = Successors(d, m)
  BY <1>5, OpenedType
<1>7. /\ c2 \in [Ids(d) -> Colours]
      /\ c2[m] = "GREY"
      /\ \A x \in Ids(d) : x # m => c2[x] = c[x]
  BY <1>1, <1>5 DEF Colours
<1>8. Blacks(d, c2) = Blacks(d, c)
  BY <1>7 DEF Blacks
<1> HIDE DEF g
<1>9. /\ f2 \in Seq(Frame) /\ Len(f2) = n + 1
      /\ f2[n + 1] = Opened(d, m)
      /\ \A k \in 1..n : f2[k] = g[k]
  BY <1>2, <1>6
<1> HIDE DEF f2, c2, n
<1>10. \A k \in 1..(n + 1) : k = n + 1 \/ k \in 1..n
  BY <1>1
<1>11. \A k \in 1..n : f[k].node \in Ids(d) /\ c[f[k].node] = "GREY" /\ f[k].node # m
  BY DEF Colouring, PathOpen, n
<1>12. PathOpen(d, c2, f2)
  <2>1. \A k \in 1..Len(f2) : f2[k].node \in Ids(d) /\ c2[f2[k].node] = "GREY"
    BY <1>2, <1>5, <1>6, <1>7, <1>9, <1>10, <1>11
  <2>2. ASSUME NEW x \in Ids(d), c2[x] = "GREY"
        PROVE  \E k \in 1..Len(f2) : f2[k].node = x
    <3>1. CASE x = m
      <4>1. n + 1 \in 1..Len(f2) /\ f2[n + 1].node = x
        BY <1>1, <1>6, <1>9, <3>1
      <4> QED
        BY <4>1
    <3>2. CASE x # m
      <4>1. PICK k \in 1..n : f[k].node = x
        BY <1>7, <2>2, <3>2 DEF Colouring, PathOpen, n
      <4>2. k \in 1..Len(f2) /\ f2[k].node = x
        BY <1>1, <1>2, <1>9, <4>1
      <4> QED
        BY <4>2
    <3> QED
      BY <3>1, <3>2
  <2>3. ASSUME NEW j \in 1..Len(f2), NEW k \in 1..Len(f2), f2[j].node = f2[k].node
        PROVE  j = k
    <3>1. \A i \in 1..n : f2[i].node = f[i].node /\ f2[i].node # m
      BY <1>2, <1>9, <1>11
    <3>2. f2[n + 1].node = m
      BY <1>6, <1>9
    <3>3. \A a, b \in 1..n : f[a].node = f[b].node => a = b
      BY DEF Colouring, PathOpen, n
    <3> QED
      BY <1>9, <1>10, <2>3, <3>1, <3>2, <3>3
  <2>4. ASSUME NEW k \in 1..Len(f2), k < Len(f2)
        PROVE  f2[k + 1].node \in Successors(d, f2[k].node)
    <3>1. k \in 1..n
      BY <1>1, <1>9, <2>4
    <3>2. CASE k = n
      BY <1>2, <1>4, <1>6, <1>9, <3>1, <3>2
    <3>3. CASE k < n
      <4>1. k + 1 \in 1..n
        BY <1>1, <3>1, <3>3
      <4>2. f[k + 1].node \in Successors(d, f[k].node)
        BY <3>1, <3>3 DEF Colouring, PathOpen, n
      <4> QED
        BY <1>2, <1>9, <3>1, <4>1, <4>2
    <3> QED
      BY <1>1, <3>1, <3>2, <3>3
  <2> QED
    BY <1>9, <2>1, <2>2, <2>3, <2>4 DEF PathOpen
<1>13. CallsKnow(d, c2, f2)
  <2> SUFFICES ASSUME NEW k \in 1..(n + 1)
               PROVE  /\ ToSteps(f2[k].left) \subseteq Successors(d, f2[k].node)
                      /\ \A x \in Successors(d, f2[k].node) :
                            \/ x \in Blacks(d, c)
                            \/ x \in ToSteps(f2[k].left)
                            \/ k < n + 1 /\ x = f2[k + 1].node
    BY <1>8, <1>9 DEF CallsKnow
  <2>1. CASE k = n + 1
    BY <1>6, <1>9, <2>1
  <2>2. ASSUME k \in 1..n
        PROVE  /\ ToSteps(f[k].left) \subseteq Successors(d, f[k].node)
               /\ \A x \in Successors(d, f[k].node) :
                     x \in Blacks(d, c) \/ x \in ToSteps(f[k].left) \/ (k < n /\ x = f[k + 1].node)
    BY <2>2 DEF Colouring, CallsKnow, n
  <2>3. CASE k = n
    BY <1>1, <1>2, <1>3, <1>6, <1>9, <2>2, <2>3
  <2>4. CASE k < n
    <3>1. k \in 1..n /\ k + 1 \in 1..n /\ k < n + 1
      BY <1>1, <2>4
    <3>2. f2[k] = f[k] /\ f2[k + 1].node = f[k + 1].node
      BY <1>2, <1>9, <2>4, <3>1
    <3> QED
      BY <2>2, <3>1, <3>2
  <2> QED
    BY <1>10, <1>1, <2>1, <2>3, <2>4
<1> QED
  BY <1>7, <1>8, <1>12, <1>13 DEF Colouring, BlackIsClear, c2, f2, g

LEMMA FrontFrames ==
    ASSUME NEW f \in Seq(Frame), f # <<>>
    PROVE  /\ Front(f) \in Seq(Frame) /\ Len(Front(f)) = Len(f) - 1
           /\ \A k \in 1..(Len(f) - 1) : Front(f)[k] = f[k] /\ k \in 1..Len(f) /\ k # Len(f)
<1>1. /\ Len(f) \in Nat /\ Len(f) - 1 \in 0..Len(f)
      /\ \A k \in 1..(Len(f) - 1) : k \in 1..Len(f) /\ k # Len(f) /\ f[k] \in Frame
  OBVIOUS
<1>2. ASSUME NEW n \in 0..Len(f)
      PROVE  /\ SubSeq(f, 1, n) \in Seq(Frame)
             /\ Len(SubSeq(f, 1, n)) = n
             /\ \A k \in 1..n : SubSeq(f, 1, n)[k] = f[k]
  OBVIOUS
<1>3. /\ SubSeq(f, 1, Len(f) - 1) \in Seq(Frame)
      /\ Len(SubSeq(f, 1, Len(f) - 1)) = Len(f) - 1
      /\ \A k \in 1..(Len(f) - 1) : SubSeq(f, 1, Len(f) - 1)[k] = f[k]
  BY <1>1, <1>2
<1> QED
  BY <1>1, <1>3 DEF Front

\* Nothing is left: the step turns black, and a knot that it closed would have
\* been one without it, among the steps that were black before.
LEMMA CallEnds ==
    ASSUME NEW d, NEW c, NEW f, Colouring(d, c, f), f # <<>>, f[Len(f)].left = <<>>
    PROVE  Colouring(d, [c EXCEPT ![f[Len(f)].node] = "BLACK"], Front(f))
<1> DEFINE n == Len(f)
           m == f[n].node
           c2 == [c EXCEPT ![m] = "BLACK"]
           f2 == Front(f)
<1>1. /\ f \in Seq(Frame) /\ n \in Nat /\ n \in 1..n /\ m \in Ids(d)
      /\ c \in [Ids(d) -> Colours]
  BY DEF Colouring, PathOpen
<1>2. /\ f2 \in Seq(Frame) /\ Len(f2) = n - 1
      /\ \A k \in 1..(n - 1) : f2[k] = f[k] /\ k \in 1..n /\ k # n
  BY <1>1, FrontFrames
<1>3. /\ c2 \in [Ids(d) -> Colours]
      /\ c2[m] = "BLACK"
      /\ \A x \in Ids(d) : x # m => c2[x] = c[x]
  BY <1>1 DEF Colours
<1>4. Blacks(d, c2) = Blacks(d, c) \cup {m}
  BY <1>1, <1>3 DEF Blacks
<1>5. \A x \in Successors(d, m) : x \in Blacks(d, c)
  <2>1. ToSteps(f[n].left) = {}
    BY DEF ToSteps
  <2> QED
    BY <1>1, <2>1 DEF Colouring, CallsKnow
<1> HIDE DEF c2, f2, n, m
<1>6. PathOpen(d, c2, f2)
  <2>1. \A k \in 1..n : k # n => f[k].node # m
    BY <1>1 DEF Colouring, PathOpen, m, n
  <2>2. \A k \in 1..(n - 1) : f2[k].node \in Ids(d) /\ c2[f2[k].node] = "GREY"
    BY <1>2, <1>3, <2>1 DEF Colouring, PathOpen, n
  <2>3. ASSUME NEW x \in Ids(d), c2[x] = "GREY"
        PROVE  \E k \in 1..(n - 1) : f2[k].node = x
    <3>1. x # m /\ c[x] = "GREY"
      BY <1>3, <2>3
    <3>2. PICK k \in 1..n : f[k].node = x
      BY <3>1 DEF Colouring, PathOpen, n
    <3>3. k # n
      BY <3>1, <3>2 DEF m
    <3>4. k \in 1..(n - 1) /\ f2[k].node = x
      BY <1>1, <1>2, <3>2, <3>3
    <3> QED
      BY <3>4
  <2>4. \A j, k \in 1..(n - 1) : f2[j].node = f2[k].node => j = k
    BY <1>2 DEF Colouring, PathOpen, n
  <2>5. ASSUME NEW k \in 1..(n - 1), k < n - 1
        PROVE  f2[k + 1].node \in Successors(d, f2[k].node)
    <3>1. k + 1 \in 1..(n - 1) /\ k \in 1..n /\ k < n
      BY <1>1, <2>5
    <3>2. f[k + 1].node \in Successors(d, f[k].node)
      BY <3>1 DEF Colouring, PathOpen, n
    <3> QED
      BY <1>2, <3>1, <3>2
  <2> QED
    BY <1>2, <2>2, <2>3, <2>4, <2>5 DEF PathOpen
<1>7. CallsKnow(d, c2, f2)
  <2> SUFFICES ASSUME NEW k \in 1..(n - 1)
               PROVE  /\ ToSteps(f2[k].left) \subseteq Successors(d, f2[k].node)
                      /\ \A x \in Successors(d, f2[k].node) :
                            \/ x \in Blacks(d, c2)
                            \/ x \in ToSteps(f2[k].left)
                            \/ k < n - 1 /\ x = f2[k + 1].node
    BY <1>2 DEF CallsKnow
  <2>1. /\ ToSteps(f[k].left) \subseteq Successors(d, f[k].node)
        /\ \A x \in Successors(d, f[k].node) :
              x \in Blacks(d, c) \/ x \in ToSteps(f[k].left) \/ x = f[k + 1].node
    BY <1>2 DEF Colouring, CallsKnow, n
  <2>2. CASE k = n - 1
    <3>1. f[k + 1].node = m
      BY <1>1, <2>2 DEF m
    <3> QED
      BY <1>2, <1>4, <2>1, <3>1
  <2>3. CASE k < n - 1
    <3>1. k + 1 \in 1..(n - 1)
      BY <1>1, <2>3
    <3> QED
      BY <1>2, <1>4, <2>1, <2>3, <3>1
  <2> QED
    BY <1>1, <2>2, <2>3
<1>8. BlackIsClear(d, c2)
  <2>1. \A x \in Blacks(d, c2) : Successors(d, x) \subseteq Blacks(d, c)
    BY <1>4, <1>5 DEF Colouring, BlackIsClear
  <2>2. ASSUME NEW set \in SUBSET Blacks(d, c2), Knotted(d, set)
        PROVE  FALSE
    <3> DEFINE rest == set \cap Blacks(d, c)
    <3>1. \A x \in set : \E y \in Successors(d, x) : y \in rest
      BY <2>1, <2>2 DEF Knotted
    <3>2. rest # {} /\ rest \in SUBSET Blacks(d, c)
      BY <2>2, <3>1 DEF Knotted
    <3>3. Knotted(d, rest)
      BY <3>1, <3>2 DEF Knotted
    <3> QED
      BY <3>2, <3>3 DEF Colouring, BlackIsClear
  <2> QED
    BY <1>4, <2>1, <2>2 DEF BlackIsClear
<1> QED
  BY <1>3, <1>6, <1>7, <1>8 DEF Colouring, c2, f2, m, n

\* The successor is grey: the calls from its own on are a knot.
LEMMA GreyIsKnot ==
    ASSUME NEW d, NEW c, NEW f, Colouring(d, c, f), f # <<>>,
           f[Len(f)].left # <<>>, c[f[Len(f)].left[1]] = "GREY"
    PROVE  HasKnot(d)
<1> DEFINE n == Len(f)
           m == f[n].left[1]
<1>1. /\ f \in Seq(Frame) /\ n \in Nat /\ n \in 1..n /\ f[n] \in Frame
  BY DEF Colouring, PathOpen
<1>2. m \in ToSteps(f[n].left)
  BY <1>1, Split DEF Frame
<1>3. m \in Successors(d, f[n].node) /\ m \in Ids(d)
  BY <1>1, <1>2 DEF Colouring, CallsKnow, Successors
<1>4. PICK k \in 1..n : f[k].node = m
  BY <1>3 DEF Colouring, PathOpen
<1> DEFINE set == {f[j].node : j \in k..n}
<1>5. set \in SUBSET Ids(d)
  BY <1>1 DEF Colouring, PathOpen
<1>6. m \in set
  BY <1>1, <1>4
<1>7. ASSUME NEW j \in k..n
      PROVE  Successors(d, f[j].node) \cap set # {}
  <2>1. CASE j = n
    BY <1>3, <1>6, <2>1
  <2>2. CASE j < n
    <3>1. j \in 1..n /\ j + 1 \in k..n
      BY <1>1, <2>2
    <3>2. f[j + 1].node \in Successors(d, f[j].node)
      BY <2>2, <3>1 DEF Colouring, PathOpen
    <3> QED
      BY <3>1, <3>2
  <2> QED
    BY <1>1, <2>1, <2>2
<1>8. Knotted(d, set)
  BY <1>6, <1>7 DEF Knotted
<1> QED
  BY <1>5, <1>8 DEF HasKnot

-----------------------------------------------------------------------------
(* Searching from the initial step: seen the steps seen, s those to look at *)

\* What is seen or to be looked at is reachable, and all that follows from what
\* has been seen is seen or to be looked at.
Searching(d, visited, s) ==
    /\ s \in Seq(Int)
    /\ d.initial_step \in visited \cup ToSteps(s)
    /\ visited \cup ToSteps(s) \subseteq Reachable(d)
    /\ \A n \in visited : Successors(d, n) \subseteq visited \cup ToSteps(s)

LEMMA Popped ==
    ASSUME NEW s \in Seq(Int), s # <<>>
    PROVE  /\ Front(s) \in Seq(Int)
           /\ Last(s) \in Int
           /\ ToSteps(s) = ToSteps(Front(s)) \cup {Last(s)}
<1> DEFINE n == Len(s)
<1>1. /\ n \in Nat /\ n \in 1..n /\ n - 1 \in 0..n
      /\ \A i \in 1..n : s[i] \in Int /\ (i = n \/ i \in 1..(n - 1))
      /\ \A i \in 1..(n - 1) : i \in 1..n
  OBVIOUS
<1>2. ASSUME NEW k \in 0..n
      PROVE  /\ SubSeq(s, 1, k) \in Seq(Int)
             /\ Len(SubSeq(s, 1, k)) = k
             /\ \A i \in 1..k : SubSeq(s, 1, k)[i] = s[i]
  OBVIOUS
<1> HIDE DEF n
<1>3. /\ Front(s) \in Seq(Int) /\ Len(Front(s)) = n - 1
      /\ \A i \in 1..(n - 1) : Front(s)[i] = s[i]
  BY <1>1, <1>2 DEF Front, n
<1>4. Last(s) = s[n]
  BY DEF Last, n
<1>5. ToSteps(s) = {s[i] : i \in 1..n} /\ ToSteps(Front(s)) = {s[i] : i \in 1..(n - 1)}
  BY <1>3 DEF ToSteps, n
<1> QED
  BY <1>1, <1>3, <1>4, <1>5

LEMMA Pushed ==
    ASSUME NEW s \in Seq(Int), NEW t \in Seq(Int)
    PROVE  /\ s \o t \in Seq(Int)
           /\ ToSteps(s \o t) = ToSteps(s) \cup ToSteps(t)
<1> DEFINE m == Len(s)
           n == Len(t)
           u == s \o t
<1>1. /\ u \in Seq(Int) /\ Len(u) = m + n /\ m \in Nat /\ n \in Nat
      /\ \A i \in 1..m : u[i] = s[i]
      /\ \A i \in 1..n : u[m + i] = t[i]
  OBVIOUS
<1> HIDE DEF m, n, u
<1>2. \A i \in 1..(m + n) : i \in 1..m \/ (i - m \in 1..n /\ u[i] = t[i - m])
  <2> SUFFICES ASSUME NEW i \in 1..(m + n), i \notin 1..m
               PROVE  i - m \in 1..n /\ u[i] = t[i - m]
    OBVIOUS
  <2>1. i - m \in 1..n /\ m + (i - m) = i
    BY <1>1
  <2>2. u[m + (i - m)] = t[i - m]
    BY <1>1, <2>1
  <2> QED
    BY <2>1, <2>2
<1>3. (\A i \in 1..m : i \in 1..(m + n)) /\ (\A i \in 1..n : m + i \in 1..(m + n))
  BY <1>1
<1>4. ToSteps(u) = {u[i] : i \in 1..(m + n)} /\ ToSteps(s) = {s[i] : i \in 1..m}
      /\ ToSteps(t) = {t[i] : i \in 1..n}
  BY <1>1 DEF ToSteps, m, n
<1>5. ToSteps(u) = ToSteps(s) \cup ToSteps(t)
  BY <1>1, <1>2, <1>3, <1>4
<1> QED
  BY <1>1, <1>5 DEF u

LEMMA SearchBegins ==
    ASSUME NEW d, Sound(d), d.initial_step \in Ids(d)
    PROVE  Searching(d, {}, <<d.initial_step>>)
<1>1. <<d.initial_step>> \in Seq(Int) /\ ToSteps(<<d.initial_step>>) = {d.initial_step}
  BY DEF Sound, ToSteps
<1>2. d.initial_step \in Reachable(d)
  BY DEF Reachable
<1> QED
  BY <1>1, <1>2 DEF Searching

LEMMA SearchGoesOn ==
    ASSUME NEW d, Sound(d), NEW visited, NEW s, Searching(d, visited, s), s # <<>>
    PROVE  Searching(d, visited \cup {Last(s)},
                     IF Last(s) \in visited THEN Front(s)
                     ELSE Front(s) \o Ascending(Successors(d, Last(s))))
<1> DEFINE l == Last(s)
           next == Successors(d, l)
<1>1. /\ Front(s) \in Seq(Int) /\ ToSteps(s) = ToSteps(Front(s)) \cup {l}
  BY Popped DEF Searching
<1>2. CASE l \in visited
  BY <1>1, <1>2 DEF Searching
<1>3. CASE l \notin visited
  <2> DEFINE t == Front(s) \o Ascending(next)
  <2>1. Ascending(next) \in Seq(Int) /\ ToSteps(Ascending(next)) = next
    <3>1. /\ Ascending(next) \in Seq(next) /\ ToSteps(Ascending(next)) = next
      BY SuccessorsFinite, AscendingHolds
    <3> QED
      BY <3>1, SuccessorsFinite
  <2>2. t \in Seq(Int) /\ ToSteps(t) = ToSteps(Front(s)) \cup next
    BY <1>1, <2>1, Pushed
  <2>3. next \subseteq Reachable(d)
    <3>1. l \in Reachable(d)
      BY <1>1 DEF Searching
    <3> QED
      BY <3>1 DEF Reachable, Closed, Successors
  <2> HIDE DEF t, l, next
  <2>4. Searching(d, visited \cup {l}, t)
    BY <1>1, <2>2, <2>3 DEF Searching, next
  <2> QED
    BY <1>3, <2>4 DEF t, l, next
<1> QED
  BY <1>2, <1>3

LEMMA SearchEnds ==
    ASSUME NEW d, NEW visited, Searching(d, visited, <<>>)
    PROVE  /\ visited = Reachable(d)
           /\ visited # {}
           /\ (\A n \in visited : ~Sink(d, n)) => Knotted(d, visited)
<1>1. ToSteps(<<>>) = {}
  BY DEF ToSteps
<1>2. /\ d.initial_step \in visited /\ visited \subseteq Reachable(d)
      /\ \A n \in visited : Successors(d, n) \subseteq visited
  BY <1>1 DEF Searching
<1>3. visited \in SUBSET Ids(d) /\ Closed(d, visited)
  BY <1>2 DEF Reachable, Closed
<1>4. Reachable(d) \subseteq visited
  BY <1>2, <1>3 DEF Reachable
<1> QED
  BY <1>2, <1>4 DEF Sink, Knotted

-----------------------------------------------------------------------------
(* Issues *)

ShapeCodes ==
    {"INVALID_WORKFLOW", "DUPLICATE_STEP", "INVALID_INITIAL_STEP", "UNKNOWN_STEP",
     "INVALID_TRANSITION", "DUPLICATE_TRANSITION", "INVALID_POLICY", "INVALID_AGENT_TASK"}

\* What create() refuses.
Refusable == {"INVALID_WORKFLOW", "DUPLICATE_STEP", "UNKNOWN_STEP", "INVALID_INITIAL_STEP"}

LEMMA IssueIs ==
    ASSUME NEW code, NEW subjects, NEW i \in Issue(code, subjects)
    PROVE  i.code = code /\ i.subject \in subjects
BY DEF Issue

LEMMA IssueOf ==
    ASSUME NEW code, NEW subjects, NEW s \in subjects
    PROVE  \E i \in Issue(code, subjects) : i.code = code /\ i.subject = s
<1>1. [code |-> code, subject |-> s] \in Issue(code, subjects)
  BY DEF Issue
<1> QED
  BY <1>1

LEMMA ShapeIssueCodes ==
    ASSUME NEW d,
           NEW i \in ShapeIssues(d) \cup TransitionIssues(d) \cup StepIssues(d)
    PROVE  /\ i.code \in ShapeCodes
           /\ Coherent(d) /\ d.initial_step \in Ids(d) => i.code \notin Refusable
<1>1. CASE i \in ShapeIssues(d)
  <2> DEFINE empty == IF d.steps = <<>> THEN {None} ELSE {}
             lost == IF d.steps # <<>> /\ d.initial_step \notin Ids(d)
                     THEN {d.initial_step} ELSE {}
             twice == Repeated(StepIds(d))
  <2>1. \/ i \in Issue("INVALID_WORKFLOW", empty)
        \/ i \in Issue("DUPLICATE_STEP", twice)
        \/ i \in Issue("INVALID_INITIAL_STEP", lost)
    BY <1>1 DEF ShapeIssues
  <2>2. Coherent(d) /\ d.initial_step \in Ids(d) => empty = {} /\ lost = {} /\ twice = {}
    BY DEF Coherent
  <2> HIDE DEF empty, lost, twice
  <2>3. \/ i.code = "INVALID_WORKFLOW" /\ empty # {}
        \/ i.code = "DUPLICATE_STEP" /\ twice # {}
        \/ i.code = "INVALID_INITIAL_STEP" /\ lost # {}
    BY <2>1, IssueIs
  <2> QED
    BY <2>2, <2>3 DEF ShapeCodes
<1>2. CASE i \in TransitionIssues(d)
  <2> DEFINE ends == UNION {{t.from_step, t.to_step} : t \in ToSteps(d.transitions)}
             loops == {t \in ToSteps(d.transitions) : t.from_step = t.to_step}
             leaving == {t \in ToSteps(d.transitions) \ loops :
                            t.from_step \in Ids(d) /\ KindOf(d, t.from_step) = "TERMINAL"}
             wrong == {t.from_step : t \in loops \cup leaving}
  <2>1. \/ i \in Issue("UNKNOWN_STEP", ends \ Ids(d))
        \/ i \in Issue("INVALID_TRANSITION", wrong)
        \/ i \in Issue("DUPLICATE_TRANSITION", Repeated(d.transitions))
    BY <1>2 DEF TransitionIssues
  <2>2. Coherent(d) => ends \ Ids(d) = {}
    BY DEF Coherent
  <2> HIDE DEF ends, wrong
  <2>3. \/ i.code = "UNKNOWN_STEP" /\ ends \ Ids(d) # {}
        \/ i.code = "INVALID_TRANSITION"
        \/ i.code = "DUPLICATE_TRANSITION"
    BY <2>1, IssueIs
  <2> QED
    BY <2>2, <2>3 DEF ShapeCodes, Refusable
<1>3. CASE i \in StepIssues(d)
  <2> DEFINE bad == {s.step_id : s \in {t \in ToSteps(d.steps) : BadPolicies(t.config)}}
                    \cup IF BadPolicies(d.metadata) THEN {None} ELSE {}
             idle == {s.step_id : s \in {t \in ToSteps(d.steps) :
                         t.kind = "TASK" /\ t.agent_task \in {None, IllTyped, ""}}}
  <2>1. i \in Issue("INVALID_POLICY", bad) \/ i \in Issue("INVALID_AGENT_TASK", idle)
    BY <1>3 DEF StepIssues
  <2> HIDE DEF bad, idle
  <2>2. i.code \in {"INVALID_POLICY", "INVALID_AGENT_TASK"}
    BY <2>1, IssueIs
  <2> QED
    BY <2>2 DEF ShapeCodes, Refusable
<1> QED
  BY <1>1, <1>2, <1>3

-----------------------------------------------------------------------------
(* The invariant of the validator *)

Early == {"new", "shape", "refused"}

Searched == {"colour", "coloured", "search", "done"}

Codes == {i.code : i \in issues}

VInv ==
    /\ Sound(definition)
    /\ phase \in Early \cup Searched
    /\ (phase \in Early => frames = <<>> /\ cyclic = FALSE)
    /\ (phase \in Early \cup {"colour", "coloured"} => seen = {} /\ stack = <<>>)
    /\ (phase \notin {"new", "refused"} /\ Coherent(definition) =>
          definition.initial_step \in Ids(definition))
    /\ (phase = "colour" => cyclic = FALSE /\ Colouring(definition, colour, frames))
    /\ (phase \in {"coloured", "search"} =>
          cyclic \in BOOLEAN /\ (cyclic <=> HasKnot(definition)))
    /\ (phase \in {"colour", "coloured"} => \A i \in issues : i.code \in ShapeCodes)
    /\ (phase = "search" =>
          /\ \A i \in issues : i.code \in ShapeCodes \/ (i.code = "CYCLIC_GRAPH" /\ cyclic)
          /\ (cyclic => \E i \in issues : i.code = "CYCLIC_GRAPH")
          /\ definition.initial_step \in Ids(definition)
          /\ Searching(definition, seen, stack))
    /\ (phase \in Searched /\ Coherent(definition) => \A i \in issues : i.code \notin Refusable)
    /\ VerdictIsRight

-----------------------------------------------------------------------------
(* The steps of the validator *)

LEMMA VInit == Init => VInv
<1> SUFFICES ASSUME Init
             PROVE  VInv
  OBVIOUS
<1>1. Sound(definition) /\ phase = "new"
  BY DefinitionsAssumption DEF Init, ValidatorInit, Sound
<1>2. frames = <<>> /\ cyclic = FALSE /\ seen = {} /\ stack = <<>>
  BY DEF Init, ValidatorInit
<1> QED
  BY <1>1, <1>2 DEF VInv, Early, Searched, VerdictIsRight

LEMMA TakeKeeps ==
    ASSUME VInv, NEW stored \in BOOLEAN, Take(stored)
    PROVE  VInv'
<1>1. /\ phase = "new" /\ phase' \in {"shape", "refused"}
      /\ UNCHANGED <<colour, frames, cyclic, seen, stack, issues>>
  BY DEF Take
<1>2. /\ frames = <<>> /\ cyclic = FALSE /\ seen = {} /\ stack = <<>>
      /\ Sound(definition)
  BY <1>1 DEF VInv, Early
<1>3. CASE definition' = definition /\ (phase' = "refused" \/ definition.initial_step # None)
  <2>1. Coherent(definition) /\ phase' # "refused" => definition.initial_step \in Ids(definition)
    BY <1>3 DEF Coherent
  <2> QED
    BY <1>1, <1>2, <1>3, <2>1 DEF VInv, Early, Searched, VerdictIsRight
<1>4. CASE Coherent(definition) /\ definition' = WithInitialStep(definition)
  <2>1. /\ Sound(definition')
        /\ definition'.initial_step \in Ids(definition')
    BY <1>2, <1>4, TakenIsSound
  <2> QED
    BY <1>1, <1>2, <2>1 DEF VInv, Early, Searched, VerdictIsRight
<1> QED
  BY <1>3, <1>4 DEF Take

LEMMA CheckShapeKeeps ==
    ASSUME VInv, CheckShape
    PROVE  VInv'
<1>1. /\ phase = "shape" /\ phase' = "colour"
      /\ UNCHANGED <<definition, frames, cyclic, seen, stack>>
      /\ colour' = [n \in Ids(definition) |-> "WHITE"]
      /\ issues' = ShapeIssues(definition) \cup TransitionIssues(definition)
                   \cup StepIssues(definition)
  BY DEF CheckShape
<1>2. /\ frames = <<>> /\ cyclic = FALSE /\ seen = {} /\ stack = <<>>
      /\ Sound(definition)
      /\ Coherent(definition) => definition.initial_step \in Ids(definition)
  BY <1>1 DEF VInv, Early
<1>3. Colouring(definition, colour', <<>>)
  <2> DEFINE c == [n \in Ids(definition) |-> "WHITE"]
  <2>1. c \in [Ids(definition) -> Colours] /\ \A n \in Ids(definition) : c[n] = "WHITE"
    BY DEF Colours
  <2> HIDE DEF c
  <2>2. Blacks(definition, c) = {}
    BY <2>1 DEF Blacks
  <2>3. PathOpen(definition, c, <<>>) /\ CallsKnow(definition, c, <<>>)
    BY <2>1 DEF PathOpen, CallsKnow
  <2>4. BlackIsClear(definition, c)
    BY <2>2 DEF BlackIsClear, Knotted
  <2> QED
    BY <1>1, <2>1, <2>3, <2>4 DEF Colouring, c
<1>4. \A i \in issues' : /\ i.code \in ShapeCodes
                         /\ Coherent(definition) => i.code \notin Refusable
  BY <1>1, <1>2, ShapeIssueCodes
<1> QED
  BY <1>1, <1>2, <1>3, <1>4 DEF VInv, Early, Searched, VerdictIsRight

\* A step of the colouring that does not end it.
LEMMA ColouringKeeps ==
    ASSUME VInv, phase = "colour", UNCHANGED <<definition, phase, cyclic, seen, stack, issues>>,
           Colouring(definition, colour', frames')
    PROVE  VInv'
BY DEF VInv, Early, Searched, VerdictIsRight

\* The colouring ends with its answer.
LEMMA ColouringEnds ==
    ASSUME VInv, phase = "colour", phase' = "coloured",
           UNCHANGED <<definition, seen, stack, issues>>,
           cyclic' \in BOOLEAN, cyclic' <=> HasKnot(definition)
    PROVE  VInv'
BY DEF VInv, Early, Searched, VerdictIsRight

LEMMA VisitRootKeeps ==
    ASSUME VInv, VisitRoot
    PROVE  VInv'
<1> DEFINE white == {n \in DOMAIN colour : colour[n] = "WHITE"}
           root == Ascending(white)[1]
<1>1. /\ phase = "colour" /\ frames = <<>> /\ cyclic = FALSE
      /\ UNCHANGED <<definition, cyclic, seen, stack, issues>>
      /\ Sound(definition) /\ Colouring(definition, colour, <<>>)
  BY DEF VisitRoot, VInv
<1>2. CASE white = {}
  <2>1. phase' = "coloured"
    BY <1>2 DEF VisitRoot
  <2>2. ~HasKnot(definition)
    BY <1>1, <1>2, AllBlack
  <2> QED
    BY <1>1, <2>1, <2>2, ColouringEnds
<1>3. CASE white # {}
  <2>1. /\ UNCHANGED phase
        /\ colour' = [colour EXCEPT ![root] = "GREY"]
        /\ frames' = <<Opened(definition, root)>>
    BY <1>3 DEF VisitRoot, OpenFrame, Opened
  <2>2. white \subseteq Ids(definition) /\ IsFiniteSet(white) /\ white \subseteq Int
    <3>1. white \subseteq Ids(definition)
      BY <1>1 DEF Colouring
    <3> QED
      BY <1>1, <3>1, IdsFinite, FS_Subset DEF Sound
  <2>3. root \in white
    <3> HIDE DEF white
    <3>1. Ascending(white) \in Seq(white) /\ Len(Ascending(white)) > 0
      BY <1>3, <2>2, AscendingHolds
    <3> QED
      BY <3>1
  <2>4. root \in Ids(definition) /\ colour[root] = "WHITE"
    BY <2>2, <2>3
  <2> HIDE DEF root
  <2>5. Colouring(definition, colour', frames')
    BY <1>1, <2>1, <2>4, RootOpens
  <2> QED
    BY <1>1, <2>1, <2>5, ColouringKeeps
<1> QED
  BY <1>2, <1>3

LEMMA VisitNextKeeps ==
    ASSUME VInv, VisitNext
    PROVE  VInv'
<1> DEFINE top == frames[Len(frames)]
           m == top.left[1]
<1>1. /\ phase = "colour" /\ frames # <<>> /\ cyclic = FALSE
      /\ UNCHANGED <<definition, seen, stack, issues>>
      /\ Sound(definition) /\ Colouring(definition, colour, frames)
  BY DEF VisitNext, VInv
<1>2. CASE top.left = <<>>
  <2>1. /\ UNCHANGED <<phase, cyclic>>
        /\ colour' = [colour EXCEPT ![top.node] = "BLACK"]
        /\ frames' = Front(frames)
    BY <1>2 DEF VisitNext, Last
  <2>2. Colouring(definition, colour', frames')
    BY <1>1, <1>2, <2>1, CallEnds
  <2> QED
    BY <1>1, <2>1, <2>2, ColouringKeeps
<1>3. CASE top.left # <<>> /\ colour[m] = "GREY"
  <2>1. cyclic' = TRUE /\ phase' = "coloured"
    BY <1>3 DEF VisitNext, MeetsCycle, Last
  <2>2. HasKnot(definition)
    BY <1>1, <1>3, GreyIsKnot
  <2> QED
    BY <1>1, <2>1, <2>2, ColouringEnds
<1>4. CASE top.left # <<>> /\ colour[m] = "WHITE"
  <2>1. /\ UNCHANGED <<phase, cyclic>>
        /\ colour' = [colour EXCEPT ![m] = "GREY"]
        /\ frames' = Append(Advanced(frames), Opened(definition, m))
    BY <1>4 DEF VisitNext, MeetsCycle, Last, Advanced, OpenFrame, Opened
  <2>2. Colouring(definition, colour', frames')
    BY <1>1, <1>4, <2>1, CallOpens
  <2> QED
    BY <1>1, <2>1, <2>2, ColouringKeeps
<1>5. CASE top.left # <<>> /\ colour[m] \notin {"GREY", "WHITE"}
  <2>1. /\ UNCHANGED <<phase, cyclic, colour>>
        /\ frames' = Advanced(frames)
    BY <1>5 DEF VisitNext, MeetsCycle, Last, Advanced
  <2>2. Colouring(definition, colour', frames')
    BY <1>1, <1>5, <2>1, CallSkips
  <2> QED
    BY <1>1, <2>1, <2>2, ColouringKeeps
<1> QED
  BY <1>2, <1>3, <1>4, <1>5

LEMMA BeginSearchKeeps ==
    ASSUME VInv, BeginSearch
    PROVE  VInv'
<1>1. /\ phase = "coloured" /\ seen = {} /\ stack = <<>>
      /\ UNCHANGED <<definition, cyclic, seen>>
      /\ Sound(definition)
      /\ cyclic \in BOOLEAN /\ (cyclic <=> HasKnot(definition))
      /\ \A i \in issues : /\ i.code \in ShapeCodes
                           /\ Coherent(definition) => i.code \notin Refusable
      /\ Coherent(definition) => definition.initial_step \in Ids(definition)
  BY DEF BeginSearch, VInv, Searched
<1>2. issues' = issues \cup IF cyclic THEN Issue("CYCLIC_GRAPH", {None}) ELSE {}
  BY DEF BeginSearch, CycleIssue
<1>3. \A i \in issues' : i \in issues \/ (i.code = "CYCLIC_GRAPH" /\ cyclic)
  BY <1>2, IssueIs
<1>4. cyclic => \E i \in issues' : i.code = "CYCLIC_GRAPH"
  <2>1. \E i \in Issue("CYCLIC_GRAPH", {None}) : i.code = "CYCLIC_GRAPH"
    BY IssueOf
  <2> QED
    BY <1>2, <2>1
<1>5. \A i \in issues' : /\ i.code \in ShapeCodes \/ (i.code = "CYCLIC_GRAPH" /\ cyclic)
                         /\ Coherent(definition) => i.code \notin Refusable
  BY <1>1, <1>3 DEF Refusable
<1>6. CASE definition.initial_step \in Ids(definition)
  <2>1. stack' = <<definition.initial_step>> /\ phase' = "search"
    BY <1>6 DEF BeginSearch
  <2>2. Searching(definition, seen', stack')
    BY <1>1, <1>6, <2>1, SearchBegins
  <2> QED
    BY <1>1, <1>4, <1>5, <1>6, <2>1, <2>2 DEF VInv, Early, Searched, VerdictIsRight
<1>7. CASE definition.initial_step \notin Ids(definition)
  <2>1. phase' = "done" /\ UNCHANGED stack
    BY <1>7 DEF BeginSearch
  <2>2. ("CYCLIC_GRAPH" \in {i.code : i \in issues'}) <=> HasKnot(definition)
    BY <1>1, <1>4, <1>5 DEF ShapeCodes
  <2>3. "NO_TERMINAL_STEP" \notin {i.code : i \in issues'}
    BY <1>5 DEF ShapeCodes
  <2>4. Coherent(definition) => {i.code : i \in issues'} \cap Refusable = {}
    BY <1>5
  <2>5. VerdictIsRight'
    BY <1>1, <1>7, <2>2, <2>3, <2>4 DEF VerdictIsRight, HasKnot, Refusable
  <2> QED
    BY <1>1, <1>5, <2>1, <2>5 DEF VInv, Early, Searched
<1> QED
  BY <1>6, <1>7

LEMMA SearchNextKeeps ==
    ASSUME VInv, SearchNext
    PROVE  VInv'
<1>1. /\ phase = "search" /\ stack # <<>>
      /\ UNCHANGED <<definition, phase, colour, frames, cyclic, issues>>
      /\ Sound(definition) /\ Searching(definition, seen, stack)
  BY DEF SearchNext, VInv
<1>2. Searching(definition, seen', stack')
  BY <1>1, SearchGoesOn DEF SearchNext
<1> QED
  BY <1>1, <1>2 DEF VInv, Early, Searched, VerdictIsRight

LEMMA EndSearchKeeps ==
    ASSUME VInv, EndSearch
    PROVE  VInv'
<1> DEFINE lost == Ids(definition) \ seen
           endless == IF \E n \in seen : Sink(definition, n) THEN {} ELSE {None}
<1>1. /\ phase = "search" /\ stack = <<>> /\ phase' = "done"
      /\ UNCHANGED <<definition, colour, frames, cyclic, seen, stack>>
      /\ issues' = issues \cup Issue("UNREACHABLE_STEP", lost) \cup Issue("NO_TERMINAL_STEP", endless)
  BY DEF EndSearch
<1>2. /\ Sound(definition) /\ Searching(definition, seen, <<>>)
      /\ definition.initial_step \in Ids(definition)
      /\ cyclic \in BOOLEAN /\ (cyclic <=> HasKnot(definition))
      /\ \A i \in issues : /\ i.code \in ShapeCodes \/ (i.code = "CYCLIC_GRAPH" /\ cyclic)
                           /\ Coherent(definition) => i.code \notin Refusable
      /\ cyclic => \E i \in issues : i.code = "CYCLIC_GRAPH"
  BY <1>1 DEF VInv, Searched
<1>3. seen = Reachable(definition)
  BY <1>2, SearchEnds
<1>4. endless # {} => HasKnot(definition)
  <2>1. seen \in SUBSET Ids(definition)
    BY <1>3 DEF Reachable
  <2> QED
    BY <1>2, <2>1, SearchEnds DEF HasKnot
<1> HIDE DEF lost, endless
<1>5. \A i \in issues' :
          \/ i \in issues
          \/ i.code = "UNREACHABLE_STEP" /\ i.subject \in lost
          \/ i.code = "NO_TERMINAL_STEP" /\ endless # {}
  BY <1>1, IssueIs
<1>6. \A s \in lost : \E i \in issues' : i.code = "UNREACHABLE_STEP" /\ i.subject = s
  BY <1>1, IssueOf
<1>7. \A i \in issues : i.code # "UNREACHABLE_STEP" /\ i.code # "NO_TERMINAL_STEP"
  BY <1>2 DEF ShapeCodes
<1>8. ("CYCLIC_GRAPH" \in {i.code : i \in issues'}) <=> HasKnot(definition)
  <2>1. \A i \in issues : i.code = "CYCLIC_GRAPH" => cyclic
    BY <1>2 DEF ShapeCodes
  <2>2. issues \subseteq issues'
    BY <1>1
  <2> QED
    BY <1>2, <1>5, <2>1, <2>2
<1>9. {i.subject : i \in {j \in issues' : j.code = "UNREACHABLE_STEP"}} = lost
  BY <1>5, <1>6, <1>7
<1>10. ("NO_TERMINAL_STEP" \in {i.code : i \in issues'}) => HasKnot(definition)
  BY <1>4, <1>5, <1>7
<1>11. Coherent(definition) => \A i \in issues' : i.code \notin Refusable
  BY <1>2, <1>5 DEF Refusable
<1>12. VerdictIsRight'
  <2> DEFINE codes == {i.code : i \in issues'}
  <2>1. /\ "CYCLIC_GRAPH" \in codes <=> HasKnot(definition)
        /\ "NO_TERMINAL_STEP" \in codes => "CYCLIC_GRAPH" \in codes
        /\ Coherent(definition) => codes \cap Refusable = {}
    BY <1>8, <1>10, <1>11
  <2>2. {i.subject : i \in {j \in issues' : j.code = "UNREACHABLE_STEP"}}
          = Ids(definition) \ Reachable(definition)
    BY <1>3, <1>9 DEF lost
  <2> HIDE DEF codes
  <2> QED
    BY <1>1, <2>1, <2>2 DEF VerdictIsRight, HasKnot, Refusable, codes
<1> QED
  BY <1>1, <1>2, <1>11, <1>12 DEF VInv, Early, Searched

LEMMA ValidatorStepKeeps ==
    ASSUME VInv, ValidatorStep
    PROVE  VInv'
BY TakeKeeps, CheckShapeKeeps, VisitRootKeeps, VisitNextKeeps, BeginSearchKeeps,
   SearchNextKeeps, EndSearchKeeps DEF ValidatorStep

LEMMA ValidatorRests ==
    ASSUME VInv, UNCHANGED validatorVars
    PROVE  VInv'
BY DEF validatorVars, VInv, Early, Searched, VerdictIsRight

\* For every definition: what both searches hold of the graph at each turn of
\* their loops, and their verdict.
THEOREM ValidatorInvariant == Spec => []VInv
<1>1. ASSUME VInv, [Next]_vars
      PROVE  VInv'
  <2>1. ValidatorStep \/ UNCHANGED validatorVars
    BY <1>1 DEF Next, vars, validatorVars, CreateSession, Transition, Walk, WalkTo,
                ReportCompleted, TakeCheckpoint
  <2> QED
    BY <1>1, <2>1, ValidatorStepKeeps, ValidatorRests
<1> QED
  BY <1>1, VInit, PTL DEF Spec

\* Whatever graph the validator is given: it reports a cycle if and only if
\* some steps lead to each other for ever, as unreachable exactly the steps
\* that no path from the initial one meets, a missing end only of a graph with
\* a cycle, and nothing that create() has made impossible.
THEOREM VerdictHolds == Spec => []VerdictIsRight
BY ValidatorInvariant, PTL DEF VInv

-----------------------------------------------------------------------------
(* Sessions *)

\* Steps a session may name.
StepsOf(d) == Ids(d) \cup {d.initial_step}

Checkpoint(d) == [state : WorkflowState, current : StepsOf(d),
                  completed : Seq(StepsOf(d)), cursor : Nat]

Session(d) == [state : WorkflowState, current : StepsOf(d),
               completed : Seq(StepsOf(d)), log : Seq(StepsOf(d)),
               checkpoint : Checkpoint(d) \cup {None}]

\* A checkpoint holds what a session with this record had completed and logged.
Kept(checkpoint, completed, log) ==
    /\ IsPrefix(checkpoint.completed, completed)
    /\ checkpoint.cursor <= Len(log)
    /\ ToSteps(SubSeq(log, 1, checkpoint.cursor)) \subseteq ToSteps(checkpoint.completed)

\* What the log says is done is completed, and each completed step is so once.
Record(s) ==
    /\ Repeated(s.completed) = {}
    /\ ToSteps(s.log) \subseteq ToSteps(s.completed)
    /\ (s.checkpoint # None => Kept(s.checkpoint, s.completed, s.log))

SInv == session # None => /\ phase = "done"
                          /\ session \in Session(definition)
                          /\ Record(session)

LEMMA PrefixIs ==
    ASSUME NEW d, NEW s \in Seq(StepsOf(d)), NEW t \in Seq(StepsOf(d))
    PROVE  IsPrefix(s, t) <=> /\ Len(s) <= Len(t)
                              /\ \A i \in 1..Len(s) : s[i] = t[i]
<1>1. ASSUME NEW n \in Nat, NEW u \in Seq(StepsOf(d)), n <= Len(u)
      PROVE  /\ SubSeq(u, 1, n) \in Seq(StepsOf(d))
             /\ Len(SubSeq(u, 1, n)) = n
             /\ \A i \in 1..n : SubSeq(u, 1, n)[i] = u[i]
  BY <1>1
<1>2. Len(s) \in Nat /\ Len(t) \in Nat
  OBVIOUS
<1>3. ASSUME NEW u \in Seq(StepsOf(d)), NEW v \in Seq(StepsOf(d)), Len(u) = Len(v),
             \A i \in 1..Len(u) : u[i] = v[i]
      PROVE  u = v
  BY <1>3
<1>4. CASE Len(s) <= Len(t)
  <2> DEFINE a == SubSeq(s, 1, Len(s))
             b == SubSeq(t, 1, Len(s))
  <2>1. /\ a \in Seq(StepsOf(d)) /\ b \in Seq(StepsOf(d)) /\ Len(a) = Len(s) /\ Len(b) = Len(s)
        /\ \A i \in 1..Len(s) : a[i] = s[i] /\ b[i] = t[i]
    BY <1>1, <1>2, <1>4
  <2> HIDE DEF a, b
  <2>2. a = b <=> \A i \in 1..Len(s) : s[i] = t[i]
    BY <1>3, <2>1
  <2> QED
    BY <1>4, <2>2 DEF IsPrefix, a, b
<1>5. CASE ~(Len(s) <= Len(t))
  BY <1>5 DEF IsPrefix
<1> QED
  BY <1>4, <1>5

\* One more entry.
LEMMA AppendGrows ==
    ASSUME NEW d, NEW s \in Seq(StepsOf(d)), NEW x \in StepsOf(d)
    PROVE  /\ Append(s, x) \in Seq(StepsOf(d))
           /\ IsPrefix(s, Append(s, x))
           /\ ToSteps(Append(s, x)) = ToSteps(s) \cup {x}
<1> DEFINE t == Append(s, x)
           n == Len(s)
<1>1. /\ t \in Seq(StepsOf(d)) /\ n \in Nat /\ Len(t) = n + 1 /\ t[n + 1] = x
      /\ \A i \in 1..n : t[i] = s[i]
  OBVIOUS
<1> HIDE DEF t, n
<1>2. IsPrefix(s, t)
  BY <1>1, PrefixIs DEF n
<1>3. ToSteps(t) = {t[i] : i \in 1..(n + 1)} /\ ToSteps(s) = {s[i] : i \in 1..n}
  BY <1>1 DEF ToSteps, n
<1>4. (\A i \in 1..(n + 1) : i \in 1..n \/ i = n + 1) /\ n + 1 \in 1..(n + 1)
      /\ \A i \in 1..n : i \in 1..(n + 1)
  BY <1>1
<1>5. ToSteps(t) = ToSteps(s) \cup {x}
  BY <1>1, <1>3, <1>4
<1> QED
  BY <1>1, <1>2, <1>5 DEF t

LEMMA CompletedGrows ==
    ASSUME NEW d, NEW s \in Seq(StepsOf(d)), NEW x \in StepsOf(d), Repeated(s) = {}
    PROVE  /\ Completed(s, x) \in Seq(StepsOf(d))
           /\ IsPrefix(s, Completed(s, x))
           /\ ToSteps(Completed(s, x)) = ToSteps(s) \cup {x}
           /\ Repeated(Completed(s, x)) = {}
<1>1. CASE Contains(s, x)
  <2>1. Completed(s, x) = s /\ x \in ToSteps(s)
    BY <1>1 DEF Completed, Contains, ToSteps
  <2> QED
    BY <2>1, PrefixIs
<1>2. CASE ~Contains(s, x)
  <2> DEFINE t == Append(s, x)
             n == Len(s)
  <2>1. Completed(s, x) = t
    BY <1>2 DEF Completed
  <2>2. /\ t \in Seq(StepsOf(d)) /\ n \in Nat /\ Len(t) = n + 1 /\ t[n + 1] = x
        /\ \A i \in 1..n : t[i] = s[i]
    OBVIOUS
  <2>3. \A i \in 1..n : s[i] # x
    BY <1>2 DEF Contains
  <2>4. \A j \in 1..n : \A k \in 1..(j - 1) : s[k] # s[j]
    BY DEF Repeated
  <2> HIDE DEF t, n
  <2>5. ASSUME NEW j \in 1..(n + 1), NEW k \in 1..(j - 1)
        PROVE  t[k] # t[j]
    <3>1. k \in 1..n
      BY <2>2
    <3>2. CASE j = n + 1
      BY <2>2, <2>3, <3>1, <3>2
    <3>3. CASE j \in 1..n
      BY <2>2, <2>4, <3>1, <3>3
    <3> QED
      BY <2>2, <3>2, <3>3
  <2>6. Repeated(t) = {}
    BY <2>2, <2>5 DEF Repeated
  <2> QED
    BY <2>1, <2>6, AppendGrows DEF t
<1> QED
  BY <1>1, <1>2

\* A checkpoint stays what it was while the record grows.
LEMMA KeptStays ==
    ASSUME NEW d, NEW c \in Checkpoint(d),
           NEW s \in Seq(StepsOf(d)), NEW t \in Seq(StepsOf(d)), IsPrefix(s, t),
           NEW log \in Seq(StepsOf(d)), NEW more \in Seq(StepsOf(d)), IsPrefix(log, more),
           Kept(c, s, log)
    PROVE  Kept(c, t, more)
<1>1. c.completed \in Seq(StepsOf(d)) /\ c.cursor \in Nat
  BY DEF Checkpoint
<1>2. /\ c.cursor <= Len(log) /\ Len(log) <= Len(more)
      /\ Len(log) \in Nat /\ Len(more) \in Nat
      /\ \A i \in 1..Len(log) : log[i] = more[i]
  BY PrefixIs DEF Kept
<1>3. IsPrefix(c.completed, t)
  BY <1>1, PrefixIs DEF Kept
<1>4. ASSUME NEW n \in Nat, n <= Len(log)
      PROVE  ToSteps(SubSeq(more, 1, n)) = ToSteps(SubSeq(log, 1, n))
  <2>1. ASSUME NEW u \in Seq(StepsOf(d)), n <= Len(u)
        PROVE  ToSteps(SubSeq(u, 1, n)) = {u[i] : i \in 1..n}
    <3>1. Len(SubSeq(u, 1, n)) = n /\ \A i \in 1..n : SubSeq(u, 1, n)[i] = u[i]
      BY <2>1
    <3> QED
      BY <3>1 DEF ToSteps
  <2>2. ToSteps(SubSeq(log, 1, n)) = {log[i] : i \in 1..n}
    BY <1>4, <2>1
  <2>3. ToSteps(SubSeq(more, 1, n)) = {more[i] : i \in 1..n}
    BY <1>2, <1>4, <2>1
  <2>4. \A i \in 1..n : i \in 1..Len(log) /\ log[i] = more[i]
    BY <1>2, <1>4
  <2> QED
    BY <2>2, <2>3, <2>4
<1> QED
  BY <1>1, <1>2, <1>3, <1>4 DEF Kept

LEMMA RecordGrows ==
    ASSUME NEW d, NEW s \in Session(d), Record(s), NEW t \in Session(d), NEW x \in StepsOf(d),
           t.completed = Completed(s.completed, x),
           t.log = s.log \/ t.log = Append(s.log, x),
           t.checkpoint = s.checkpoint
    PROVE  /\ Record(t)
           /\ IsPrefix(s.completed, t.completed)
           /\ IsPrefix(s.log, t.log)
<1>1. /\ s.completed \in Seq(StepsOf(d)) /\ s.log \in Seq(StepsOf(d))
      /\ t.completed \in Seq(StepsOf(d)) /\ t.log \in Seq(StepsOf(d))
      /\ s.checkpoint # None => s.checkpoint \in Checkpoint(d)
  BY DEF Session
<1>2. /\ IsPrefix(s.completed, t.completed)
      /\ ToSteps(t.completed) = ToSteps(s.completed) \cup {x}
      /\ Repeated(t.completed) = {}
  BY <1>1, CompletedGrows DEF Record
<1>3. IsPrefix(s.log, t.log) /\ ToSteps(t.log) \subseteq ToSteps(s.log) \cup {x}
  <2>1. CASE t.log = s.log
    BY <1>1, <2>1, PrefixIs
  <2>2. CASE t.log = Append(s.log, x)
    BY <1>1, <2>2, AppendGrows
  <2> QED
    BY <2>1, <2>2
<1>4. s.checkpoint # None => Kept(s.checkpoint, t.completed, t.log)
  BY <1>1, <1>2, <1>3, KeptStays DEF Record
<1> QED
  BY <1>2, <1>3, <1>4 DEF Record

\* What every step of a session does with its record.
KeepsRecord(s, t) ==
    /\ (s.state \in Terminal => t.state = s.state)
    /\ IsPrefix(s.completed, t.completed)
    /\ IsPrefix(s.log, t.log)
    /\ Record(t)

LEMMA CreateKeeps ==
    ASSUME CreateSession
    PROVE  SInv'
<1>1. /\ phase = "done" /\ UNCHANGED <<definition, phase>>
      /\ session' = [state |-> "CREATED", current |-> definition.initial_step,
                     completed |-> <<>>, log |-> <<>>, checkpoint |-> None]
  BY DEF CreateSession, Valid, validatorVars
<1>2. session' \in Session(definition)
  BY <1>1 DEF Session, StepsOf, WorkflowState
<1>3. Record(session')
  BY <1>1 DEF Record, Repeated, ToSteps
<1> QED
  BY <1>1, <1>2, <1>3 DEF SInv

LEMMA TransitionKeeps ==
    ASSUME SInv, NEW target \in WorkflowState, Transition(target)
    PROVE  SInv' /\ KeepsRecord(session, session')
<1>1. /\ session # None /\ target \in Allowed(session.state)
      /\ phase = "done" /\ session \in Session(definition) /\ Record(session)
      /\ UNCHANGED <<definition, phase>>
      /\ session' = [session EXCEPT !.state = target]
  BY DEF Transition, SInv, validatorVars
<1>2. /\ session' \in Session(definition)
      /\ session'.completed = session.completed
      /\ session'.log = session.log
      /\ session'.checkpoint = session.checkpoint
  BY <1>1 DEF Session
<1>3. session.state \notin Terminal
  BY <1>1 DEF Allowed, Terminal
<1>4. IsPrefix(session.completed, session.completed) /\ IsPrefix(session.log, session.log)
  BY <1>1, PrefixIs DEF Session
<1> QED
  BY <1>1, <1>2, <1>3, <1>4 DEF SInv, Record, KeepsRecord

LEMMA WalkKeeps ==
    ASSUME SInv, NEW step \in Ids(definition), WalkTo(step)
    PROVE  SInv' /\ KeepsRecord(session, session')
<1>1. /\ session # None /\ phase = "done"
      /\ session \in Session(definition) /\ Record(session)
      /\ UNCHANGED <<definition, phase>>
      /\ session' = [session EXCEPT !.completed = Completed(@, session.current),
                                    !.current = step,
                                    !.log = IF Len(@) < MaxEvents
                                            THEN Append(@, session.current) ELSE @]
  BY DEF WalkTo, SInv, validatorVars
<1>2. /\ session.current \in StepsOf(definition) /\ step \in StepsOf(definition)
      /\ session.completed \in Seq(StepsOf(definition))
      /\ session.log \in Seq(StepsOf(definition))
  BY <1>1 DEF Session, StepsOf
<1>3. /\ Completed(session.completed, session.current) \in Seq(StepsOf(definition))
      /\ Append(session.log, session.current) \in Seq(StepsOf(definition))
  BY <1>1, <1>2, CompletedGrows, AppendGrows DEF Record
<1>4. /\ session' \in Session(definition)
      /\ session'.completed = Completed(session.completed, session.current)
      /\ session'.log = session.log \/ session'.log = Append(session.log, session.current)
      /\ session'.checkpoint = session.checkpoint
      /\ session'.state = session.state
  BY <1>1, <1>2, <1>3 DEF Session
<1>5. /\ Record(session')
      /\ IsPrefix(session.completed, session'.completed)
      /\ IsPrefix(session.log, session'.log)
  BY <1>1, <1>2, <1>4, RecordGrows
<1> QED
  BY <1>1, <1>4, <1>5 DEF SInv, KeepsRecord

LEMMA ReportKeeps ==
    ASSUME SInv, NEW step \in Ids(definition), ReportCompleted(step)
    PROVE  SInv' /\ KeepsRecord(session, session')
<1>1. /\ session # None /\ phase = "done"
      /\ session \in Session(definition) /\ Record(session)
      /\ UNCHANGED <<definition, phase>>
      /\ session' = [session EXCEPT !.completed = Completed(@, step), !.log = Append(@, step)]
  BY DEF ReportCompleted, SInv, validatorVars
<1>2. /\ step \in StepsOf(definition)
      /\ session.completed \in Seq(StepsOf(definition))
      /\ session.log \in Seq(StepsOf(definition))
  BY <1>1 DEF Session, StepsOf
<1>3. /\ Completed(session.completed, step) \in Seq(StepsOf(definition))
      /\ Append(session.log, step) \in Seq(StepsOf(definition))
  BY <1>1, <1>2, CompletedGrows, AppendGrows DEF Record
<1>4. /\ session' \in Session(definition)
      /\ session'.completed = Completed(session.completed, step)
      /\ session'.log = Append(session.log, step)
      /\ session'.checkpoint = session.checkpoint
      /\ session'.state = session.state
  BY <1>1, <1>2, <1>3 DEF Session
<1>5. /\ Record(session')
      /\ IsPrefix(session.completed, session'.completed)
      /\ IsPrefix(session.log, session'.log)
  BY <1>1, <1>2, <1>4, RecordGrows
<1> QED
  BY <1>1, <1>4, <1>5 DEF SInv, KeepsRecord

LEMMA CheckpointKeeps ==
    ASSUME SInv, TakeCheckpoint
    PROVE  SInv' /\ KeepsRecord(session, session')
<1> DEFINE c == [state |-> session.state, current |-> session.current,
                 completed |-> session.completed, cursor |-> Len(session.log)]
<1>1. /\ session # None /\ phase = "done"
      /\ session \in Session(definition) /\ Record(session)
      /\ UNCHANGED <<definition, phase>>
      /\ session' = [session EXCEPT !.checkpoint = c]
  BY DEF TakeCheckpoint, SInv, validatorVars
<1>2. /\ session.completed \in Seq(StepsOf(definition))
      /\ session.log \in Seq(StepsOf(definition))
  BY <1>1 DEF Session
<1>3. c \in Checkpoint(definition) /\ c.completed = session.completed /\ c.cursor = Len(session.log)
  BY <1>1, <1>2 DEF Session, Checkpoint
<1> HIDE DEF c
<1>4. /\ session' \in Session(definition)
      /\ session'.completed = session.completed
      /\ session'.log = session.log
      /\ session'.checkpoint = c
      /\ session'.state = session.state
  BY <1>1, <1>3 DEF Session
<1>5. IsPrefix(session.completed, session.completed) /\ IsPrefix(session.log, session.log)
  BY <1>2, PrefixIs
<1>6. ToSteps(SubSeq(session.log, 1, Len(session.log))) = ToSteps(session.log)
  <2>1. /\ Len(SubSeq(session.log, 1, Len(session.log))) = Len(session.log)
        /\ \A i \in 1..Len(session.log) :
              SubSeq(session.log, 1, Len(session.log))[i] = session.log[i]
    BY <1>2
  <2> QED
    BY <2>1 DEF ToSteps
<1>7. Kept(c, session.completed, session.log)
  <2>1. Len(session.log) \in Nat
    BY <1>2
  <2> QED
    BY <1>1, <1>3, <1>5, <1>6, <2>1 DEF Kept, Record
<1> QED
  BY <1>1, <1>4, <1>5, <1>7 DEF SInv, Record, KeepsRecord

LEMMA SessionSteps ==
    ASSUME SInv, [Next]_vars
    PROVE  SInv' /\ (session # None => KeepsRecord(session, session'))
<1>1. CASE CreateSession
  BY <1>1, CreateKeeps DEF CreateSession
<1>2. CASE \E target \in WorkflowState : Transition(target)
  BY <1>2, TransitionKeeps
<1>3. CASE Walk
  BY <1>3, WalkKeeps DEF Walk
<1>4. CASE \E step \in Ids(definition) : ReportCompleted(step)
  BY <1>4, ReportKeeps
<1>5. CASE TakeCheckpoint
  BY <1>5, CheckpointKeeps
<1>6. ASSUME UNCHANGED session, session # None
      PROVE  KeepsRecord(session, session')
  <2>0. Record(session)
    BY <1>6 DEF SInv
  <2>1. session.completed \in Seq(StepsOf(definition)) /\ session.log \in Seq(StepsOf(definition))
    BY <1>6 DEF SInv, Session
  <2> QED
    BY <1>6, <2>0, <2>1, PrefixIs DEF KeepsRecord
<1>7. CASE ValidatorStep /\ UNCHANGED session
  <2>1. phase # "done"
    BY <1>7 DEF ValidatorStep, Take, CheckShape, VisitRoot, VisitNext, BeginSearch, SearchNext, EndSearch
  <2> QED
    BY <1>6, <1>7, <2>1 DEF SInv
<1>8. CASE UNCHANGED vars
  BY <1>6, <1>8 DEF vars, SInv
<1> QED
  BY <1>1, <1>2, <1>3, <1>4, <1>5, <1>7, <1>8 DEF Next

\* However often completions are reported and states asked for: a run that has
\* ended stays as it ended, its record only grows and holds each step once, and
\* a checkpoint never holds what the session that goes on does not.
THEOREM RecordHolds == Spec => RunKeepsItsRecord
<1>1. Init => SInv
  BY DEF Init, SInv
<1>2. SInv /\ [Next]_vars => SInv'
  BY SessionSteps
<1>3. Spec => []SInv
  BY <1>1, <1>2, PTL DEF Spec
<1>4. SInv /\ SInv' /\ [Next]_vars =>
        [session # None =>
         /\ session.state \in Terminal => session'.state = session.state
         /\ IsPrefix(session.completed, session'.completed)
         /\ IsPrefix(session.log, session'.log)
         /\ Repeated(session'.completed) = {}
         /\ session'.checkpoint # None =>
              /\ IsPrefix(session'.checkpoint.completed, session'.completed)
              /\ session'.checkpoint.cursor <= Len(session'.log)
              /\ ToSteps(SubSeq(session'.log, 1, session'.checkpoint.cursor))
                   \subseteq ToSteps(session'.checkpoint.completed)]_vars
  <2> SUFFICES ASSUME SInv, SInv', [Next]_vars, session # None
               PROVE  KeepsRecord(session, session')
    BY DEF KeepsRecord, Record, Kept
  <2> QED
    BY SessionSteps
<1> QED
  BY <1>3, <1>4, PTL DEF Spec, RunKeepsItsRecord

=============================================================================
