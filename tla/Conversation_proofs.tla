------------------------ MODULE Conversation_proofs ------------------------
(***************************************************************************)
(* Proofs about Conversation, for any messages, stores, engines, providers *)
(* and any number of sessions and turns.                                   *)
(***************************************************************************)
EXTENDS Conversation, FiniteSetTheorems, NaturalsInduction, WellFoundedInduction, TLAPS

-----------------------------------------------------------------------------
(* The greatest of some numbers *)

LEMMA Greatest ==
    ASSUME NEW n \in Nat, NEW S \in SUBSET (0..n), S # {}
    PROVE  Max(S) \in S /\ \A y \in S : Max(S) >= y
<1> DEFINE T == {n - x : x \in S}
<1>1. T \subseteq Nat /\ T # {}
  <2>1. \A x \in S : x \in Int /\ 0 <= x /\ x <= n
    OBVIOUS
  <2>2. \A x \in S : n - x \in Nat
    BY <2>1
  <2> QED
    BY <2>2
<1>2. PICK m \in T : \A w \in T : <<w, m>> \notin OpToRel(<, Nat)
  BY <1>1, WFMin, NatLessThanWellFounded, Zenon
<1>3. \A w \in T : ~(w < m)
  BY <1>1, <1>2 DEF OpToRel
<1>4. PICK x \in S : m = n - x
  BY <1>2
<1>5. \A y \in S : x >= y
  <2> SUFFICES ASSUME NEW y \in S PROVE x >= y
    OBVIOUS
  <2>1. ~(n - y < m)
    BY <1>3
  <2>2. x \in Int /\ y \in Int /\ n \in Int
    OBVIOUS
  <2> HIDE DEF T
  <2> QED
    BY <1>4, <2>1, <2>2
<1> HIDE DEF T
<1> QED
  BY <1>4, <1>5 DEF Max

\* What is greatest is so alone.
LEMMA GreatestIs ==
    ASSUME NEW S \in SUBSET Int, NEW x \in S, \A y \in S : x >= y
    PROVE  Max(S) = x
<1>1. \A z \in S : (\A y \in S : z >= y) => z = x
  OBVIOUS
<1> QED
  BY <1>1 DEF Max

-----------------------------------------------------------------------------
(* What the turns have named *)

Intents == {Winner(m) : m \in Messages}

Turns == [message : Messages, intent : Intents,
          followUp : {"CONTINUATION", "CLARIFICATION_REQUIRED", "MISSING_ENTITY"}]

\* The turns up to n that name something for the field.
Naming(turns, n, field) == {k \in 1..n : turns[k].message[field] # None}

LEMMA LastNamingIs ==
    ASSUME NEW turns \in Seq(Turns), NEW n \in 0..Len(turns), NEW field
    PROVE  LastNaming(turns, n, field) \in 0..n
<1>1. {0} \cup Naming(turns, n, field) \in SUBSET (0..n) /\ n \in Nat
  BY DEF Naming
<1>2. Max({0} \cup Naming(turns, n, field)) \in {0} \cup Naming(turns, n, field)
  BY <1>1, Greatest
<1> QED
  BY <1>1, <1>2 DEF LastNaming, Naming

LEMMA Appended ==
    ASSUME NEW turns \in Seq(Turns), NEW t \in Turns
    PROVE  /\ Append(turns, t) \in Seq(Turns)
           /\ Len(Append(turns, t)) = Len(turns) + 1 /\ Len(turns) \in Nat
           /\ \A k \in 1..Len(turns) : Append(turns, t)[k] = turns[k]
           /\ Append(turns, t)[Len(turns) + 1] = t
           /\ \A k \in 1..(Len(turns) + 1) : k \in 1..Len(turns) \/ k = Len(turns) + 1
  OBVIOUS

LEMMA NamedEarlier ==
    ASSUME NEW turns \in Seq(Turns), NEW t \in Turns, NEW n \in 0..Len(turns), NEW field
    PROVE  LastNaming(Append(turns, t), n, field) = LastNaming(turns, n, field)
<1>1. Naming(Append(turns, t), n, field) = Naming(turns, n, field)
  <2>1. \A k \in 1..n : Append(turns, t)[k] = turns[k]
    BY Appended
  <2> QED
    BY <2>1 DEF Naming
<1> QED
  BY <1>1 DEF LastNaming, Naming

LEMMA NamedLast ==
    ASSUME NEW turns \in Seq(Turns), NEW t \in Turns, NEW field
    PROVE  LastNaming(Append(turns, t), Len(turns) + 1, field)
             = IF t.message[field] # None THEN Len(turns) + 1 ELSE LastNaming(turns, Len(turns), field)
<1> DEFINE n == Len(turns)
           after == Append(turns, t)
<1>1. n \in Nat /\ after[n + 1] = t /\ \A k \in 1..(n + 1) : k \in 1..n \/ k = n + 1
  BY Appended
<1>2. \A k \in 1..n : k \in 1..(n + 1) /\ k < n + 1
  BY <1>1
<1>3. CASE t.message[field] # None
  <2>1. n + 1 \in {0} \cup Naming(after, n + 1, field)
    BY <1>1, <1>3 DEF Naming
  <2>2. \A y \in {0} \cup Naming(after, n + 1, field) : y \in Int /\ n + 1 >= y
    BY <1>1 DEF Naming
  <2>3. Max({0} \cup Naming(after, n + 1, field)) = n + 1
    BY <2>1, <2>2, GreatestIs
  <2> QED
    BY <1>3, <2>3 DEF LastNaming, Naming
<1>4. CASE t.message[field] = None
  <2>1. Naming(after, n + 1, field) = Naming(after, n, field)
    BY <1>1, <1>2, <1>4 DEF Naming
  <2>2. LastNaming(after, n + 1, field) = LastNaming(after, n, field)
    BY <2>1 DEF LastNaming, Naming
  <2> QED
    BY <1>1, <1>4, <2>2, NamedEarlier
<1> QED
  BY <1>3, <1>4

\* Later turns do not change what the first n have named, and a further turn
\* names what its message names and leaves the rest as it was.
LEMMA NamedByAppended ==
    ASSUME NEW turns \in Seq(Turns), NEW t \in Turns
    PROVE  /\ \A n \in 0..Len(turns) : NamedBy(Append(turns, t), n) = NamedBy(turns, n)
           /\ NamedBy(Append(turns, t), Len(turns) + 1)
                = Entities(t.message, NamedBy(turns, Len(turns)))
<1> DEFINE after == Append(turns, t)
           L == Len(turns)
<1>0. L \in Nat /\ L \in 0..L /\ after[L + 1] = t /\ \A k \in 1..L : after[k] = turns[k]
  BY Appended
<1>1. ASSUME NEW n \in 0..L, NEW field
      PROVE  /\ LastNaming(after, n, field) = LastNaming(turns, n, field)
             /\ LastNaming(turns, n, field) # 0 =>
                  after[LastNaming(turns, n, field)] = turns[LastNaming(turns, n, field)]
  <2>1. LastNaming(turns, n, field) \in 0..n
    BY LastNamingIs
  <2>2. LastNaming(turns, n, field) # 0 => LastNaming(turns, n, field) \in 1..L
    BY <1>0, <2>1
  <2> QED
    BY <1>0, <2>2, NamedEarlier
<1>2. ASSUME NEW n \in 0..L PROVE NamedBy(after, n) = NamedBy(turns, n)
  BY <1>1, Zenon DEF NamedBy
<1>3. ASSUME NEW field \in {"prediction", "symbol"}
      PROVE  NamedBy(after, L + 1)[field]
               = Remembered(t.message[field], NamedBy(turns, L)[field])
  <2>1. LastNaming(after, L + 1, field)
          = IF t.message[field] # None THEN L + 1 ELSE LastNaming(turns, L, field)
    BY NamedLast
  <2>2. L + 1 # 0
    BY <1>0
  <2> QED
    BY <1>0, <1>1, <2>1, <2>2 DEF NamedBy, Remembered
<1>4. NamedBy(after, L + 1) = Entities(t.message, NamedBy(turns, L))
  <2>1. NamedBy(after, L + 1) = [field \in {"prediction", "symbol"} |-> NamedBy(after, L + 1)[field]]
    BY Zenon DEF NamedBy
  <2>2. NamedBy(after, L + 1)["prediction"]
          = Remembered(t.message["prediction"], NamedBy(turns, L)["prediction"])
    BY <1>3
  <2>3. NamedBy(after, L + 1)["symbol"]
          = Remembered(t.message["symbol"], NamedBy(turns, L)["symbol"])
    BY <1>3
  <2> HIDE DEF after, L
  <2> QED
    BY <2>1, <2>2, <2>3 DEF Entities
<1> QED
  BY <1>2, <1>4

-----------------------------------------------------------------------------
(* The intents *)

TenIntents ==
    {"HEALTH", "VERSION", "HELP", "EXPLAIN_PREDICTION", "SHOW_EVIDENCE", "WHY_CONFIDENCE",
     "DECISION_SUMMARY", "HISTORICAL_COMPARISON", "SIMILAR_CASES", "LEARNING_SUMMARY"}

LEMMA KnownIs == /\ Known = TenIntents
                 /\ "UNKNOWN" \notin Known /\ None \notin Known
                 /\ \A intent, entities : ~SubjectOk(intent, entities) => intent \in Known
<1>1. Known = TenIntents
  BY DEF Known, INTENT_REGISTRY, TenIntents
<1> QED
  <2>1. "UNKNOWN" \notin Known
    BY <1>1 DEF TenIntents
  <2>2. None \notin Known
    BY ConversationAssumption DEF ConversationAssumption
  <2>3. \A intent, entities : ~SubjectOk(intent, entities) => intent \in Known
    BY Zenon DEF SubjectOk
  <2> QED
    BY <1>1, <2>1, <2>2, <2>3

\* The order of the enumeration names every intent once, and the priorities are
\* those of the registry.
LEMMA PlacesAre ==
    \A i \in Known : /\ Place(i) \in 1..10 /\ RegistryOrder[Place(i)] = i
                     /\ INTENT_REGISTRY[i].priority \in 10..40
<1>1. \A i \in Known : \E k \in 1..10 : RegistryOrder[k] = i
  <2>1. /\ RegistryOrder[1] = "EXPLAIN_PREDICTION" /\ RegistryOrder[2] = "SHOW_EVIDENCE"
        /\ RegistryOrder[3] = "WHY_CONFIDENCE" /\ RegistryOrder[4] = "HISTORICAL_COMPARISON"
        /\ RegistryOrder[5] = "SIMILAR_CASES" /\ RegistryOrder[6] = "LEARNING_SUMMARY"
        /\ RegistryOrder[7] = "DECISION_SUMMARY" /\ RegistryOrder[8] = "HEALTH"
        /\ RegistryOrder[9] = "VERSION" /\ RegistryOrder[10] = "HELP"
    BY DEF RegistryOrder
  <2>2. \A k \in {1, 2, 3, 4, 5, 6, 7, 8, 9, 10} : k \in 1..10
    OBVIOUS
  <2> QED
    BY <2>1, <2>2, KnownIs DEF TenIntents
<1>2. DOMAIN RegistryOrder = 1..10
  BY DEF RegistryOrder
<1>3. \A i \in Known : INTENT_REGISTRY[i].priority \in {10, 20, 30, 35, 40}
  <2> DEFINE R == INTENT_REGISTRY
  <2>1. /\ R["HEALTH"].priority = 10 /\ R["VERSION"].priority = 10 /\ R["HELP"].priority = 10
        /\ R["EXPLAIN_PREDICTION"].priority = 20 /\ R["SHOW_EVIDENCE"].priority = 20
        /\ R["WHY_CONFIDENCE"].priority = 20 /\ R["DECISION_SUMMARY"].priority = 35
        /\ R["HISTORICAL_COMPARISON"].priority = 30 /\ R["SIMILAR_CASES"].priority = 30
        /\ R["LEARNING_SUMMARY"].priority = 40
    BY DEF INTENT_REGISTRY, Rule
  <2> HIDE DEF R
  <2> QED
    BY <2>1, KnownIs DEF TenIntents, R
<1>4. ASSUME NEW i \in Known
      PROVE  /\ Place(i) \in 1..10 /\ RegistryOrder[Place(i)] = i
             /\ INTENT_REGISTRY[i].priority \in 10..40
  <2>1. Place(i) \in 1..10 /\ RegistryOrder[Place(i)] = i
    BY <1>1, <1>2 DEF Place
  <2>2. INTENT_REGISTRY[i].priority \in {10, 20, 30, 35, 40}
    BY <1>3
  <2>3. \A p \in {10, 20, 30, 35, 40} : p \in 10..40
    OBVIOUS
  <2> QED
    BY <2>1, <2>2, <2>3
<1> QED
  BY <1>4

LEMMA LeastOfTwo ==
    ASSUME NEW a \in Int, NEW b \in Int
    PROVE  Min({a, b}) = IF a <= b THEN a ELSE b
<1> DEFINE m == IF a <= b THEN a ELSE b
<1>1. m \in {a, b} /\ \A y \in {a, b} : m <= y
  OBVIOUS
<1>2. \A z \in {a, b} : (\A y \in {a, b} : z <= y) => z = m
  OBVIOUS
<1> HIDE DEF m
<1>3. Min({a, b}) = m
  BY <1>1, <1>2 DEF Min
<1> QED
  BY <1>3 DEF m

LEMMA StrengthIs ==
    ASSUME NEW rule, NEW terms, IsFiniteSet(terms), Matched(rule, terms) # {}
    PROVE  Strength(rule, terms) \in 0..100
<1>1. Cardinality(Matched(rule, terms)) \in Nat /\ Cardinality(Matched(rule, terms)) # 0
  <2>1. IsFiniteSet(Matched(rule, terms))
    BY FS_Subset DEF Matched
  <2> QED
    BY <2>1, FS_CardinalityType, FS_EmptySet
<1> DEFINE best == IF rule.phrases \cap terms # {} THEN 90
                   ELSE IF rule.keywords \cap terms # {} THEN 70 ELSE 60
           s == best + 5 * (Cardinality(Matched(rule, terms)) - 1)
<1>2. best \in {60, 70, 90}
  OBVIOUS
<1> HIDE DEF best
<1>3. s \in Nat
  BY <1>1, <1>2
<1>4. Strength(rule, terms) = Min({100, s})
  BY DEF Strength, best
<1> HIDE DEF s
<1>5. s \in Int /\ 100 \in Int
  BY <1>3
<1>6. Min({100, s}) = IF 100 <= s THEN 100 ELSE s
  BY <1>5, LeastOfTwo
<1> QED
  BY <1>3, <1>4, <1>6

\* Strength, then priority, then place, as one number.
KeyOf(strength, priority, place) == 500 * strength + (500 - 11 * priority - place)

Ranked(strength, priority, place) ==
    /\ strength \in Int /\ priority \in Int /\ place \in Int
    /\ 0 <= strength /\ strength <= 100 /\ 10 <= priority /\ priority <= 40
    /\ 1 <= place /\ place <= 10

LEMMA KeyIs ==
    ASSUME NEW s, NEW p, NEW k, Ranked(s, p, k)
    PROVE  KeyOf(s, p, k) \in Nat /\ KeyOf(s, p, k) <= 51000
  BY DEF KeyOf, Ranked

LEMMA KeyOrders ==
    ASSUME NEW s, NEW p, NEW k, Ranked(s, p, k), NEW t, NEW q, NEW l, Ranked(t, q, l),
           k # l, KeyOf(s, p, k) >= KeyOf(t, q, l)
    PROVE  s > t \/ (s = t /\ p < q) \/ (s = t /\ p = q /\ k < l)
  BY DEF KeyOf, Ranked

\* Of the intents that match, one is preferred to all others: the winner is an
\* intent of the registry, or none matches.
LEMMA WinnerIs ==
    ASSUME NEW message, IsFiniteSet(message.terms)
    PROVE  Winner(message) \in Known \cup {"UNKNOWN"}
<1> DEFINE C == Candidates(message)
           S(i) == Strength(INTENT_REGISTRY[i], message.terms)
           P(i) == INTENT_REGISTRY[i].priority
           Key(i) == KeyOf(S(i), P(i), Place(i))
           Keys == {Key(i) : i \in C}
<1>1. CASE C = {}
  BY <1>1 DEF Winner
<1>2. CASE C # {}
  <2>1. ASSUME NEW i \in C
        PROVE  Ranked(S(i), P(i), Place(i)) /\ RegistryOrder[Place(i)] = i /\ i \in Known
    <3>1. i \in Known /\ S(i) \in 0..100
      BY StrengthIs DEF Candidates
    <3>2. P(i) \in 10..40 /\ Place(i) \in 1..10 /\ RegistryOrder[Place(i)] = i
      BY <3>1, PlacesAre
    <3> HIDE DEF S, P
    <3> QED
      BY <3>1, <3>2 DEF Ranked
  <2>2. \A i, j \in C : Preferred(i, j, message.terms) <=>
                          \/ S(i) > S(j)
                          \/ S(i) = S(j) /\ P(i) < P(j)
                          \/ S(i) = S(j) /\ P(i) = P(j) /\ Place(i) < Place(j)
    BY DEF Preferred
  <2> HIDE DEF C, S, P
  <2> HIDE DEF Key
  <2>3. PICK n \in Nat : \A i \in C : Key(i) \in Nat /\ Key(i) <= n
    <3>1. \A i \in C : Key(i) \in Nat /\ Key(i) <= 51000
      BY <2>1, KeyIs DEF Key
    <3> QED
      BY <3>1
  <2>4. Keys \in SUBSET (0..n) /\ Keys # {}
    BY <1>2, <2>3
  <2>5. PICK i \in C : \A j \in C : Key(i) >= Key(j)
    <3>1. Max(Keys) \in Keys /\ \A y \in Keys : Max(Keys) >= y
      BY <2>4, Greatest
    <3>2. PICK i \in C : Max(Keys) = Key(i)
      BY <3>1
    <3>3. \A j \in C : Key(j) \in Keys
      OBVIOUS
    <3> HIDE DEF Keys, Key
    <3> QED
      BY <3>1, <3>2, <3>3
  <2>6. ASSUME NEW j \in C \ {i} PROVE Preferred(i, j, message.terms)
    <3>1. Place(i) # Place(j)
      BY <2>1
    <3>2. Key(i) >= Key(j)
      BY <2>5
    <3> QED
      <4>1. Ranked(S(i), P(i), Place(i)) /\ Ranked(S(j), P(j), Place(j))
        BY <2>1
      <4>2. KeyOf(S(i), P(i), Place(i)) >= KeyOf(S(j), P(j), Place(j))
        BY <3>2 DEF Key
      <4> QED
        BY <2>2, <3>1, <4>1, <4>2, KeyOrders
  <2>7. Winner(message) = CHOOSE w \in C : \A j \in C \ {w} : Preferred(w, j, message.terms)
    BY <1>2 DEF Winner, C
  <2>8. Winner(message) \in C
    BY <2>6, <2>7
  <2> QED
    BY <2>1, <2>8
<1> QED
  BY <1>1, <1>2

-----------------------------------------------------------------------------
(* The prompt *)

LEMMA TrimOrderIs ==
    /\ Len(TrimOrder) = 7 /\ DOMAIN TrimOrder = 1..7
    /\ TrimOrder[1] = "CONVERSATION_CONTEXT" /\ TrimOrder[2] = "SIMILAR_CASES"
    /\ TrimOrder[3] = "LEARNING_SUMMARY" /\ TrimOrder[4] = "HISTORICAL_CONTEXT"
    /\ TrimOrder[5] = "EVIDENCE" /\ TrimOrder[6] = "DECISION_INTELLIGENCE"
    /\ TrimOrder[7] = "COMPOSITE_CONFIDENCE"
  BY DEF TrimOrder

\* Every section that may be dropped is in the order once.
LEMMA TrimOrderOnce ==
    /\ \A j, k \in 1..7 : TrimOrder[j] = TrimOrder[k] => j = k
    /\ \A k \in 1..7 : TrimOrder[k] \notin NeverTrimmed
<1>1. \A k \in 1..7 : k = 1 \/ k = 2 \/ k = 3 \/ k = 4 \/ k = 5 \/ k = 6 \/ k = 7
  OBVIOUS
<1>2. ASSUME NEW j \in 1..7, NEW k \in 1..7, TrimOrder[j] = TrimOrder[k] PROVE j = k
  BY <1>1, <1>2, TrimOrderIs
<1>3. ASSUME NEW k \in 1..7 PROVE TrimOrder[k] \notin NeverTrimmed
  BY <1>1, TrimOrderIs DEF NeverTrimmed
<1> QED
  BY <1>2, <1>3

Sized(present, sizes) == \A s \in present : sizes[s] \in Nat

LEMMA SizeIs ==
    ASSUME NEW present, NEW sizes, Sized(present, sizes), NEW section
    PROVE  Size(section, present, sizes) \in Nat
  BY DEF Size, Sized

LEMMA TokensAre ==
    ASSUME NEW present, NEW sizes, Sized(present, sizes)
    PROVE  Tokens(present, sizes) \in Nat
  BY SizeIs DEF Tokens

\* Without a section that may be dropped, a prompt is shorter by its size.
LEMMA TokensWithout ==
    ASSUME NEW present, NEW sizes, Sized(present, sizes), NEW k \in 1..7, TrimOrder[k] \in present
    PROVE  Tokens(present \ {TrimOrder[k]}, sizes) = Tokens(present, sizes) - sizes[TrimOrder[k]]
<1> DEFINE s == TrimOrder[k]
           Z(t) == Size(t, present, sizes)
           Y(t) == Size(t, present \ {s}, sizes)
<1>1. /\ \A t : Z(t) \in Nat /\ (t # s => Y(t) = Z(t))
      /\ Y(s) = 0 /\ Z(s) = sizes[s]
  BY SizeIs DEF Size
<1>2. /\ Tokens(present, sizes)
           = Z("SYSTEM") + Z("CONVERSATION_CONTEXT") + Z("DECISION_INTELLIGENCE") + Z("EVIDENCE")
             + Z("COMPOSITE_CONFIDENCE") + Z("HISTORICAL_CONTEXT") + Z("SIMILAR_CASES")
             + Z("LEARNING_SUMMARY") + Z("CITATIONS") + Z("USER_REQUEST")
      /\ Tokens(present \ {s}, sizes)
           = Y("SYSTEM") + Y("CONVERSATION_CONTEXT") + Y("DECISION_INTELLIGENCE") + Y("EVIDENCE")
             + Y("COMPOSITE_CONFIDENCE") + Y("HISTORICAL_CONTEXT") + Y("SIMILAR_CASES")
             + Y("LEARNING_SUMMARY") + Y("CITATIONS") + Y("USER_REQUEST")
  BY DEF Tokens
<1>3. \/ s = "CONVERSATION_CONTEXT" \/ s = "SIMILAR_CASES" \/ s = "LEARNING_SUMMARY"
      \/ s = "HISTORICAL_CONTEXT" \/ s = "EVIDENCE" \/ s = "DECISION_INTELLIGENCE"
      \/ s = "COMPOSITE_CONFIDENCE"
  <2>1. k = 1 \/ k = 2 \/ k = 3 \/ k = 4 \/ k = 5 \/ k = 6 \/ k = 7
    OBVIOUS
  <2> QED
    BY <2>1, TrimOrderIs
<1> HIDE DEF s, Y, Z
<1>4. Tokens(present \ {s}, sizes) = Tokens(present, sizes) - sizes[s]
  BY <1>1, <1>2, <1>3
<1> QED
  BY <1>4 DEF s

\* The sections of a prompt among the first m of the trimming order.
First(present, m) == {s \in present : \E k \in 1..m : s = TrimOrder[k]}

\* After k steps of the trimming the first m sections gave way, the last of them
\* because the prompt was too long; either the rest fits or it is all of the k.
Trimmed(v, k, present, sizes) ==
    \E m \in 0..k :
        /\ v.omitted = First(present, m) /\ IsFiniteSet(v.omitted)
        /\ v.total = Cost(present, sizes, v.omitted) /\ v.total \in Int
        /\ v.total <= Budget \/ First(present, m) = First(present, k)
        /\ m # 0 => /\ TrimOrder[m] \in present
                    /\ Cost(present, sizes, First(present, m - 1)) > Budget

LEMMA MarkerTimes == \A c \in Nat : Marker * c \in Int /\ Marker * (c + 1) = Marker * c + Marker
  BY PipelineAssumption DEF PipelineAssumption

LEMMA FirstGrows ==
    ASSUME NEW present, NEW k \in 0..6
    PROVE  /\ TrimOrder[k + 1] \notin present => First(present, k + 1) = First(present, k)
           /\ TrimOrder[k + 1] \in present =>
                /\ First(present, k + 1) = First(present, k) \cup {TrimOrder[k + 1]}
                /\ First(present, k) = First(present, k + 1) \ {TrimOrder[k + 1]}
           /\ TrimOrder[k + 1] \notin First(present, k)
<1>1. \A j \in 1..k : j \in 1..7 /\ j # k + 1 /\ k + 1 \in 1..7 /\ j \in 1..(k + 1)
  OBVIOUS
<1>2. \A j \in 1..(k + 1) : j \in 1..k \/ j = k + 1
  OBVIOUS
<1>3. TrimOrder[k + 1] \notin First(present, k)
  BY <1>1, TrimOrderOnce DEF First
<1>4. k + 1 \in 1..(k + 1)
  OBVIOUS
<1>5. \A s \in present : s \in First(present, k + 1) <=> s \in First(present, k) \/ s = TrimOrder[k + 1]
  BY <1>1, <1>2, <1>4 DEF First
<1>6. First(present, k + 1) \subseteq present /\ First(present, k) \subseteq present
  BY DEF First
<1> QED
  BY <1>3, <1>5, <1>6

LEMMA GiveWayIs ==
    ASSUME NEW present, NEW sizes, Sized(present, sizes), NEW k \in 0..6, NEW v,
           Trimmed(v, k, present, sizes)
    PROVE  Trimmed(GiveWay(v, TrimOrder[k + 1], present, sizes), k + 1, present, sizes)
<1> DEFINE s == TrimOrder[k + 1]
           w == GiveWay(v, s, present, sizes)
<1>1. PICK m \in 0..k :
        /\ v.omitted = First(present, m) /\ IsFiniteSet(v.omitted)
        /\ v.total = Cost(present, sizes, v.omitted) /\ v.total \in Int
        /\ v.total <= Budget \/ First(present, m) = First(present, k)
        /\ m # 0 => /\ TrimOrder[m] \in present
                    /\ Cost(present, sizes, First(present, m - 1)) > Budget
  BY DEF Trimmed
<1>2. m \in 0..(k + 1) /\ k + 1 \in 0..(k + 1) /\ k + 1 # 0 /\ (k + 1) - 1 = k /\ k + 1 \in 1..7
  OBVIOUS
<1>3. CASE v.total <= Budget \/ s \notin present
  <2>1. w = v
    BY <1>3 DEF GiveWay
  <2>2. v.total <= Budget \/ First(present, m) = First(present, k + 1)
    BY <1>1, <1>3, FirstGrows
  <2> QED
    BY <1>1, <1>2, <2>1, <2>2 DEF Trimmed
<1>4. CASE ~(v.total <= Budget) /\ s \in present
  <2>1. w.omitted = v.omitted \cup {s} /\ w.total = v.total + Marker - sizes[s]
    BY <1>4 DEF GiveWay
  <2> HIDE DEF w
  <2>2. v.omitted = First(present, k) /\ s \notin v.omitted
    BY <1>1, <1>4, FirstGrows
  <2>3. w.omitted = First(present, k + 1)
    BY <1>4, <2>1, <2>2, FirstGrows
  <2>4. /\ IsFiniteSet(w.omitted) /\ Cardinality(w.omitted) = Cardinality(v.omitted) + 1
        /\ Cardinality(v.omitted) \in Nat
    BY <1>1, <2>1, <2>2, FS_AddElement, FS_CardinalityType
  <2>5. Tokens(present \ w.omitted, sizes) = Tokens(present \ v.omitted, sizes) - sizes[s]
    <3>1. present \ w.omitted = (present \ v.omitted) \ {s} /\ s \in present \ v.omitted
      BY <1>4, <2>1, <2>2
    <3>2. Sized(present \ v.omitted, sizes)
      BY DEF Sized
    <3> DEFINE rest == present \ v.omitted
    <3>3. TrimOrder[k + 1] \in rest /\ Sized(rest, sizes)
      BY <3>1, <3>2
    <3> HIDE DEF rest
    <3>4. Tokens(rest \ {TrimOrder[k + 1]}, sizes) = Tokens(rest, sizes) - sizes[TrimOrder[k + 1]]
      BY <1>2, <3>3, TokensWithout
    <3> QED
      BY <3>1, <3>4 DEF rest
  <2>6. Tokens(present \ v.omitted, sizes) \in Nat /\ sizes[s] \in Nat
    <3>1. Sized(present \ v.omitted, sizes)
      BY DEF Sized
    <3> QED
      BY <1>4, <3>1, TokensAre DEF Sized
  <2>7. w.total = Cost(present, sizes, w.omitted) /\ w.total \in Int
    <3> DEFINE c == Cardinality(v.omitted)
               t == Tokens(present \ v.omitted, sizes)
               x == Marker * c
    <3>1. Cardinality(w.omitted) = c + 1 /\ Marker * (c + 1) = x + Marker /\ x \in Int /\ Marker \in Int
      BY <2>4, MarkerTimes, PipelineAssumption DEF PipelineAssumption
    <3>2. v.total = t + x
      BY <1>1 DEF Cost
    <3>3. Cost(present, sizes, w.omitted) = (t - sizes[s]) + (x + Marker)
      BY <2>5, <3>1 DEF Cost
    <3>4. t \in Int /\ sizes[s] \in Int
      BY <2>6
    <3> HIDE DEF t, x, s
    <3> QED
      BY <2>1, <3>1, <3>2, <3>3, <3>4
  <2>8. Cost(present, sizes, First(present, k)) > Budget
    BY <1>1, <1>4, <2>2, PipelineAssumption DEF PipelineAssumption
  <2> SUFFICES \E n \in 0..(k + 1) :
                 /\ w.omitted = First(present, n) /\ IsFiniteSet(w.omitted)
                 /\ w.total = Cost(present, sizes, w.omitted) /\ w.total \in Int
                 /\ w.total <= Budget \/ First(present, n) = First(present, k + 1)
                 /\ n # 0 => /\ TrimOrder[n] \in present
                             /\ Cost(present, sizes, First(present, n - 1)) > Budget
    BY DEF Trimmed, w
  <2> WITNESS k + 1 \in 0..(k + 1)
  <2> QED
    BY <1>2, <1>4, <2>3, <2>4, <2>7, <2>8
<1> QED
  BY <1>3, <1>4

\* The trimming is defined: its steps, one after the other.
LEMMA TrimIs ==
    ASSUME NEW present, NEW sizes
    PROVE  \E f : /\ f[0] = [omitted |-> {}, total |-> Tokens(present, sizes)]
                  /\ \A k \in 1..7 : f[k] = GiveWay(f[k - 1], TrimOrder[k], present, sizes)
                  /\ Trim(present, sizes) = f[7]
<1> DEFINE v0 == [omitted |-> {}, total |-> Tokens(present, sizes)]
           G(v, k) == GiveWay(v, TrimOrder[k], present, sizes)
           IsRun(step) == step = [k \in 0..7 |-> IF k = 0 THEN v0 ELSE G(step[k - 1], k)]
           f == CHOOSE step : IsRun(step)
<1>1. \E step : IsRun(step)
  <2> DEFINE v1 == G(v0, 1)
             v2 == G(v1, 2)
             v3 == G(v2, 3)
             v4 == G(v3, 4)
             v5 == G(v4, 5)
             v6 == G(v5, 6)
             v7 == G(v6, 7)
  <2> HIDE DEF v0, G, v1, v2, v3, v4, v5, v6, v7
  <2> DEFINE g == [k \in 0..7 |->
                     IF k = 0 THEN v0 ELSE IF k = 1 THEN v1 ELSE IF k = 2 THEN v2
                     ELSE IF k = 3 THEN v3 ELSE IF k = 4 THEN v4 ELSE IF k = 5 THEN v5
                     ELSE IF k = 6 THEN v6 ELSE v7]
  <2>1. /\ g[0] = v0 /\ g[1] = v1 /\ g[2] = v2 /\ g[3] = v3 /\ g[4] = v4 /\ g[5] = v5
        /\ g[6] = v6 /\ g[7] = v7
    OBVIOUS
  <2>2. \A k \in 0..7 : k = 0 \/ k = 1 \/ k = 2 \/ k = 3 \/ k = 4 \/ k = 5 \/ k = 6 \/ k = 7
    OBVIOUS
  <2>3. DOMAIN g = 0..7 /\ g = [k \in 0..7 |-> g[k]]
    OBVIOUS
  <2> HIDE DEF g
  <2>4. /\ g[1] = G(g[0], 1) /\ g[2] = G(g[1], 2) /\ g[3] = G(g[2], 3) /\ g[4] = G(g[3], 4)
        /\ g[5] = G(g[4], 5) /\ g[6] = G(g[5], 6) /\ g[7] = G(g[6], 7)
    BY <2>1 DEF v1, v2, v3, v4, v5, v6, v7
  <2>5. \A k \in 0..7 : g[k] = IF k = 0 THEN v0 ELSE G(g[k - 1], k)
    BY <2>1, <2>2, <2>4
  <2>6. IsRun(g)
    BY <2>3, <2>5
  <2> QED
    BY <2>6
<1>2. IsRun(f)
  BY <1>1
<1>3. Trim(present, sizes) = f[7]
  BY TrimOrderIs DEF Trim
<1> HIDE DEF f, v0, G
<1>4. f[0] = v0 /\ \A k \in 1..7 : f[k] = G(f[k - 1], k)
  BY <1>2
<1> QED
  BY <1>3, <1>4 DEF v0, G

\* A trimmed prompt fits or keeps nothing that may be dropped, and what it dropped
\* last it had to drop.
LEMMA BuiltIs ==
    ASSUME NEW present \in SUBSET Sections, NeverTrimmed \subseteq present,
           NEW sizes \in [Sections -> Nat]
    PROVE  /\ TrimmedAsItMust([present |-> present, omitted |-> Trim(present, sizes).omitted,
                               total |-> Trim(present, sizes).total,
                               sizes |-> [s \in present |-> sizes[s]]])
           /\ Trim(present, sizes).omitted \cap NeverTrimmed = {}
<1> DEFINE v == Trim(present, sizes)
           own == [s \in present |-> sizes[s]]
           prompt == [present |-> present, omitted |-> v.omitted, total |-> v.total, sizes |-> own]
<1>1. Sized(present, sizes)
  BY DEF Sized
<1>2. Trimmed(v, 7, present, sizes)
  <2>1. PICK f : /\ f[0] = [omitted |-> {}, total |-> Tokens(present, sizes)]
                 /\ \A k \in 1..7 : f[k] = GiveWay(f[k - 1], TrimOrder[k], present, sizes)
                 /\ Trim(present, sizes) = f[7]
    BY TrimIs
  <2>2. Trimmed(f[0], 0, present, sizes)
    <3>1. First(present, 0) = {} /\ IsFiniteSet({}) /\ Cardinality({}) = 0 /\ 0 \in 0..0
      BY FS_EmptySet DEF First
    <3>2. Tokens(present, sizes) \in Nat /\ Marker * 0 = 0 /\ present \ {} = present
      BY <1>1, TokensAre, PipelineAssumption DEF PipelineAssumption
    <3>3. Cost(present, sizes, {}) = Tokens(present, sizes)
      BY <3>1, <3>2 DEF Cost
    <3>4. f[0].omitted = {} /\ f[0].total = Tokens(present, sizes)
      BY <2>1
    <3> QED
      BY <3>1, <3>2, <3>3, <3>4 DEF Trimmed
  <2>3. ASSUME NEW k \in 0..6, Trimmed(f[k], k, present, sizes)
        PROVE  Trimmed(f[k + 1], k + 1, present, sizes)
    <3>1. f[k + 1] = GiveWay(f[k], TrimOrder[k + 1], present, sizes)
      <4>1. k + 1 \in 1..7 /\ (k + 1) - 1 = k
        OBVIOUS
      <4> QED
        BY <2>1, <4>1
    <3> QED
      BY <1>1, <2>3, <3>1, GiveWayIs
  <2>4. Trimmed(f[1], 1, present, sizes)
    BY <2>2, <2>3
  <2>5. Trimmed(f[2], 2, present, sizes)
    BY <2>4, <2>3
  <2>6. Trimmed(f[3], 3, present, sizes)
    BY <2>5, <2>3
  <2>7. Trimmed(f[4], 4, present, sizes)
    BY <2>6, <2>3
  <2>8. Trimmed(f[5], 5, present, sizes)
    BY <2>7, <2>3
  <2>9. Trimmed(f[6], 6, present, sizes)
    BY <2>8, <2>3
  <2>10. Trimmed(f[7], 7, present, sizes)
    BY <2>9, <2>3
  <2> QED
    BY <2>1, <2>10
<1>3. PICK m \in 0..7 :
        /\ v.omitted = First(present, m) /\ IsFiniteSet(v.omitted)
        /\ v.total = Cost(present, sizes, v.omitted) /\ v.total \in Int
        /\ v.total <= Budget \/ First(present, m) = First(present, 7)
        /\ m # 0 => /\ TrimOrder[m] \in present
                    /\ Cost(present, sizes, First(present, m - 1)) > Budget
  BY <1>2 DEF Trimmed
<1> HIDE DEF v
<1>4. \A o : Cost(present, own, o) = Cost(present, sizes, o)
  <2>1. ASSUME NEW o, NEW s PROVE Size(s, present \ o, own) = Size(s, present \ o, sizes)
    BY DEF Size
  <2> HIDE DEF own
  <2> QED
    BY <2>1 DEF Cost, Tokens
<1>5. LastDropped(v.omitted) = m
  <2>1. {0} \cup {k \in DOMAIN TrimOrder : TrimOrder[k] \in v.omitted} \in SUBSET Int
    BY TrimOrderIs
  <2>2. \A k \in 1..7 : TrimOrder[k] \in v.omitted => k <= m
    BY <1>3, TrimOrderOnce DEF First
  <2>3. m # 0 => m \in 1..7 /\ TrimOrder[m] \in v.omitted
    BY <1>3 DEF First
  <2>4. m \in {0} \cup {k \in DOMAIN TrimOrder : TrimOrder[k] \in v.omitted}
    BY <2>3, TrimOrderIs
  <2>5. \A y \in {0} \cup {k \in DOMAIN TrimOrder : TrimOrder[k] \in v.omitted} : m >= y
    BY <2>2, TrimOrderIs
  <2> QED
    BY <2>1, <2>4, <2>5, GreatestIs DEF LastDropped
<1>6. m # 0 => First(present, m) \ {TrimOrder[m]} = First(present, m - 1)
  <2>1. SUFFICES ASSUME m # 0 PROVE First(present, m) \ {TrimOrder[m]} = First(present, m - 1)
    OBVIOUS
  <2> DEFINE k == m - 1
  <2>2. k \in 0..6 /\ m = k + 1
    BY <2>1
  <2> HIDE DEF k
  <2>3. First(present, k) = First(present, k + 1) \ {TrimOrder[k + 1]}
    BY <1>3, <2>1, <2>2, FirstGrows
  <2> QED
    BY <2>2, <2>3 DEF k
<1>7. present \ First(present, 7) = NeverTrimmed
  <2>1. \A s \in present : s \in NeverTrimmed \/ \E k \in 1..7 : s = TrimOrder[k]
    BY TrimOrderIs DEF Sections
  <2> QED
    BY <2>1, TrimOrderOnce DEF First
<1>8. prompt.omitted \subseteq prompt.present
  BY <1>3 DEF First
<1>9. /\ prompt.present = present /\ prompt.omitted = v.omitted /\ prompt.total = v.total
      /\ prompt.sizes = own
  OBVIOUS
<1> HIDE DEF prompt, own
<1>10. prompt.total = Cost(present, own, v.omitted)
  BY <1>3, <1>4, <1>9
<1>11. prompt.total <= Budget \/ present \ v.omitted = NeverTrimmed
  BY <1>3, <1>7, <1>9
<1>12. m # 0 => Cost(present, own, v.omitted \ {TrimOrder[m]}) > Budget
  BY <1>3, <1>4, <1>6
<1>13. TrimmedAsItMust(prompt)
  BY <1>5, <1>8, <1>9, <1>10, <1>11, <1>12 DEF TrimmedAsItMust
<1>14. v.omitted \cap NeverTrimmed = {}
  BY <1>3, TrimOrderOnce DEF First
<1> QED
  BY <1>13, <1>14 DEF prompt, own, v

-----------------------------------------------------------------------------
(* Retrieval *)

Targets ==
    {"DECISION_SUMMARY", "EXPLANATION", "EVIDENCE", "COMPOSITE_CONFIDENCE", "HISTORICAL_CONTEXT",
     "SIMILAR_CASES", "LEARNING_SUMMARY", "HEALTH", "VERSION"}

LEMMA RoutingIs == \A intent \in Known \cup {"UNKNOWN"} : RETRIEVAL_ROUTING[intent] \subseteq Targets
<1> DEFINE R == RETRIEVAL_ROUTING
<1>1. /\ R["HEALTH"] \subseteq Targets /\ R["VERSION"] \subseteq Targets /\ R["HELP"] \subseteq Targets
      /\ R["EXPLAIN_PREDICTION"] \subseteq Targets /\ R["SHOW_EVIDENCE"] \subseteq Targets
      /\ R["WHY_CONFIDENCE"] \subseteq Targets /\ R["DECISION_SUMMARY"] \subseteq Targets
      /\ R["HISTORICAL_COMPARISON"] \subseteq Targets /\ R["SIMILAR_CASES"] \subseteq Targets
      /\ R["LEARNING_SUMMARY"] \subseteq Targets /\ R["UNKNOWN"] \subseteq Targets
  BY DEF RETRIEVAL_ROUTING, Targets
<1> HIDE DEF R
<1> QED
  BY <1>1, KnownIs DEF TenIntents, R

\* What a component cites is the decision and evidence of its sections.
CitedOf(d, citations) ==
    \A c \in citations :
        \/ c = <<"decision", d.id>>
        \/ c[1] \in Contributors /\ c[2] \in d.sections[c[1]].evidence

LEMMA SliceIs ==
    ASSUME NEW target \in Targets \ Standalone, NEW d
    PROVE  /\ Slice(target, d).target = target
           /\ <<"decision", d.id>> \in Slice(target, d).citations
           /\ CitedOf(d, Slice(target, d).citations)
<1>1. CASE target \in {"DECISION_SUMMARY", "EVIDENCE", "EXPLANATION", "COMPOSITE_CONFIDENCE"}
  <2>1. Slice(target, d).target = target /\ Slice(target, d).citations = {<<"decision", d.id>>}
    BY <1>1 DEF Slice, Component
  <2> QED
    BY <2>1 DEF CitedOf
<1>2. CASE target \in {"HISTORICAL_CONTEXT", "SIMILAR_CASES", "LEARNING_SUMMARY"}
  <2> DEFINE s == SectionOf(target)
             E == d.sections[s].evidence
  <2>1. s \in Contributors
    BY <1>2 DEF SectionOf, Contributors
  <2>2. /\ Slice(target, d).target = target
        /\ Slice(target, d).citations = {<<"decision", d.id>>} \cup {<<s, e>> : e \in E}
    BY <1>2 DEF Slice, Component
  <2> HIDE DEF s, E
  <2>3. ASSUME NEW c \in {<<s, e>> : e \in E} PROVE c[1] = s /\ c[2] \in E
    OBVIOUS
  <2> QED
    BY <2>1, <2>2, <2>3 DEF CitedOf, E
<1> QED
  BY <1>1, <1>2 DEF Targets, Standalone

\* Without a decision nothing is cited and no evidence is available.
LEMMA RetrievedIs ==
    ASSUME NEW target \in Targets, NEW fetch,
           target \notin Standalone => fetch.outcome \in {"error", "missing_subject", "not_found", "ok"}
    PROVE  /\ Retrieved(target, fetch).target = target
           /\ target \in Standalone => Retrieved(target, fetch).citations = {}
           /\ (target \notin Standalone /\ fetch.outcome # "ok") =>
                /\ Retrieved(target, fetch).citations = {}
                /\ Retrieved(target, fetch).availability # "AVAILABLE"
           /\ (target \notin Standalone /\ fetch.outcome = "ok") =>
                Retrieved(target, fetch) = Slice(target, fetch.decision)
<1>1. CASE target \in Standalone
  BY <1>1 DEF Retrieved, Component
<1>2. CASE target \notin Standalone /\ fetch.outcome = "error"
  BY <1>2 DEF Retrieved, Component
<1>3. CASE target \notin Standalone /\ fetch.outcome \in {"missing_subject", "not_found"}
  BY <1>3 DEF Retrieved, Component
<1>4. CASE target \notin Standalone /\ fetch.outcome = "ok"
  <2>1. Retrieved(target, fetch) = Slice(target, fetch.decision)
    BY <1>4 DEF Retrieved
  <2> QED
    BY <1>4, <2>1, SliceIs
<1> QED
  BY <1>1, <1>2, <1>3, <1>4

\* The predictions are numbered from 1 and carry their number.
Stored(st) ==
    /\ \E n \in Nat : DOMAIN st = 1..n
    /\ \A id \in DOMAIN st : st[id].id = id /\ DOMAIN st[id] = PredictionFields

\* Prediction id is what the entities name: by its number or by its symbol.
IsNamed(id, entities, st) ==
    /\ id \in DOMAIN st
    /\ \/ id = entities.prediction
       \/ entities.prediction = None /\ st[id].symbol = entities.symbol

LEMMA FetchIs ==
    ASSUME NEW st, Stored(st), NEW entities, NEW reads
    PROVE  LET fetch == Fetch(entities, st, reads)
           IN  /\ fetch.outcome \in {"error", "missing_subject", "not_found", "ok"}
               /\ fetch.outcome # "ok" => fetch.decision = None
               /\ fetch.outcome = "ok" =>
                    /\ HasSubject(entities)
                    /\ \E id \in DOMAIN st : /\ IsNamed(id, entities, st)
                                             /\ fetch.decision = Compose(st[id], reads)
<1> DEFINE id == IF entities.prediction # None THEN entities.prediction ELSE Latest(st, entities.symbol)
           fetch == Fetch(entities, st, reads)
<1>1. CASE ~HasSubject(entities) \/ ~reads.store
  BY <1>1 DEF Fetch
<1>2. CASE HasSubject(entities) /\ reads.store /\ id \notin DOMAIN st
  BY <1>2 DEF Fetch
<1>3. CASE HasSubject(entities) /\ reads.store /\ id \in DOMAIN st
  <2>1. fetch = [outcome |-> "ok", decision |-> Compose(st[id], reads)]
    BY <1>3 DEF Fetch
  <2>2. IsNamed(id, entities, st)
    <3>1. CASE entities.prediction # None
      BY <1>3, <3>1 DEF IsNamed
    <3>2. CASE entities.prediction = None
      <4> DEFINE ids == {i \in DOMAIN st : st[i].symbol = entities.symbol}
      <4>1. PICK n \in Nat : DOMAIN st = 1..n
        BY DEF Stored
      <4>2. id = IF ids = {} THEN None ELSE Max(ids)
        BY <3>2 DEF Latest
      <4>3. None \notin DOMAIN st
        BY <4>1, ConversationAssumption DEF ConversationAssumption
      <4>4. ids # {} /\ id = Max(ids)
        BY <1>3, <4>2, <4>3
      <4>5. ids \in SUBSET (0..n)
        BY <4>1
      <4>6. Max(ids) \in ids
        BY <4>4, <4>5, Greatest
      <4> QED
        BY <1>3, <3>2, <4>4, <4>6 DEF IsNamed
    <3> QED
      BY <3>1, <3>2
  <2>3. id \in DOMAIN st /\ IsNamed(id, entities, st) /\ fetch.decision = Compose(st[id], reads)
    BY <1>3, <2>1, <2>2
  <2>4. fetch.outcome = "ok"
    BY <2>1
  <2> HIDE DEF id, fetch
  <2>5. \E i \in DOMAIN st : /\ IsNamed(i, entities, st)
                            /\ fetch.decision = Compose(st[i], reads)
    BY <2>3
  <2> QED
    BY <1>3, <2>4, <2>5 DEF fetch
<1>4. CASE HasSubject(entities) /\ reads.store
  BY <1>2, <1>3, <1>4
<1> QED
  BY <1>1, <1>4

\* What is retrieved for an intent cites the decision that was fetched for the
\* entities, if one was, and no evidence is available without a citation.
WellRetrieved(retrieval, intent, entities, st, reads) ==
    /\ ~Uncited(retrieval)
    /\ \A c \in retrieval.components : c.target \in Targets
    /\ retrieval.citations # {} =>
         /\ <<"decision", retrieval.decision.id>> \in retrieval.citations
         /\ CitedOf(retrieval.decision, retrieval.citations)
    /\ retrieval.decision # None => retrieval.citations # {}
    /\ (retrieval.decision # None \/ retrieval.citations # {}) =>
         /\ NeedsDecision(intent) /\ HasSubject(entities)
         /\ \E id \in DOMAIN st : /\ IsNamed(id, entities, st)
                                  /\ retrieval.decision = Compose(st[id], reads)

LEMMA RetrieveIs ==
    ASSUME NEW st, Stored(st), NEW entities, NEW reads, NEW intent \in Known \cup {"UNKNOWN"}
    PROVE  WellRetrieved(Retrieve(intent, entities, st, reads), intent, entities, st, reads)
<1> DEFINE retrieval == Retrieve(intent, entities, st, reads)
           fetch == IF NeedsDecision(intent) THEN Fetch(entities, st, reads)
                    ELSE [outcome |-> "n/a", decision |-> None]
           T == RETRIEVAL_ROUTING[intent]
           C == {Retrieved(t, fetch) : t \in T}
<1>1. T \subseteq Targets /\ (NeedsDecision(intent) <=> T \ Standalone # {})
  BY RoutingIs DEF NeedsDecision
<1>2. /\ retrieval.components = C /\ retrieval.decision = fetch.decision
      /\ retrieval.citations = UNION {c.citations : c \in C}
  BY DEF Retrieve
<1>3. /\ NeedsDecision(intent) => fetch.outcome \in {"error", "missing_subject", "not_found", "ok"}
      /\ fetch.outcome # "ok" => fetch.decision = None
      /\ fetch.outcome = "ok" => /\ NeedsDecision(intent) /\ HasSubject(entities)
                                 /\ \E id \in DOMAIN st :
                                      /\ IsNamed(id, entities, st)
                                      /\ fetch.decision = Compose(st[id], reads)
  <2>1. CASE NeedsDecision(intent)
    <3>1. fetch = Fetch(entities, st, reads)
      BY <2>1
    <3> HIDE DEF fetch
    <3> QED
      BY <2>1, <3>1, FetchIs
  <2>2. CASE ~NeedsDecision(intent)
    BY <2>2
  <2> QED
    BY <2>1, <2>2
<1> HIDE DEF retrieval, fetch, T
<1>4. ASSUME NEW t \in T
      PROVE  /\ Retrieved(t, fetch).target = t
             /\ t \in Standalone => Retrieved(t, fetch).citations = {}
             /\ (t \notin Standalone /\ fetch.outcome # "ok") =>
                  /\ Retrieved(t, fetch).citations = {}
                  /\ Retrieved(t, fetch).availability # "AVAILABLE"
             /\ (t \notin Standalone /\ fetch.outcome = "ok") =>
                  /\ <<"decision", fetch.decision.id>> \in Retrieved(t, fetch).citations
                  /\ CitedOf(fetch.decision, Retrieved(t, fetch).citations)
  <2>1. t \in Targets /\ (t \notin Standalone => NeedsDecision(intent))
    BY <1>1
  <2>2. t \notin Standalone => fetch.outcome \in {"error", "missing_subject", "not_found", "ok"}
    BY <1>3, <2>1
  <2>3. (t \notin Standalone /\ fetch.outcome = "ok") =>
           Retrieved(t, fetch) = Slice(t, fetch.decision)
    BY <2>1, <2>2, RetrievedIs
  <2>4. (t \notin Standalone /\ fetch.outcome = "ok") =>
           /\ <<"decision", fetch.decision.id>> \in Retrieved(t, fetch).citations
           /\ CitedOf(fetch.decision, Retrieved(t, fetch).citations)
    BY <2>1, <2>3, SliceIs
  <2> QED
    BY <2>1, <2>2, <2>4, RetrievedIs
<1>5. \A x : x \in retrieval.citations <=> \E t \in T : x \in Retrieved(t, fetch).citations
  BY <1>2
<1>6. \A c \in retrieval.components : \E t \in T : c = Retrieved(t, fetch)
  BY <1>2
<1> HIDE DEF C
<1>7. CASE fetch.outcome = "ok"
  <2>1. PICK t \in T : t \notin Standalone
    BY <1>1, <1>3, <1>7
  <2>2. <<"decision", fetch.decision.id>> \in retrieval.citations
    BY <1>4, <1>5, <1>7, <2>1
  <2>3. CitedOf(fetch.decision, retrieval.citations)
    <3>1. \A u \in T : CitedOf(fetch.decision, Retrieved(u, fetch).citations)
      BY <1>4, <1>7 DEF CitedOf
    <3> QED
      BY <1>5, <3>1 DEF CitedOf
  <2>4. ~Uncited(retrieval)
    BY <2>2 DEF Uncited
  <2>5. \A c \in retrieval.components : c.target \in Targets
    BY <1>1, <1>4, <1>6
  <2> QED
    BY <1>2, <1>3, <1>7, <2>2, <2>3, <2>4, <2>5 DEF WellRetrieved, retrieval
<1>8. CASE fetch.outcome # "ok"
  <2>1. retrieval.citations = {} /\ retrieval.decision = None
    BY <1>2, <1>3, <1>4, <1>5, <1>8
  <2>2. ASSUME NEW c \in retrieval.components
        PROVE  c.target \in Targets /\ (c.target \notin Standalone => c.availability # "AVAILABLE")
    BY <1>1, <1>4, <1>6, <1>8
  <2>3. ~Uncited(retrieval)
    BY <2>2 DEF Uncited
  <2> QED
    BY <2>1, <2>2, <2>3 DEF WellRetrieved, retrieval
<1> QED
  BY <1>7, <1>8

\* The sections of a prompt are known ones, and those that are never trimmed are
\* among them.
LEMMA SectionsAre ==
    ASSUME NEW components, \A c \in components : c.target \in Targets
    PROVE  SectionsOf(components) \in SUBSET Sections /\ NeverTrimmed \subseteq SectionsOf(components)
<1>1. Sections = {"SYSTEM", "CITATIONS", "USER_REQUEST", "CONVERSATION_CONTEXT", "SIMILAR_CASES",
                  "LEARNING_SUMMARY", "HISTORICAL_CONTEXT", "EVIDENCE", "DECISION_INTELLIGENCE",
                  "COMPOSITE_CONFIDENCE"}
  <2>1. \A k \in 1..7 : k = 1 \/ k = 2 \/ k = 3 \/ k = 4 \/ k = 5 \/ k = 6 \/ k = 7
    OBVIOUS
  <2>2. /\ \A s \in {TrimOrder[k] : k \in 1..7} :
             s \in {"CONVERSATION_CONTEXT", "SIMILAR_CASES", "LEARNING_SUMMARY", "HISTORICAL_CONTEXT",
                    "EVIDENCE", "DECISION_INTELLIGENCE", "COMPOSITE_CONFIDENCE"}
    BY <2>1, TrimOrderIs
  <2>3. \A s \in {"CONVERSATION_CONTEXT", "SIMILAR_CASES", "LEARNING_SUMMARY", "HISTORICAL_CONTEXT",
                  "EVIDENCE", "DECISION_INTELLIGENCE", "COMPOSITE_CONFIDENCE"} :
             s \in {TrimOrder[k] : k \in 1..7}
    BY TrimOrderIs
  <2> QED
    BY <2>2, <2>3, TrimOrderIs DEF Sections, NeverTrimmed
<1>2. \A t \in Targets : PromptSection(t) \in Sections
  BY <1>1 DEF PromptSection, Targets
<1>3. "CONVERSATION_CONTEXT" \in Sections /\ NeverTrimmed \subseteq Sections
  BY <1>1 DEF NeverTrimmed
<1>4. \A s \in {PromptSection(c.target) : c \in components} : s \in Sections
  BY <1>2
<1> QED
  BY <1>3, <1>4, Zenon DEF SectionsOf

-----------------------------------------------------------------------------
(* The answers *)

\* The names of failures are not those of missing citations.
LEMMA ErrorsAre == \A failure : NormaliseError(failure) # "MissingCitation"
<1> SUFFICES ASSUME NEW failure PROVE NormaliseError(failure) # "MissingCitation"
  OBVIOUS
<1> DEFINE hits == {k \in DOMAIN ErrorRules : ErrorRules[k][1] \cap failure # {}}
<1>1. /\ DOMAIN ErrorRules = 1..5
      /\ ErrorRules[1][2] = "RATE_LIMITED" /\ ErrorRules[2][2] = "AUTHENTICATION_ERROR"
      /\ ErrorRules[3][2] = "TIMEOUT" /\ ErrorRules[4][2] = "PROVIDER_UNAVAILABLE"
      /\ ErrorRules[5][2] = "INVALID_REQUEST"
  BY DEF ErrorRules
<1>2. CASE "no client" \in failure \/ hits = {}
  BY <1>2 DEF NormaliseError
<1>3. CASE "no client" \notin failure /\ hits # {}
  <2>1. NormaliseError(failure) = ErrorRules[Min(hits)][2]
    BY <1>3 DEF NormaliseError
  <2>2. Min(hits) \in hits
    <3>1. hits \subseteq Nat
      BY <1>1
    <3>2. PICK m \in hits : \A w \in hits : <<w, m>> \notin OpToRel(<, Nat)
      BY <1>3, <3>1, WFMin, NatLessThanWellFounded, Zenon
    <3> HIDE DEF hits
    <3>3. \A w \in hits : m <= w
      <4>1. ASSUME NEW w \in hits PROVE m <= w
        <5>1. ~(w < m)
          BY <3>1, <3>2 DEF OpToRel
        <5> QED
          BY <3>1, <5>1
      <4> QED
        BY <4>1
    <3> QED
      BY <3>3 DEF Min
  <2>3. \A k \in 1..5 : k = 1 \/ k = 2 \/ k = 3 \/ k = 4 \/ k = 5
    OBVIOUS
  <2>4. Min(hits) \in 1..5
    BY <1>1, <2>2
  <2> HIDE DEF hits
  <2> QED
    BY <1>1, <2>1, <2>3, <2>4
<1> QED
  BY <1>2, <1>3

-----------------------------------------------------------------------------
(* The confidence in the evidence *)

\* What the composition guarantees of a decision about a record.
Fits(d, record) ==
    /\ d.status # "EMPTY"
    /\ \A s \in Contributors : /\ d.sections[s].status \in {"COMPLETE", "INSUFFICIENT_DATA"}
                               /\ d.sections[s].source = record.id
    /\ d.sections["prediction"].status = "COMPLETE"
    /\ d.sections["prediction"].payload.conf = record.conf
    /\ d.sections["similarity"].payload.count \in Nat
    /\ d.sections["similarity"].payload.count <= SimilarityK
    /\ d.sections["learning"].payload.patterns \in Nat

LEMMA ComposeIs ==
    ASSUME NEW record, NEW read, IsRead(read)
    PROVE  Fits(Compose(record, read), record)
<1> DEFINE d == Compose(record, read)
<1>1. /\ d.sections["prediction"] = PredictionSection(record)
      /\ d.sections["historical_memory"] = MemorySection(record, read.memory)
      /\ d.sections["similarity"] = SimilaritySection(record, read.similar)
      /\ d.sections["learning"] = LearningSection(record, read.learning)
  BY DEF Compose, Contributors
<1>2. d.status # "EMPTY"
  BY DEF Compose, OverallStatus
<1> HIDE DEF d
<1>3. /\ d.sections["prediction"].status = "COMPLETE"
      /\ d.sections["prediction"].source = record.id
      /\ d.sections["prediction"].payload.conf = record.conf
  BY <1>1 DEF PredictionSection, Section
<1>4. /\ d.sections["historical_memory"].status \in {"COMPLETE", "INSUFFICIENT_DATA"}
      /\ d.sections["historical_memory"].source = record.id
  BY <1>1 DEF MemorySection, Section
<1>5. /\ d.sections["similarity"].status \in {"COMPLETE", "INSUFFICIENT_DATA"}
      /\ d.sections["similarity"].source = record.id
      /\ d.sections["similarity"].payload.count \in Nat
      /\ d.sections["similarity"].payload.count <= SimilarityK
  <2>1. CASE read.similar = None \/ read.similar.available = FALSE \/ read.similar.cases = {}
    BY <1>1, <2>1 DEF SimilaritySection, Section, SimilarityK
  <2>2. CASE ~(read.similar = None \/ read.similar.available = FALSE \/ read.similar.cases = {})
    <3>1. /\ Cardinality(read.similar.cases) \in Nat
          /\ Cardinality(read.similar.cases) <= SimilarityK
      BY <2>2, FS_CardinalityType DEF IsRead
    <3> QED
      BY <1>1, <2>2, <3>1 DEF SimilaritySection, Section
  <2> QED
    BY <2>1, <2>2
<1>6. /\ d.sections["learning"].status \in {"COMPLETE", "INSUFFICIENT_DATA"}
      /\ d.sections["learning"].source = record.id
      /\ d.sections["learning"].payload.patterns \in Nat
  <2>1. CASE read.learning = None \/ read.learning.enough = FALSE
    BY <1>1, <2>1 DEF LearningSection, Section
  <2>2. CASE ~(read.learning = None \/ read.learning.enough = FALSE)
    BY <1>1, <2>2 DEF LearningSection, Section, IsRead
  <2> QED
    BY <2>1, <2>2
<1>7. Fits(d, record)
  BY <1>2, <1>3, <1>4, <1>5, <1>6 DEF Fits, Contributors
<1> QED
  BY <1>7 DEF d

LEMMA FacetsAre ==
    ASSUME NEW s \in Contributors, NEW payload, NEW facet \in Facets(s, payload)
    PROVE  facet[1] \in FacetNames
<1>1. CASE s = "prediction"
  <2>1. Facets(s, payload) = {<<"confidence", payload.conf # None>>, <<"direction", TRUE>>,
                              <<"risk", payload.planned>>}
    BY <1>1, Zenon DEF Facets
  <2>2. \E given : \/ facet = <<"confidence", given>>
                    \/ facet = <<"direction", given>>
                    \/ facet = <<"risk", given>>
    BY <2>1, Zenon
  <2> QED
    BY <2>2 DEF FacetNames
<1>2. CASE s = "historical_memory"
  <2>1. Facets(s, payload) = {<<"records", payload.present>>, <<"aggregates", FALSE>>}
    BY <1>2, Zenon DEF Facets
  <2>2. \E given : facet = <<"records", given>> \/ facet = <<"aggregates", given>>
    BY <2>1, Zenon
  <2> QED
    BY <2>2 DEF FacetNames
<1>3. CASE s = "similarity"
  BY <1>3 DEF Facets, FacetNames
<1>4. CASE s = "learning"
  BY <1>4 DEF Facets, FacetNames
<1> QED
  BY <1>1, <1>2, <1>3, <1>4 DEF Contributors

\* The explanation of a composed decision leaves nothing out.
LEMMA ExplainedIs ==
    ASSUME NEW d, NEW record, Fits(d, record)
    PROVE  ExplainedInFull(d)
<1> DEFINE missing == Missing(d)
           absent == {m[1] : m \in {m \in missing : m[2] = None}}
           Facet(s) == Facets(s, d.sections[s].payload)
<1>1. ASSUME NEW s \in Contributors PROVE s \in Complete(d) <=> d.sections[s].status = "COMPLETE"
  BY DEF Complete
<1>2. ASSUME NEW s \in Contributors, NEW facet \in Facet(s) PROVE facet[1] # None
  BY FacetsAre, ConversationAssumption DEF ConversationAssumption
<1>3. ASSUME NEW s \in Contributors, s \notin Complete(d)
      PROVE  MissingOf(d.sections[s], s) = {<<s, None, "INSUFFICIENT_DATA">>}
  BY <1>1, <1>3 DEF MissingOf, Fits
<1>4. ASSUME NEW s \in Contributors, s \in Complete(d)
      PROVE  MissingOf(d.sections[s], s)
               = {<<s, facet[1], "NOT_SUPPORTED">> : facet \in {f \in Facet(s) : ~f[2]}}
  BY <1>1, <1>4 DEF MissingOf
<1>5. \A m : m \in missing <=> \E s \in Contributors : m \in MissingOf(d.sections[s], s)
  BY DEF Missing
<1>6. absent = Contributors \ Complete(d)
  <2>1. ASSUME NEW s \in Contributors \ Complete(d) PROVE s \in absent
    <3>1. <<s, None, "INSUFFICIENT_DATA">> \in missing
      BY <1>3, <1>5
    <3> HIDE DEF missing
    <3>2. <<s, None, "INSUFFICIENT_DATA">>[1] = s /\ <<s, None, "INSUFFICIENT_DATA">>[2] = None
      OBVIOUS
    <3> QED
      BY <3>1, <3>2
  <2>2. ASSUME NEW m \in missing, m[2] = None PROVE m[1] \in Contributors \ Complete(d)
    <3>1. PICK s \in Contributors : m \in MissingOf(d.sections[s], s)
      BY <1>5
    <3>2. CASE s \in Complete(d)
      BY <1>2, <1>4, <2>2, <3>1, <3>2
    <3>3. CASE s \notin Complete(d)
      BY <1>3, <3>1, <3>3
    <3> QED
      BY <3>2, <3>3
  <2> QED
    BY <2>1, <2>2
<1>7. {x[1] : x \in {x \in Against(d) : x[2] = "absent"}} = absent
  <2> DEFINE A == {x \in Against(d) : x[2] = "absent"}
  <2>1. ASSUME NEW x \in A PROVE x[1] \in Contributors \ Complete(d)
    <3>1. \/ \E s \in Contributors \ Complete(d) : x = <<s, "absent">>
          \/ x = <<"prediction", "outcome">> \/ x = <<"similarity", "win rate">>
      BY Zenon DEF Against
    <3>2. x[2] = "absent"
      OBVIOUS
    <3> HIDE DEF A, missing, absent, Facet
    <3>3. x # <<"prediction", "outcome">> /\ x # <<"similarity", "win rate">>
      <4>1. <<"prediction", "outcome">>[2] # "absent" /\ <<"similarity", "win rate">>[2] # "absent"
        OBVIOUS
      <4> QED
        BY <3>2, <4>1, Zenon
    <3>4. PICK s \in Contributors \ Complete(d) : x = <<s, "absent">>
      BY <3>1, <3>3, Zenon
    <3> QED
      BY <3>4
  <2>2. ASSUME NEW s \in Contributors \ Complete(d)
        PROVE  <<s, "absent">> \in A /\ <<s, "absent">>[1] = s
    <3>1. <<s, "absent">> \in Against(d)
      BY DEF Against
    <3> QED
      BY <3>1
  <2> HIDE DEF A, absent
  <2>3. ASSUME NEW a \in absent PROVE \E x \in A : x[1] = a
    BY <1>6, <2>2, <2>3
  <2> QED
    BY <1>6, <2>1, <2>3 DEF A
<1>8. {node.path : node \in {n \in Graph(d) : n.status = "EMPTY"}}
        = {<<m[1], m[2]>> : m \in {m \in missing : m[2] # None}}
  <2> DEFINE E == {n \in Graph(d) : n.status = "EMPTY"}
             M == {m \in missing : m[2] # None}
             Node(s, facet) == [path |-> <<s, facet[1]>>,
                                status |-> IF d.sections[s].status # "COMPLETE"
                                           THEN d.sections[s].status
                                           ELSE IF facet[2] THEN "COMPLETE" ELSE "EMPTY"]
  <2>1. ASSUME NEW n \in E
        PROVE  \E s \in Complete(d) : \E facet \in Facet(s) : ~facet[2] /\ n.path = <<s, facet[1]>>
    <3>1. n.status = "EMPTY" /\ n \in Graph(d)
      OBVIOUS
    <3>2. n # [path |-> <<>>, status |-> d.status]
      BY <3>1 DEF Fits
    <3>3. PICK s \in Contributors :
            n \in {[path |-> <<s>>, status |-> d.sections[s].status]} \cup FacetNodes(d.sections[s], s)
      BY <3>1, <3>2 DEF Graph
    <3>4. n # [path |-> <<s>>, status |-> d.sections[s].status]
      BY <3>1 DEF Fits
    <3>5. PICK facet \in Facet(s) : n = Node(s, facet)
      BY <3>3, <3>4 DEF FacetNodes
    <3>6. d.sections[s].status = "COMPLETE" /\ ~facet[2]
      BY <3>1, <3>5 DEF Fits
    <3> QED
      BY <1>1, <3>5, <3>6
  <2>2. ASSUME NEW s \in Complete(d), NEW facet \in Facet(s), ~facet[2]
        PROVE  \E n \in E : n.path = <<s, facet[1]>>
    <3>1. s \in Contributors /\ d.sections[s].status = "COMPLETE"
      BY DEF Complete
    <3>2. Node(s, facet).status = "EMPTY" /\ Node(s, facet).path = <<s, facet[1]>>
      BY <2>2, <3>1
    <3>3. Node(s, facet) \in FacetNodes(d.sections[s], s)
      BY DEF FacetNodes
    <3> HIDE DEF Node
    <3>4. Node(s, facet) \in Graph(d)
      BY <3>1, <3>3 DEF Graph
    <3> QED
      BY <3>2, <3>4
  <2>3. ASSUME NEW m \in M
        PROVE  \E s \in Complete(d) : \E facet \in Facet(s) :
                 ~facet[2] /\ m = <<s, facet[1], "NOT_SUPPORTED">>
    <3>1. PICK s \in Contributors : m \in MissingOf(d.sections[s], s)
      BY <1>5
    <3>2. s \in Complete(d)
      BY <1>3, <3>1
    <3> QED
      BY <1>4, <3>1, <3>2
  <2>4. ASSUME NEW s \in Complete(d), NEW facet \in Facet(s), ~facet[2]
        PROVE  <<s, facet[1], "NOT_SUPPORTED">> \in M
    <3>1. s \in Contributors
      BY DEF Complete
    <3> QED
      BY <1>2, <1>4, <1>5, <2>4, <3>1
  <2> HIDE DEF E, M, missing, Facet, Node
  <2>5. ASSUME NEW n \in E PROVE n.path \in {<<m[1], m[2]>> : m \in M}
    <3>0. PICK s \in Complete(d) : \E facet \in Facet(s) : ~facet[2] /\ n.path = <<s, facet[1]>>
      BY <2>1
    <3>1. PICK facet \in Facet(s) : ~facet[2] /\ n.path = <<s, facet[1]>>
      BY <3>0
    <3>2. <<s, facet[1], "NOT_SUPPORTED">> \in M
      BY <2>4, <3>1
    <3> QED
      BY <3>1, <3>2
  <2>6. ASSUME NEW m \in M PROVE <<m[1], m[2]>> \in {n.path : n \in E}
    <3>0. PICK s \in Complete(d) : \E facet \in Facet(s) :
            ~facet[2] /\ m = <<s, facet[1], "NOT_SUPPORTED">>
      BY <2>3
    <3>1. PICK facet \in Facet(s) : ~facet[2] /\ m = <<s, facet[1], "NOT_SUPPORTED">>
      BY <3>0
    <3>2. PICK n \in E : n.path = <<s, facet[1]>>
      BY <2>2, <3>1
    <3> QED
      BY <3>1, <3>2
  <2>7. {n.path : n \in E} = {<<m[1], m[2]>> : m \in M}
    BY <2>5, <2>6
  <2> QED
    BY <2>7 DEF E, M
<1>9. Complete(d) \cap absent = {} /\ For(d) \cup absent = Contributors
  BY <1>6 DEF For, Complete
<1> QED
  BY <1>7, <1>8, <1>9 DEF ExplainedInFull

LEMMA GreatestOfTwo ==
    ASSUME NEW a \in Int, NEW b \in Int
    PROVE  Max({a, b}) = IF a >= b THEN a ELSE b
<1> DEFINE m == IF a >= b THEN a ELSE b
<1>1. {a, b} \in SUBSET Int /\ m \in {a, b} /\ \A y \in {a, b} : m >= y
  OBVIOUS
<1> HIDE DEF m
<1>2. Max({a, b}) = m
  BY <1>1, GreatestIs
<1> QED
  BY <1>2 DEF m

LEMMA FourSections == IsFiniteSet(Contributors) /\ Cardinality(Contributors) = 4
<1>1. IsFiniteSet({"prediction"}) /\ Cardinality({"prediction"}) = 1
  BY FS_Singleton
<1>2. /\ IsFiniteSet({"prediction"} \cup {"historical_memory"})
      /\ Cardinality({"prediction"} \cup {"historical_memory"}) = 2
  BY <1>1, FS_AddElement
<1>3. /\ IsFiniteSet({"prediction"} \cup {"historical_memory"} \cup {"similarity"})
      /\ Cardinality({"prediction"} \cup {"historical_memory"} \cup {"similarity"}) = 3
  BY <1>2, FS_AddElement
<1>4. LET four == {"prediction"} \cup {"historical_memory"} \cup {"similarity"} \cup {"learning"}
      IN  IsFiniteSet(four) /\ Cardinality(four) = 4
  BY <1>3, FS_AddElement
<1>5. Contributors = {"prediction"} \cup {"historical_memory"} \cup {"similarity"} \cup {"learning"}
  BY DEF Contributors
<1> QED
  BY <1>4, <1>5

\* The complete sections of a decision: the prediction is one of them.
LEMMA CompleteIs ==
    ASSUME NEW d, NEW record, Fits(d, record)
    PROVE  /\ "prediction" \in Complete(d) /\ Complete(d) \subseteq Contributors
           /\ IsFiniteSet(Complete(d)) /\ Cardinality(Complete(d)) \in 1..4
           /\ Cardinality(Complete(d)) = 4 => Complete(d) = Contributors
<1>1. "prediction" \in Complete(d) /\ Complete(d) \subseteq Contributors
  BY DEF Complete, Fits, Contributors
<1>2. /\ IsFiniteSet(Complete(d)) /\ Cardinality(Complete(d)) <= 4
      /\ Cardinality(Complete(d)) = 4 => Complete(d) = Contributors
  BY <1>1, FourSections, FS_Subset
<1>3. Cardinality(Complete(d)) \in Nat /\ Cardinality(Complete(d)) # 0
  BY <1>1, <1>2, FS_CardinalityType, FS_EmptySet
<1> QED
  BY <1>1, <1>2, <1>3

LEMMA ConflictsAre ==
    ASSUME NEW d, NEW record, Fits(d, record), record.id # None
    PROVE  IsFiniteSet(Conflicts(d)) /\ Cardinality(Conflicts(d)) \in Nat
<1> DEFINE one == <<"OUTCOME_DISAGREEMENT", "prediction">>
           two == <<"SIMILARITY_DISAGREEMENT", "similarity">>
<1>1. IsFiniteSet({one} \cup {two})
  BY FS_Singleton, FS_AddElement
<1>2. {c \in Complete(d) : d.sections[c].source = None} = {}
  BY DEF Complete, Fits
<1> HIDE DEF one, two
<1>3. Conflicts(d) \subseteq {one} \cup {two}
  BY <1>2, Zenon DEF Conflicts, one, two
<1> QED
  BY <1>1, <1>3, FS_Subset, FS_CardinalityType

\* The arithmetic of the gaps, in ten thousandths.
LEMMA GapIs ==
    ASSUME NEW v \in Nat, v <= 1000
    PROVE  /\ (1500 * (1000 - v)) \div 1000 \in Int /\ (v = 0 => (1500 * (1000 - v)) \div 1000 = 1500)
           /\ (2000 * (1000 - v)) \div 1000 = 2000 - 2 * v
           /\ v = 1000 => (1500 * (1000 - v)) \div 1000 = 0
OBVIOUS

LEMMA QualityGapIs ==
    ASSUME NEW k \in 1..4
    PROVE  (2500 * (1000 - 250 * k)) \div 1000 = 2500 - 625 * k
OBVIOUS

\* What the figures of a decision weigh.
LEMMA GapsAre ==
    ASSUME NEW d, NEW record, Fits(d, record)
    PROVE  /\ Gap(d, "prediction") = IF record.conf # None THEN 0 ELSE 800
           /\ Gap(d, "historical_memory") = IF "historical_memory" \in Complete(d) THEN 0 ELSE 1500
           /\ Gap(d, "learning") = IF "learning" \in Complete(d) THEN 0 ELSE 2000
           /\ Gap(d, "similarity")
                = IF "similarity" \notin Complete(d) THEN 2000
                  ELSE IF 125 * d.sections["similarity"].payload.count <= 300 THEN 1400
                  ELSE 2000 - 250 * d.sections["similarity"].payload.count
           /\ Gap(d, "evidence_quality") = 2500 - 625 * Cardinality(Complete(d))
<1> DEFINE count == d.sections["similarity"].payload.count
<1>1. count \in Nat /\ count <= 5
  BY DEF Fits, SimilarityK
<1>2. "prediction" \in Complete(d) /\ Cardinality(Complete(d)) \in 1..4
  BY CompleteIs
<1>3. Gap(d, "prediction") = IF record.conf # None THEN 0 ELSE 800
  <2>1. /\ Value(d, "prediction") = IF record.conf # None THEN 1000 ELSE 600
        /\ Weight("prediction") = 2000
    BY <1>2 DEF Value, Weight, Fits
  <2> QED
    BY <2>1, GapIs DEF Gap
<1>4. Gap(d, "historical_memory") = IF "historical_memory" \in Complete(d) THEN 0 ELSE 1500
  <2>1. /\ Value(d, "historical_memory") = IF "historical_memory" \in Complete(d) THEN 1000 ELSE 0
        /\ Weight("historical_memory") = 1500
    BY DEF Value, Weight
  <2> QED
    BY <2>1, GapIs DEF Gap
<1>5. Gap(d, "learning") = IF "learning" \in Complete(d) THEN 0 ELSE 2000
  <2>1. /\ Value(d, "learning") = IF "learning" \in Complete(d) THEN 1000 ELSE 0
        /\ Weight("learning") = 2000
    BY DEF Value, Weight
  <2> QED
    BY <2>1, GapIs DEF Gap
<1>6. Gap(d, "similarity") = IF "similarity" \notin Complete(d) THEN 2000
                             ELSE IF 125 * count <= 300 THEN 1400 ELSE 2000 - 250 * count
  <2>1. Min({1000, 125 * count}) = 125 * count
    BY <1>1, LeastOfTwo
  <2>2. Max({300, 125 * count}) = IF 125 * count <= 300 THEN 300 ELSE 125 * count
    BY <1>1, GreatestOfTwo
  <2>3. /\ Value(d, "similarity") = IF "similarity" \notin Complete(d) THEN 0
                                    ELSE Max({300, Min({1000, 125 * count})})
        /\ Weight("similarity") = 2000
    BY DEF Value, Weight
  <2> DEFINE v == Value(d, "similarity")
  <2> HIDE DEF count
  <2>4. v = IF "similarity" \notin Complete(d) THEN 0
            ELSE IF 125 * count <= 300 THEN 300 ELSE 125 * count
    BY <2>1, <2>2, <2>3
  <2>5. Gap(d, "similarity") = (2000 * (1000 - v)) \div 1000
    BY <2>3 DEF Gap
  <2> HIDE DEF v
  <2>6. v \in Nat /\ v <= 1000
    BY <1>1, <2>4
  <2>7. Gap(d, "similarity") = 2000 - 2 * v
    BY <2>5, <2>6, GapIs
  <2> QED
    BY <1>1, <2>4, <2>7
<1>7. Gap(d, "evidence_quality") = 2500 - 625 * Cardinality(Complete(d))
  <2>1. /\ Value(d, "evidence_quality") = 250 * Cardinality(Complete(d))
        /\ Weight("evidence_quality") = 2500
    BY DEF Value, Weight
  <2> QED
    BY <1>2, <2>1, QualityGapIs DEF Gap
<1> QED
  BY <1>3, <1>4, <1>5, <1>6, <1>7 DEF count

\* A confidence that is HIGH rests on the four sections: the five similar cases
\* that are asked for do not make up for one that is missing.
LEMMA HighIs ==
    ASSUME NEW d, NEW record, Fits(d, record), record.id # None, Assess(d).level = "HIGH"
    PROVE  Complete(d) = Contributors
<1> DEFINE count == d.sections["similarity"].payload.count
           k == Cardinality(Complete(d))
           penalty == Penalty(d)
<1>1. count \in Nat /\ count <= 5
  BY DEF Fits, SimilarityK
<1>2. k \in 1..4 /\ (k = 4 => Complete(d) = Contributors)
  BY CompleteIs
<1>3. "prediction" \in Complete(d) /\ Complete(d) \subseteq Contributors
  BY CompleteIs
<1>4. Cardinality(Conflicts(d)) \in Nat
  BY ConflictsAre
<1>5. Score(d) >= 7500
  BY DEF Assess, Level
<1>6. penalty = Gap(d, "prediction") + Gap(d, "historical_memory") + Gap(d, "similarity")
                + Gap(d, "learning") + Gap(d, "evidence_quality") + 1000 * Cardinality(Conflicts(d))
  BY DEF Penalty, ConflictPenalty
<1>7. Score(d) = IF penalty > 10000 THEN 0 ELSE 10000 - penalty
  BY DEF Score, Full
<1> HIDE DEF penalty, count, k
<1>8. SUFFICES ASSUME k # 4 PROVE FALSE
  BY <1>2
<1>9. \/ "historical_memory" \notin Complete(d) \/ "similarity" \notin Complete(d)
      \/ "learning" \notin Complete(d)
  <2>1. ASSUME "historical_memory" \in Complete(d), "similarity" \in Complete(d),
               "learning" \in Complete(d)
        PROVE  FALSE
    <3>1. Complete(d) = Contributors
      BY <1>3, <2>1 DEF Contributors
    <3> QED
      BY <1>8, <3>1, FourSections DEF k
  <2> QED
    BY <2>1
<1>10. /\ Gap(d, "prediction") \in {0, 800} /\ Gap(d, "historical_memory") \in {0, 1500}
       /\ Gap(d, "learning") \in {0, 2000}
       /\ Gap(d, "similarity") \in Int /\ Gap(d, "similarity") >= 750
       /\ Gap(d, "evidence_quality") = 2500 - 625 * k
       /\ "historical_memory" \notin Complete(d) => Gap(d, "historical_memory") = 1500
       /\ "similarity" \notin Complete(d) => Gap(d, "similarity") = 2000
       /\ "learning" \notin Complete(d) => Gap(d, "learning") = 2000
  BY <1>1, GapsAre DEF count, k
<1> QED
  BY <1>2, <1>4, <1>5, <1>6, <1>7, <1>8, <1>9, <1>10

\* More evidence about the same prediction costs no confidence and no priority.
LEMMA MoreIsNoWorse ==
    ASSUME NEW d, NEW e, NEW record, NEW other, Fits(d, record), Fits(e, other),
           other.id # None, record.id = other.id, record.conf = other.conf, NoLess(d, e)
    PROVE  Assess(e).score >= Assess(d).score /\ Assess(e).priority >= Assess(d).priority
<1> DEFINE count(x) == x.sections["similarity"].payload.count
           patterns(x) == x.sections["learning"].payload.patterns
           sections(x) == Cardinality(Complete(x))
           conflicts(x) == Cardinality(Conflicts(x))
           sample(x) == count(x) + patterns(x)
           Least(x) == Min({10, sample(x)})
           Few(x) == Min({4, conflicts(x)})
<1>1. /\ count(d) \in Nat /\ count(d) <= 5 /\ count(e) \in Nat /\ count(e) <= 5
      /\ count(d) <= count(e)
      /\ patterns(d) \in Nat /\ patterns(e) \in Nat /\ patterns(d) <= patterns(e)
  BY DEF Fits, NoLess, SimilarityK
<1>2. sections(d) \in 1..4 /\ sections(e) \in 1..4 /\ sections(d) <= sections(e)
  BY CompleteIs, FS_Subset DEF NoLess
<1>3. conflicts(d) \in Nat /\ conflicts(e) \in Nat /\ conflicts(e) <= conflicts(d)
  BY ConflictsAre, FS_Subset DEF NoLess
<1>4. Complete(d) \subseteq Complete(e)
  BY DEF NoLess
<1>5. Assess(e).score >= Assess(d).score
  <2> DEFINE P(x) == Penalty(x)
  <2>1. /\ P(d) = Gap(d, "prediction") + Gap(d, "historical_memory") + Gap(d, "similarity")
                  + Gap(d, "learning") + Gap(d, "evidence_quality") + 1000 * conflicts(d)
        /\ P(e) = Gap(e, "prediction") + Gap(e, "historical_memory") + Gap(e, "similarity")
                  + Gap(e, "learning") + Gap(e, "evidence_quality") + 1000 * conflicts(e)
    BY DEF Penalty, ConflictPenalty
  <2>2. /\ Assess(d).score = IF P(d) > 10000 THEN 0 ELSE 10000 - P(d)
        /\ Assess(e).score = IF P(e) > 10000 THEN 0 ELSE 10000 - P(e)
    BY DEF Assess, Score, Full
  <2> HIDE DEF P, conflicts, count, sections
  <2>3. /\ Gap(d, "prediction") \in Int /\ Gap(e, "prediction") = Gap(d, "prediction")
        /\ Gap(d, "historical_memory") \in Int /\ Gap(e, "historical_memory") \in Int
        /\ Gap(e, "historical_memory") <= Gap(d, "historical_memory")
        /\ Gap(d, "learning") \in Int /\ Gap(e, "learning") \in Int
        /\ Gap(e, "learning") <= Gap(d, "learning")
    BY <1>4, GapsAre
  <2>4. /\ Gap(d, "similarity") \in Int /\ Gap(e, "similarity") \in Int
        /\ Gap(e, "similarity") <= Gap(d, "similarity")
    BY <1>1, <1>4, GapsAre DEF count
  <2>5. /\ Gap(d, "evidence_quality") = 2500 - 625 * sections(d)
        /\ Gap(e, "evidence_quality") = 2500 - 625 * sections(e)
    BY GapsAre DEF sections
  <2>6. P(d) \in Int /\ P(e) \in Int /\ P(e) <= P(d)
    BY <1>2, <1>3, <2>1, <2>3, <2>4, <2>5
  <2> QED
    BY <2>2, <2>6
<1>6. Assess(e).priority >= Assess(d).priority
  <2> DEFINE Attributed(x) == {s \in Contributors : x.sections[s].source # None}
             attributed(x) == Cardinality(Attributed(x))
  <2>1. attributed(d) = 4 /\ attributed(e) = 4
    <3>1. Attributed(d) = Contributors /\ Attributed(e) = Contributors
      BY DEF Fits
    <3> HIDE DEF Attributed
    <3> QED
      BY <3>1, FourSections
  <2>2. ASSUME NEW x
        PROVE  Assess(x).priority = 1250 * sections(x) + 500 * attributed(x)
                                    + 200 * Least(x) + 250 * (4 - Few(x))
    BY DEF Assess, Prioritisation
  <2> HIDE DEF attributed
  <2> HIDE DEF sections, conflicts, count, patterns
  <2>3. Least(d) \in Int /\ Least(e) \in Int /\ Least(d) <= Least(e)
    BY <1>1, LeastOfTwo
  <2>4. Few(d) \in Int /\ Few(e) \in Int /\ Few(e) <= Few(d)
    BY <1>3, LeastOfTwo
  <2> HIDE DEF Least, Few
  <2> QED
    BY <1>2, <2>1, <2>2, <2>3, <2>4
<1> QED
  BY <1>5, <1>6

-----------------------------------------------------------------------------
(* A session *)

Named == {m.prediction : m \in Messages} \cup {m.symbol : m \in Messages} \cup {None}

Session == [state : {"CREATED", "ACTIVE", "WAITING_FOR_INPUT"} \cup Terminal,
            entities : [prediction : Named, symbol : Named],
            pending : Intents \cup {None},
            turns : Seq(Turns)]

Explained(session) ==
    /\ Remembers(session)
    /\ \A n \in 1..Len(session.turns) : AnswersWhatWasAsked(session.turns, n)
    /\ \A n \in 1..Len(session.turns) : n # 1 => FollowsUp(session.turns, n)

Unanswered(turns) == turns # <<>> /\ turns[Len(turns)].followUp = "MISSING_ENTITY"

\* What a session waits for is what its last turn asked without a subject, and
\* a session that is not over waits for that.
Waiting(session) ==
    /\ session.pending # None =>
         Unanswered(session.turns) /\ session.pending = session.turns[Len(session.turns)].intent
    /\ (session.state \notin Terminal /\ Unanswered(session.turns)) =>
         /\ session.state = "WAITING_FOR_INPUT"
         /\ session.pending = session.turns[Len(session.turns)].intent
    /\ \A n \in 1..Len(session.turns) : session.turns[n].followUp = "MISSING_ENTITY" =>
         /\ session.turns[n].intent = Winner(session.turns[n].message)
         /\ session.turns[n].intent \in Known

Good(session) == session \in Session /\ Explained(session) /\ Waiting(session)

\* The turn that an accepted message takes.
TurnOf(session, message) ==
    LET classified == Classify(message, session.entities)
    IN  IF Resumes(session, classified)
        THEN Turn(message, session.pending, FollowUp(session.pending, TRUE))
        ELSE Turn(message, classified.intent, FollowUp(classified.intent, classified.valid))

LEMMA HandledIs ==
    ASSUME NEW session, NEW message
    PROVE  Handled(session, message)
             = [state |-> IF TurnOf(session, message).followUp = "CONTINUATION"
                          THEN "ACTIVE" ELSE "WAITING_FOR_INPUT",
                entities |-> Entities(message, session.entities),
                pending |-> IF TurnOf(session, message).followUp = "MISSING_ENTITY"
                            THEN TurnOf(session, message).intent ELSE None,
                turns |-> Append(session.turns, TurnOf(session, message))]
<1>1. Classify(message, session.entities).entities = Entities(message, session.entities)
  BY DEF Classify
<1> QED
  BY <1>1 DEF Handled, TurnOf

\* The message supplies what the session waits for.
Supplies(session, message) ==
    /\ session.state = "WAITING_FOR_INPUT"
    /\ session.pending # None
    /\ Winner(message) \in {"UNKNOWN", session.pending}
    /\ SubjectOk(session.pending, Entities(message, session.entities))

TurnFits(session, message, t) ==
    /\ t \in Turns /\ t.message = message
    /\ Supplies(session, message) => t.intent = session.pending /\ t.followUp = "CONTINUATION"
    /\ ~Supplies(session, message) => t.intent = Winner(message)
    /\ t.followUp = "CONTINUATION" => SubjectOk(t.intent, Entities(message, session.entities))
    /\ t.followUp = "MISSING_ENTITY" => t.intent \in Known

LEMMA TurnIs ==
    ASSUME NEW session, Good(session), NEW message \in Messages
    PROVE  TurnFits(session, message, TurnOf(session, message))
<1> DEFINE c == Classify(message, session.entities)
           t == TurnOf(session, message)
           entities == Entities(message, session.entities)
<1>1. /\ c = [intent |-> Winner(message), entities |-> entities,
              valid |-> SubjectOk(Winner(message), entities)]
      /\ Resumes(session, c) <=> Supplies(session, message)
  BY DEF Classify, Resumes, Supplies
<1>2. session.pending \in Intents \cup {None} /\ Winner(message) \in Intents
  BY DEF Good, Session, Intents
<1>3. session.pending # None => session.pending \in Known
  <2>1. session.turns \in Seq(Turns)
    BY DEF Good, Session
  <2>2. session.turns # <<>> => Len(session.turns) \in 1..Len(session.turns)
    BY <2>1
  <2> QED
    BY <2>2 DEF Good, Waiting, Unanswered
<1>4. CASE Supplies(session, message)
  <2>1. t = [message |-> message, intent |-> session.pending, followUp |-> "CONTINUATION"]
    BY <1>1, <1>3, <1>4, KnownIs DEF TurnOf, Turn, FollowUp, Supplies
  <2> HIDE DEF t, c
  <2>2. t \in Turns
    BY <1>2, <1>4, <2>1 DEF Supplies, Turns
  <2> QED
    BY <1>4, <2>1, <2>2 DEF Supplies, TurnFits, t
<1>5. CASE ~Supplies(session, message)
  <2>1. t = [message |-> message, intent |-> Winner(message),
             followUp |-> FollowUp(Winner(message), SubjectOk(Winner(message), entities))]
    BY <1>1, <1>5 DEF TurnOf, Turn
  <2> HIDE DEF t, c
  <2>2. SubjectOk(Winner(message), entities) \in BOOLEAN
    BY DEF SubjectOk, HasSubject
  <2>3. t \in Turns
    BY <1>2, <2>1 DEF Turns, FollowUp
  <2>4. t.followUp = "CONTINUATION" => SubjectOk(t.intent, entities)
    BY <2>1, <2>2 DEF FollowUp
  <2>5. t.followUp = "MISSING_ENTITY" => t.intent \in Known
    BY <2>1, <2>2, KnownIs DEF FollowUp
  <2> QED
    BY <1>5, <2>1, <2>3, <2>4, <2>5 DEF TurnFits, t
<1> QED
  BY <1>4, <1>5

\* Whatever its turns were, an accepted message leaves a good session good.
LEMMA HandledGood ==
    ASSUME NEW session, Good(session), session.state \notin Terminal,
           NEW message \in Messages, ~Duplicate(session, message)
    PROVE  /\ Good(Handled(session, message))
           /\ Handled(session, message).turns = Append(session.turns, TurnOf(session, message))
           /\ TurnOf(session, message) \in Turns
<1> DEFINE t == TurnOf(session, message)
           after == Handled(session, message)
           turns == session.turns
           L == Len(session.turns)
           entities == Entities(message, session.entities)
<1>1. TurnFits(session, message, t)
  BY TurnIs
<1>2. after = [state |-> IF t.followUp = "CONTINUATION" THEN "ACTIVE" ELSE "WAITING_FOR_INPUT",
               entities |-> entities,
               pending |-> IF t.followUp = "MISSING_ENTITY" THEN t.intent ELSE None,
               turns |-> Append(turns, t)]
  BY HandledIs
<1> HIDE DEF t, after
<1>3. /\ turns \in Seq(Turns) /\ t \in Turns /\ t.message = message
      /\ session.entities \in [prediction : Named, symbol : Named]
      /\ session.pending \in Intents \cup {None}
  BY <1>1 DEF Good, Session, TurnFits
<1>4. /\ after.turns = Append(turns, t) /\ after.turns \in Seq(Turns)
      /\ Len(after.turns) = L + 1 /\ L \in Nat
      /\ \A k \in 1..L : after.turns[k] = turns[k]
      /\ after.turns[L + 1] = t
      /\ \A k \in 1..(L + 1) : k \in 1..L \/ k = L + 1
  BY <1>2, <1>3, Appended
<1>5. /\ \A n \in 0..L : NamedBy(after.turns, n) = NamedBy(turns, n)
      /\ NamedBy(after.turns, L + 1) = Entities(message, NamedBy(turns, L))
  BY <1>3, <1>4, NamedByAppended
<1>6. NamedBy(after.turns, L + 1) = entities
  BY <1>5 DEF Good, Explained, Remembers
<1>7. entities \in [prediction : Named, symbol : Named]
  <2>1. message.prediction \in Named /\ message.symbol \in Named
    BY DEF Named
  <2> QED
    BY <1>3, <2>1 DEF Entities, Remembered
<1>8. after \in Session
  BY <1>2, <1>3, <1>4, <1>7 DEF Session, Turns
<1>9. L # 0 => L \in 1..L /\ turns # <<>>
  BY <1>3, <1>4
<1>10. Remembers(after)
  BY <1>2, <1>4, <1>6 DEF Remembers
<1>11. ASSUME NEW n \in 1..(L + 1) PROVE AnswersWhatWasAsked(after.turns, n)
  <2>1. CASE n \in 1..L
    <3>1. AnswersWhatWasAsked(turns, n)
      BY <2>1 DEF Good, Explained
    <3>2. n \in 0..L /\ \A m \in 1..n : after.turns[m] = turns[m]
      BY <1>4, <2>1
    <3>3. NamedBy(after.turns, n) = NamedBy(turns, n) /\ after.turns[n] = turns[n]
      BY <1>4, <1>5, <2>1, <3>2
    <3> QED
      BY <3>1, <3>2, <3>3 DEF AnswersWhatWasAsked
  <2>2. CASE n = L + 1
    <3>1. SUFFICES ASSUME t.followUp = "CONTINUATION"
                   PROVE  /\ \E m \in 1..(L + 1) : Winner(after.turns[m].message) = t.intent
                          /\ SubjectOk(t.intent, entities)
      BY <1>4, <1>6, <2>2 DEF AnswersWhatWasAsked
    <3>2. SubjectOk(t.intent, entities)
      BY <1>1, <3>1 DEF TurnFits
    <3>3. CASE ~Supplies(session, message)
      <4>1. Winner(after.turns[L + 1].message) = t.intent /\ L + 1 \in 1..(L + 1)
        BY <1>1, <1>4, <3>3 DEF TurnFits
      <4> QED
        BY <3>2, <4>1
    <3>4. CASE Supplies(session, message)
      <4>1. t.intent = session.pending /\ session.pending # None
        BY <1>1, <3>4 DEF TurnFits, Supplies
      <4>2. L # 0 /\ turns[L].followUp = "MISSING_ENTITY" /\ turns[L].intent = session.pending
        BY <1>3, <1>4, <4>1 DEF Good, Waiting, Unanswered
      <4>3. Winner(turns[L].message) = turns[L].intent
        BY <1>9, <4>2 DEF Good, Waiting
      <4>4. L \in 1..(L + 1) /\ after.turns[L] = turns[L]
        BY <1>4, <1>9, <4>2
      <4> QED
        BY <3>2, <4>1, <4>2, <4>3, <4>4
    <3> QED
      BY <3>3, <3>4
  <2> QED
    BY <1>4, <2>1, <2>2
<1>12. ASSUME NEW n \in 1..(L + 1), n # 1 PROVE FollowsUp(after.turns, n)
  <2>1. n - 1 \in 1..L /\ after.turns[n - 1] = turns[n - 1]
    BY <1>4, <1>12
  <2>2. CASE n \in 1..L
    <3>1. FollowsUp(turns, n) /\ after.turns[n] = turns[n]
      BY <1>4, <1>12, <2>2 DEF Good, Explained
    <3> QED
      BY <2>1, <3>1 DEF FollowsUp
  <2>3. CASE n = L + 1
    <3>1. /\ n - 1 = L /\ L \in 1..L /\ turns # <<>> /\ after.turns[L] = turns[L]
          /\ after.turns[n] = t
      BY <1>4, <1>9, <2>1, <2>3
    <3>2. turns[L].message # message
      BY <3>1 DEF Duplicate, NoTurns
    <3>3. turns[L].followUp = "MISSING_ENTITY" =>
            /\ session.state = "WAITING_FOR_INPUT" /\ session.pending = turns[L].intent
            /\ turns[L].intent \in Known
      BY <3>1 DEF Good, Waiting, Unanswered
    <3>4. t.intent # Winner(message) => turns[L].followUp = "MISSING_ENTITY"
      <4>1. t.intent # Winner(message) => session.pending # None
        BY <1>1 DEF TurnFits, Supplies
      <4> QED
        BY <4>1 DEF Good, Waiting, Unanswered
    <3>5. ASSUME turns[L].followUp = "MISSING_ENTITY", NamesASubject(message),
                 Winner(message) \in {"UNKNOWN", turns[L].intent}
          PROVE  t.intent = turns[L].intent /\ t.followUp = "CONTINUATION"
      <4>1. HasSubject(entities)
        BY <3>5 DEF NamesASubject, HasSubject, Entities, Remembered, NoEntities
      <4>2. SubjectOk(turns[L].intent, entities)
        BY <4>1 DEF SubjectOk
      <4>3. Supplies(session, message)
        BY <3>3, <3>5, <4>2, KnownIs DEF Supplies
      <4> QED
        BY <1>1, <3>3, <3>5, <4>3 DEF TurnFits
    <3> QED
      BY <1>3, <3>1, <3>2, <3>4, <3>5 DEF FollowsUp
  <2> QED
    BY <1>4, <2>2, <2>3
<1>13. Waiting(after)
  <2>1. after.turns # <<>> /\ after.turns[Len(after.turns)] = t
    BY <1>4
  <2>2. t.intent \in Intents /\ t.followUp = "MISSING_ENTITY" => t.followUp # "CONTINUATION"
    BY <1>3 DEF Turns
  <2>3. t.followUp = "MISSING_ENTITY" => t.intent = Winner(message) /\ t.intent \in Known
    BY <1>1 DEF TurnFits
  <2>4. \A n \in 1..(L + 1) : after.turns[n].followUp = "MISSING_ENTITY" =>
          /\ after.turns[n].intent = Winner(after.turns[n].message)
          /\ after.turns[n].intent \in Known
    BY <1>3, <1>4, <2>3 DEF Good, Waiting
  <2> QED
    BY <1>2, <1>4, <2>1, <2>2, <2>4 DEF Waiting, Unanswered
<1> QED
  BY <1>3, <1>4, <1>8, <1>10, <1>11, <1>12, <1>13 DEF Good, Explained, t, after

LEMMA NewIsGood == Good(NewSession)
<1>1. /\ NewSession.turns = <<>> /\ NewSession.turns \in Seq(Turns) /\ Len(NewSession.turns) = 0
      /\ NewSession.pending = None /\ NewSession.entities = NoEntities
      /\ NewSession.state = "CREATED"
  BY DEF NewSession, NoTurns
<1>2. NewSession \in Session
  BY <1>1 DEF NewSession, NoTurns, Session, NoEntities, Named
<1>3. Remembers(NewSession)
  <2>1. ASSUME NEW field PROVE LastNaming(NewSession.turns, 0, field) \in 0..0
    <3>1. 0 \in 0..Len(NewSession.turns)
      BY <1>1
    <3> HIDE DEF NewSession
    <3> QED
      BY <1>1, <3>1, LastNamingIs
  <2>2. \A field : LastNaming(NewSession.turns, 0, field) = 0
    BY <2>1
  <2>3. NamedBy(NewSession.turns, 0) = [field \in {"prediction", "symbol"} |-> None]
    BY <2>2, Zenon DEF NamedBy
  <2> QED
    BY <1>1, <2>3 DEF Remembers, NoEntities
<1> QED
  BY <1>1, <1>2, <1>3 DEF Good, Explained, Waiting, Unanswered

\* A session that is closed or expires keeps its transcript.
LEMMA EndedIsGood ==
    ASSUME NEW session, Good(session), NEW state \in Terminal
    PROVE  Good([session EXCEPT !.state = state])
<1> DEFINE after == [session EXCEPT !.state = state]
<1>1. /\ after.turns = session.turns /\ after.pending = session.pending
      /\ after.entities = session.entities /\ after.state \in Terminal /\ after \in Session
  BY DEF Good, Session
<1> HIDE DEF after
<1>2. Explained(after)
  BY <1>1 DEF Good, Explained, Remembers
<1>3. Waiting(after)
  BY <1>1 DEF Good, Waiting
<1> QED
  BY <1>1, <1>2, <1>3 DEF Good, after

-----------------------------------------------------------------------------
(* The transcripts *)

TInv == /\ sessions \in Seq(Session)
        /\ \A k \in 1..Len(sessions) : Good(sessions[k])

LEMMA TakeGood ==
    ASSUME TInv, NEW k \in 1..(Len(sessions) + 1), NEW session, Good(session),
           session.state \notin Terminal, NEW message \in Messages, ~Duplicate(session, message),
           Take(k, session, message)
    PROVE  TInv'
<1> DEFINE n == Len(sessions)
           after == Handled(session, message)
           m == IF k = n + 1 THEN n + 1 ELSE n
<1>1. Good(after) /\ after \in Session
  BY HandledGood DEF Good
<1>2. sessions' = [j \in DOMAIN sessions \cup {k} |-> IF j = k THEN after ELSE sessions[j]]
  BY DEF Take
<1> HIDE DEF after
<1>3. /\ n \in Nat /\ m \in Nat /\ DOMAIN sessions \cup {k} = 1..m
      /\ \A j \in 1..m : j = k \/ j \in 1..n
  BY DEF TInv
<1>4. \A j \in 1..n : sessions[j] \in Session /\ Good(sessions[j])
  BY DEF TInv
<1>5. /\ sessions' = [j \in 1..m |-> IF j = k THEN after ELSE sessions[j]]
      /\ \A j \in 1..m : (IF j = k THEN after ELSE sessions[j]) \in Session
  BY <1>1, <1>2, <1>3, <1>4
<1> HIDE DEF m, n
<1>6. sessions' \in Seq(Session) /\ Len(sessions') = m
  BY <1>3, <1>5
<1>7. \A j \in 1..m : Good(sessions'[j])
  BY <1>1, <1>3, <1>4, <1>5
<1> QED
  BY <1>6, <1>7 DEF TInv

LEMMA TranscriptInit == Init => TInv
  BY DEF Init, TInv

LEMMA TranscriptStep == TInv /\ [Next]_vars => TInv'
<1> SUFFICES ASSUME TInv, [Next]_vars PROVE TInv'
  OBVIOUS
<1>0. Len(sessions) \in Nat /\ DOMAIN sessions = 1..Len(sessions)
  BY DEF TInv
<1>1. ASSUME UNCHANGED sessions PROVE TInv'
  BY <1>1 DEF TInv
<1>2. ASSUME NEW k \in 1..MaxSessions, NEW message \in Messages, Post(k, message) PROVE TInv'
  <2>1. CASE sessions' = sessions
    BY <1>1, <2>1
  <2>2. CASE sessions' # sessions
    <3>1. /\ k \in 1..Len(sessions) /\ Take(k, sessions[k], message)
          /\ sessions[k].state \notin Terminal /\ ~Duplicate(sessions[k], message)
      BY <1>0, <1>2, <2>2 DEF Post
    <3>2. Good(sessions[k]) /\ k \in 1..(Len(sessions) + 1)
      BY <1>0, <3>1 DEF TInv
    <3> QED
      BY <3>1, <3>2, TakeGood
  <2> QED
    BY <2>1, <2>2
<1>3. ASSUME NEW message \in Messages, PostNew(message) PROVE TInv'
  <2>1. Take(Len(sessions) + 1, NewSession, message)
    BY <1>3 DEF PostNew
  <2>2. NewSession.state \notin Terminal /\ ~Duplicate(NewSession, message)
    BY DEF NewSession, Terminal, Duplicate
  <2>3. Len(sessions) + 1 \in 1..(Len(sessions) + 1)
    BY <1>0
  <2> QED
    BY <2>1, <2>2, <2>3, NewIsGood, TakeGood
<1>4. ASSUME Create PROVE TInv'
  <2>1. sessions' = Append(sessions, NewSession) /\ NewSession \in Session
    BY <1>4, NewIsGood DEF Create, Good
  <2>2. /\ sessions' \in Seq(Session) /\ Len(sessions') = Len(sessions) + 1
        /\ sessions'[Len(sessions) + 1] = NewSession
        /\ \A k \in 1..Len(sessions) : sessions'[k] = sessions[k]
        /\ \A k \in 1..(Len(sessions) + 1) : k \in 1..Len(sessions) \/ k = Len(sessions) + 1
    BY <2>1 DEF TInv
  <2> QED
    BY <2>2, NewIsGood DEF TInv
<1>5. ASSUME NEW k \in 1..Len(sessions), NEW state \in Terminal,
             sessions' = [sessions EXCEPT ![k].state = state]
      PROVE  TInv'
  <2> DEFINE after == [sessions[k] EXCEPT !.state = state]
  <2>1. Good(after) /\ after \in Session
    BY EndedIsGood DEF TInv, Good
  <2>2. sessions' = [sessions EXCEPT ![k] = after]
    BY <1>5
  <2> HIDE DEF after
  <2>3. /\ sessions' \in Seq(Session) /\ Len(sessions') = Len(sessions)
        /\ \A j \in 1..Len(sessions) : sessions'[j] = IF j = k THEN after ELSE sessions[j]
    BY <2>1, <2>2 DEF TInv
  <2> QED
    BY <2>1, <2>3 DEF TInv
<1>6. ASSUME NEW k \in 1..MaxSessions, Close(k) PROVE TInv'
  BY <1>0, <1>1, <1>5, <1>6 DEF Close, Terminal
<1>7. ASSUME NEW k \in 1..MaxSessions, Expire(k) PROVE TInv'
  BY <1>0, <1>5, <1>7 DEF Expire, Terminal
<1> QED
  BY <1>1, <1>2, <1>3, <1>4, <1>6, <1>7 DEF Next, PostBlank, Arrive, Settle, vars

\* For any messages, sessions and turns the transcript explains its session: it
\* remembers what was named last, answers what was asked and named, resumes a
\* question that lacked its subject, and takes no message twice in a row.
\* (app/conversation/engine.handle_message)
THEOREM TranscriptHolds == Spec => []TranscriptIsSound
<1>1. TInv => TranscriptIsSound
  <2> SUFFICES ASSUME TInv, NEW k \in DOMAIN sessions
               PROVE  /\ Remembers(sessions[k])
                      /\ \A n \in DOMAIN sessions[k].turns :
                           AnswersWhatWasAsked(sessions[k].turns, n)
                      /\ \A n \in DOMAIN sessions[k].turns \ {1} : FollowsUp(sessions[k].turns, n)
    BY DEF TranscriptIsSound
  <2>1. Good(sessions[k])
    BY DEF TInv
  <2>2. DOMAIN sessions[k].turns = 1..Len(sessions[k].turns)
    BY <2>1 DEF Good, Session
  <2> QED
    BY <2>1, <2>2 DEF Good, Explained
<1> QED
  BY <1>1, TranscriptInit, TranscriptStep, PTL DEF Spec

-----------------------------------------------------------------------------
(* The replies *)

\* A record but for its result.
SameButR(a, b) == \A field \in PredictionFields \ {"r"} : a[field] = b[field]

\* A decision that is composed of a prediction in the store, as it was before or
\* after it was settled.
Composed(d, st) ==
    /\ d.id \in DOMAIN st
    /\ \E record : /\ SameButR(record, st[d.id]) /\ DOMAIN record = PredictionFields
                   /\ \E reads \in Reads : d = Compose(record, reads)

Cited(r, named, st) ==
    /\ <<"decision", r.decision.id>> \in r.citations
    /\ CitedOf(r.decision, r.citations)
    /\ IsNamed(r.decision.id, named, st)
    /\ "CITATIONS" \in r.prompt.present \ r.prompt.omitted

ReplyIsSound(r, sess, st) ==
    /\ r.detail # "MissingCitation"
    /\ r.prompt # NoPrompt => TrimmedAsItMust(r.prompt)
    /\ r.citations # {} => Cited(r, sess[r.session].entities, st)
    /\ r.decision # None => r.citations # {} /\ Composed(r.decision, st)

LEMMA RefusalIsSound ==
    ASSUME NEW code, NEW sess, NEW st
    PROVE  ReplyIsSound(Refusal(code), sess, st)
<1> DEFINE r == Refusal(code)
<1>1. /\ r.detail = None /\ r.prompt = NoPrompt /\ r.citations = {} /\ r.decision = None
  BY DEF Refusal
<1>2. None # "MissingCitation"
  BY ConversationAssumption DEF ConversationAssumption
<1> HIDE DEF r
<1>3. ReplyIsSound(r, sess, st)
  BY <1>1, <1>2 DEF ReplyIsSound
<1> QED
  BY <1>3 DEF r

LEMMA FailedIsSound ==
    ASSUME NEW failure, NEW sess, NEW st
    PROVE  ReplyIsSound(Failed(failure), sess, st)
<1> DEFINE r == Failed(failure)
<1>1. /\ r.detail = NormaliseError(failure) /\ r.prompt = NoPrompt /\ r.citations = {}
      /\ r.decision = None
  BY DEF Failed, Refusal
<1> HIDE DEF r
<1>2. ReplyIsSound(r, sess, st)
  BY <1>1, ErrorsAre DEF ReplyIsSound
<1> QED
  BY <1>2 DEF r

LEMMA ClarificationIsSound ==
    ASSUME NEW k, NEW turn, NEW sess, NEW st
    PROVE  ReplyIsSound(Clarification(k, turn), sess, st)
<1> DEFINE r == Clarification(k, turn)
<1>1. /\ r.detail = None /\ r.prompt = NoPrompt /\ r.citations = {} /\ r.decision = None
  BY DEF Clarification, Refusal
<1>2. None # "MissingCitation"
  BY ConversationAssumption DEF ConversationAssumption
<1> HIDE DEF r
<1>3. ReplyIsSound(r, sess, st)
  BY <1>1, <1>2 DEF ReplyIsSound
<1> QED
  BY <1>3 DEF r

\* An answer is sound for the entities of the session that it was asked in.
LEMMA AnswerIsSound ==
    ASSUME Stored(store), NEW k, NEW turn, turn.intent \in Known \cup {"UNKNOWN"}, NEW entities,
           turn.followUp = "CONTINUATION",
           NEW reads, Asked(turn, entities) => reads \in Reads,
           NEW sizes \in Sizes, NEW sess, sess[k].entities = entities
    PROVE  ReplyIsSound(Answer(k, turn, entities, reads, sizes), sess, store)
<1> DEFINE R == Retrieve(turn.intent, entities, store, reads)
           d == R.decision
           r == Answer(k, turn, entities, reads, sizes)
           prompt == BuildPrompt(R, sizes)
<1>1. WellRetrieved(R, turn.intent, entities, store, reads)
  BY RetrieveIs
<1>2. r = [code |-> 200, detail |-> None, session |-> k, intent |-> turn.intent,
           availability |-> R.availability, citations |-> R.citations, decision |-> d,
           prompt |-> prompt]
  BY <1>1 DEF Answer, WellRetrieved
<1>3. /\ TrimmedAsItMust(prompt) /\ "CITATIONS" \in prompt.present \ prompt.omitted
  <2> DEFINE present == SectionsOf(R.components)
  <2>1. present \in SUBSET Sections /\ NeverTrimmed \subseteq present
    BY <1>1, SectionsAre DEF WellRetrieved
  <2>2. sizes \in [Sections -> Nat]
    BY ConversationAssumption DEF ConversationAssumption
  <2>3. prompt = [present |-> present, omitted |-> Trim(present, sizes).omitted,
                  total |-> Trim(present, sizes).total, sizes |-> [s \in present |-> sizes[s]]]
    BY DEF BuildPrompt
  <2> HIDE DEF present, prompt
  <2>4. TrimmedAsItMust(prompt) /\ prompt.omitted \cap NeverTrimmed = {} /\ prompt.present = present
    BY <2>1, <2>2, <2>3, BuiltIs
  <2>5. "CITATIONS" \in NeverTrimmed
    BY DEF NeverTrimmed
  <2> QED
    BY <2>1, <2>4, <2>5
<1> HIDE DEF R, prompt
<1>4. (d # None \/ R.citations # {}) => IsNamed(d.id, entities, store) /\ Composed(d, store)
  <2> SUFFICES ASSUME d # None \/ R.citations # {}
               PROVE  IsNamed(d.id, entities, store) /\ Composed(d, store)
    OBVIOUS
  <2>1. PICK id \in DOMAIN store : IsNamed(id, entities, store) /\ d = Compose(store[id], reads)
    BY <1>1 DEF WellRetrieved
  <2>2. reads \in Reads
    BY <1>1 DEF Asked, WellRetrieved
  <2>3. d.id = store[id].id
    BY <2>1 DEF Compose
  <2>4. d.id = id
    BY <2>3 DEF Stored
  <2>5. SameButR(store[id], store[id]) /\ DOMAIN store[id] = PredictionFields
    BY DEF Stored, SameButR
  <2> QED
    BY <2>1, <2>2, <2>4, <2>5 DEF Composed
<1>5. /\ r.detail = None /\ r.prompt = prompt /\ r.citations = R.citations /\ r.decision = d
      /\ r.session = k
  BY <1>2
<1>6. None # "MissingCitation"
  BY ConversationAssumption DEF ConversationAssumption
<1> HIDE DEF r
<1>7. ReplyIsSound(r, sess, store)
  BY <1>1, <1>3, <1>4, <1>5, <1>6 DEF ReplyIsSound, Cited, WellRetrieved
<1> QED
  BY <1>7 DEF r

\* A reply stays sound when a prediction is stored or settled.
LEMMA ReplyStaysSound ==
    ASSUME NEW r, NEW sess, NEW st, NEW after, ReplyIsSound(r, sess, st),
           DOMAIN st \subseteq DOMAIN after,
           \A id \in DOMAIN st : SameButR(st[id], after[id])
    PROVE  ReplyIsSound(r, sess, after)
<1>1. \A id \in DOMAIN st : st[id].symbol = after[id].symbol
  BY DEF SameButR, PredictionFields
<1>2. \A id, named : IsNamed(id, named, st) => IsNamed(id, named, after)
  BY <1>1 DEF IsNamed
<1>3. \A d : Composed(d, st) => Composed(d, after)
  BY DEF Composed, SameButR
<1> QED
  BY <1>2, <1>3 DEF ReplyIsSound, Cited

\* The invariant: the transcripts, the predictions and the reply.
CInv ==
    /\ TInv
    /\ Stored(store)
    /\ reply # None => ReplyIsSound(reply, sessions, store)

\* Whatever a turn answers is sound.
LEMMA TakeIsSound ==
    ASSUME CInv, NEW k, NEW session, Good(session), session.state \notin Terminal,
           NEW message \in Messages, ~Duplicate(session, message), Take(k, session, message)
    PROVE  ReplyIsSound(reply', sessions', store)
<1> DEFINE after == Handled(session, message)
           turn == after.turns[Len(after.turns)]
<1>1. turn \in Turns
  <2>1. /\ after.turns = Append(session.turns, TurnOf(session, message))
        /\ TurnOf(session, message) \in Turns
    BY HandledGood
  <2>2. session.turns \in Seq(Turns)
    BY DEF Good, Session
  <2> HIDE DEF after
  <2>3. turn = TurnOf(session, message)
    BY <2>1, <2>2, Appended
  <2> QED
    BY <2>1, <2>3
<1>2. turn.intent \in Known \cup {"UNKNOWN"}
  <2>1. PICK m \in Messages : turn.intent = Winner(m)
    BY <1>1 DEF Turns, Intents
  <2>2. IsFiniteSet(m.terms)
    BY ConversationAssumption DEF ConversationAssumption
  <2> HIDE DEF turn, after
  <2> QED
    BY <2>1, <2>2, WinnerIs
<1>3. /\ sessions' = [j \in DOMAIN sessions \cup {k} |-> IF j = k THEN after ELSE sessions[j]]
      /\ IF turn.followUp # "CONTINUATION"
         THEN reply' = Clarification(k, turn)
         ELSE \/ \E failure \in Failures : reply' = Failed(failure)
              \/ \E reads \in IF Asked(turn, after.entities) THEN Reads
                              ELSE {CHOOSE r \in Reads : TRUE},
                    sizes \in Sizes :
                      reply' = Answer(k, turn, after.entities, reads, sizes)
  BY DEF Take
<1> HIDE DEF turn, after
<1>4. sessions'[k].entities = after.entities
  BY <1>3
<1>5. CASE turn.followUp # "CONTINUATION"
  BY <1>3, <1>5, ClarificationIsSound
<1>6. ASSUME NEW failure, reply' = Failed(failure) PROVE ReplyIsSound(reply', sessions', store)
  BY <1>6, FailedIsSound
<1>7. ASSUME turn.followUp = "CONTINUATION", NEW sizes \in Sizes,
             NEW reads \in IF Asked(turn, after.entities) THEN Reads ELSE {CHOOSE r \in Reads : TRUE},
             reply' = Answer(k, turn, after.entities, reads, sizes)
      PROVE  ReplyIsSound(reply', sessions', store)
  <2>1. Asked(turn, after.entities) => reads \in Reads
    OBVIOUS
  <2>2. Stored(store)
    BY DEF CInv
  <2> QED
    BY <1>2, <1>4, <1>7, <2>1, <2>2, AnswerIsSound
<1> QED
  BY <1>3, <1>5, <1>6, <1>7

LEMMA AnswersInit == Init => CInv
<1> SUFFICES ASSUME Init PROVE CInv
  OBVIOUS
<1>1. Stored(store)
  <2>1. /\ IsFiniteSet(DOMAIN store) /\ DOMAIN store = 1..Cardinality(DOMAIN store)
        /\ \A id \in DOMAIN store : store[id].id = id /\ DOMAIN store[id] = PredictionFields
    BY ConversationAssumption DEF ConversationAssumption, Init
  <2>2. Cardinality(DOMAIN store) \in Nat
    BY <2>1, FS_CardinalityType
  <2> QED
    BY <2>1, <2>2 DEF Stored
<1> QED
  BY <1>1, TranscriptInit DEF CInv, Init

\* A prediction that is stored or settled leaves the others as they were.
LEMMA StoredStays ==
    ASSUME Stored(store)
    PROVE  /\ \A record \in Arrivals : Arrive(record) =>
                /\ Stored(store') /\ DOMAIN store \subseteq DOMAIN store'
                /\ \A id \in DOMAIN store : SameButR(store[id], store'[id])
           /\ \A id \in DOMAIN store : \A result : Settle(id, result) =>
                /\ Stored(store') /\ DOMAIN store \subseteq DOMAIN store'
                /\ \A i \in DOMAIN store : SameButR(store[i], store'[i])
<1>1. PICK n \in Nat : DOMAIN store = 1..n
  BY DEF Stored
<1>2. ASSUME NEW record \in Arrivals, Arrive(record)
      PROVE  /\ Stored(store') /\ DOMAIN store \subseteq DOMAIN store'
             /\ \A id \in DOMAIN store : SameButR(store[id], store'[id])
  <2>1. Cardinality(DOMAIN store) = n
    BY <1>1, FS_Interval
  <2>2. /\ record.id = n + 1 /\ DOMAIN record = PredictionFields
        /\ store' = [i \in 1..(n + 1) |-> IF i = n + 1 THEN record ELSE store[i]]
    BY <1>2, <2>1, ConversationAssumption DEF Arrive, ConversationAssumption
  <2>3. /\ DOMAIN store' = 1..(n + 1) /\ store'[n + 1] = record
        /\ \A i \in 1..n : i \in 1..(n + 1) /\ i # n + 1 /\ store'[i] = store[i]
        /\ \A i \in 1..(n + 1) : i \in 1..n \/ i = n + 1
    BY <2>2
  <2>4. Stored(store')
    BY <1>1, <2>2, <2>3 DEF Stored
  <2> QED
    BY <1>1, <2>3, <2>4 DEF SameButR
<1>3. ASSUME NEW id \in DOMAIN store, NEW result, Settle(id, result)
      PROVE  /\ Stored(store') /\ DOMAIN store \subseteq DOMAIN store'
             /\ \A i \in DOMAIN store : SameButR(store[i], store'[i])
  <2> DEFINE settled == [store[id] EXCEPT !.r = result]
  <2>1. DOMAIN settled = PredictionFields /\ settled.id = id /\ SameButR(store[id], settled)
    BY DEF Stored, SameButR, PredictionFields
  <2>2. store' = [store EXCEPT ![id] = settled]
    BY <1>3 DEF Settle
  <2> HIDE DEF settled
  <2>3. DOMAIN store' = DOMAIN store /\ \A i \in DOMAIN store : store'[i] = IF i = id THEN settled ELSE store[i]
    BY <2>2
  <2> QED
    BY <1>1, <2>1, <2>3 DEF Stored, SameButR
<1> QED
  BY <1>2, <1>3

LEMMA AnswersStep == CInv /\ [Next]_vars => CInv'
<1> SUFFICES ASSUME CInv, [Next]_vars PROVE CInv'
  OBVIOUS
<1>1. TInv'
  BY TranscriptStep DEF CInv
<1>2. ASSUME UNCHANGED store, ReplyIsSound(reply', sessions', store) PROVE CInv'
  BY <1>1, <1>2 DEF CInv
<1>3. ASSUME UNCHANGED store, reply' = None PROVE CInv'
  BY <1>1, <1>3 DEF CInv
<1>4. ASSUME UNCHANGED store, NEW code, reply' = Refusal(code) PROVE CInv'
  BY <1>2, <1>4, RefusalIsSound
<1>5. ASSUME NEW k \in 1..MaxSessions, NEW message \in Messages, Post(k, message) PROVE CInv'
  <2>1. CASE k \notin DOMAIN sessions \/ sessions[k].state \in Terminal \/ Duplicate(sessions[k], message)
    BY <1>4, <1>5, <2>1 DEF Post
  <2>2. CASE /\ k \in DOMAIN sessions /\ sessions[k].state \notin Terminal
             /\ ~Duplicate(sessions[k], message)
    <3>1. Take(k, sessions[k], message) /\ UNCHANGED store
      BY <1>5, <2>2 DEF Post
    <3>2. Good(sessions[k])
      BY <2>2 DEF CInv, TInv
    <3> QED
      BY <1>2, <2>2, <3>1, <3>2, TakeIsSound
  <2> QED
    BY <2>1, <2>2
<1>6. ASSUME NEW message \in Messages, PostNew(message) PROVE CInv'
  <2>1. Take(Len(sessions) + 1, NewSession, message) /\ UNCHANGED store
    BY <1>6 DEF PostNew
  <2>2. NewSession.state \notin Terminal /\ ~Duplicate(NewSession, message)
    BY DEF NewSession, Terminal, Duplicate
  <2> QED
    BY <1>2, <2>1, <2>2, NewIsGood, TakeIsSound
<1>7. ASSUME PostBlank PROVE CInv'
  BY <1>4, <1>7 DEF PostBlank
<1>8. ASSUME Create PROVE CInv'
  BY <1>3, <1>8 DEF Create
<1>9. ASSUME NEW k \in 1..MaxSessions, Close(k) PROVE CInv'
  BY <1>3, <1>4, <1>9 DEF Close
<1>10. ASSUME NEW k \in 1..MaxSessions, Expire(k) PROVE CInv'
  BY <1>3, <1>10 DEF Expire
<1>11. ASSUME Stored(store'), DOMAIN store \subseteq DOMAIN store', UNCHANGED <<sessions, reply>>,
              \A id \in DOMAIN store : SameButR(store[id], store'[id])
       PROVE  CInv'
  <2>1. reply # None => ReplyIsSound(reply, sessions, store')
    BY <1>11, ReplyStaysSound DEF CInv
  <2> QED
    BY <1>1, <1>11, <2>1 DEF CInv
<1>12. ASSUME NEW record \in Arrivals, Arrive(record) PROVE CInv'
  <2>1. UNCHANGED <<sessions, reply>>
    BY <1>12 DEF Arrive
  <2> QED
    BY <1>11, <1>12, <2>1, StoredStays DEF CInv
<1>13. ASSUME NEW id \in DOMAIN store, NEW result \in {"gain", "loss"}, Settle(id, result) PROVE CInv'
  <2>1. UNCHANGED <<sessions, reply>>
    BY <1>13 DEF Settle
  <2> QED
    BY <1>11, <1>13, <2>1, StoredStays DEF CInv
<1>14. ASSUME UNCHANGED vars PROVE CInv'
  BY <1>1, <1>14 DEF CInv, vars
<1> QED
  BY <1>5, <1>6, <1>7, <1>8, <1>9, <1>10, <1>12, <1>13, <1>14 DEF Next

\* For any messages, stores and engines, an answer about a decision is about the
\* subject that its session's turns named, cites that decision and nothing of
\* another, and keeps the citations in the prompt.
\* (retrieval.RetrievalOrchestrator.retrieve, prompt.PromptBuilder.build)
THEOREM CitationsHold == Spec => []AnswersAreCited
<1>1. CInv => AnswersAreCited
  <2> SUFFICES ASSUME CInv, reply # None
               PROVE  /\ reply.detail # "MissingCitation"
                      /\ reply.citations # {} =>
                           LET decision == reply.decision
                               named == sessions[reply.session].entities
                           IN  /\ <<"decision", decision.id>> \in reply.citations
                               /\ \/ decision.id = named.prediction
                                  \/ named.prediction = None /\ store[decision.id].symbol = named.symbol
                               /\ \A c \in reply.citations :
                                    \/ c = <<"decision", decision.id>>
                                    \/ c[1] \in Contributors /\ c[2] \in decision.sections[c[1]].evidence
                               /\ "CITATIONS" \in reply.prompt.present \ reply.prompt.omitted
                      /\ (reply.code = 200 /\ reply.decision # None /\ reply.availability # "NOT_AVAILABLE")
                           => reply.citations # {}
    BY Zenon DEF AnswersAreCited
  <2>1. ReplyIsSound(reply, sessions, store)
    BY DEF CInv
  <2> QED
    BY <2>1 DEF ReplyIsSound, Cited, CitedOf, IsNamed
<1> QED
  BY <1>1, AnswersInit, AnswersStep, PTL DEF Spec

\* A prompt fits the budget or keeps nothing that may be dropped, and what was
\* dropped last had to be, for prompts of any sizes and any budget.
\* (prompt.PromptBuilder._apply_budget)
THEOREM TrimmingHolds == Spec => []TrimsOnlyWhatItMust
<1>1. CInv => TrimsOnlyWhatItMust
  BY DEF CInv, ReplyIsSound, TrimsOnlyWhatItMust
<1> QED
  BY <1>1, AnswersInit, AnswersStep, PTL DEF Spec

\* More evidence never costs confidence, a HIGH confidence rests on the four
\* sections, and the explanation accounts for all of them, for predictions and
\* engines of any answers.
\* (decision_intelligence.confidence.ConfidenceEngine.assess, evidence.EvidenceEngine.explain)
THEOREM ConfidenceHolds == Spec => []ConfidenceIsOfTheEvidence
<1>1. CInv => ConfidenceIsOfTheEvidence
  <2> SUFFICES ASSUME CInv, reply # None, reply.decision # None
               PROVE  LET d == reply.decision
                      IN  /\ ExplainedInFull(d)
                          /\ Assess(d).level = "HIGH" => Complete(d) = Contributors
                          /\ \A reads \in Reads :
                               LET e == Compose(store[d.id], reads)
                               IN  NoLess(d, e) => /\ Assess(e).score >= Assess(d).score
                                                   /\ Assess(e).priority >= Assess(d).priority
    BY Zenon DEF ConfidenceIsOfTheEvidence
  <2> DEFINE d == reply.decision
             other == store[d.id]
  <2>1. Composed(d, store) /\ Stored(store)
    BY DEF CInv, ReplyIsSound
  <2>2. PICK record : /\ SameButR(record, other)
                      /\ \E reads \in Reads : d = Compose(record, reads)
    BY <2>1 DEF Composed
  <2>3. PICK reads \in Reads : d = Compose(record, reads)
    BY <2>2
  <2>4. \A read \in Reads : IsRead(read)
    BY ConversationAssumption DEF ConversationAssumption
  <2>5. other.id # None
    BY <2>1, ConversationAssumption DEF Composed, Stored, ConversationAssumption
  <2>6. record.id = other.id /\ record.conf = other.conf
    BY <2>2 DEF SameButR, PredictionFields
  <2> HIDE DEF d, other
  <2>7. Fits(d, record)
    BY <2>3, <2>4, ComposeIs
  <2>8. ASSUME NEW read \in Reads PROVE Fits(Compose(other, read), other)
    BY <2>4, ComposeIs
  <2>9. ExplainedInFull(d) /\ (Assess(d).level = "HIGH" => Complete(d) = Contributors)
    BY <2>5, <2>6, <2>7, ExplainedIs, HighIs
  <2>10. ASSUME NEW read \in Reads, NoLess(d, Compose(other, read))
         PROVE  /\ Assess(Compose(other, read)).score >= Assess(d).score
                /\ Assess(Compose(other, read)).priority >= Assess(d).priority
    BY <2>5, <2>6, <2>7, <2>8, <2>10, MoreIsNoWorse
  <2> QED
    BY <2>9, <2>10 DEF d, other
<1> QED
  BY <1>1, AnswersInit, AnswersStep, PTL DEF Spec

=============================================================================
