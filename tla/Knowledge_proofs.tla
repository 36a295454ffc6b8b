-------------------------- MODULE Knowledge_proofs --------------------------
(***************************************************************************)
(* Proofs about Knowledge, for any number of predictions, any pages and    *)
(* filters, and any writes between two pages.                              *)
(***************************************************************************)
EXTENDS Knowledge, FiniteSetTheorems, NaturalsInduction, SequenceTheorems, WellFoundedInduction, TLAPS

-----------------------------------------------------------------------------
(* A finite set in a strict order, as a sequence *)

\* R orders S strictly.
Orders(R, S) ==
    /\ \A x \in S : <<x, x>> \notin R
    /\ \A x, y, z \in S : <<x, y>> \in R /\ <<y, z>> \in R => <<x, z>> \in R
    /\ \A x, y \in S : x = y \/ <<x, y>> \in R \/ <<y, x>> \in R

Before(R, S, x) == {y \in S : <<y, x>> \in R}

Place(R, S, x) == Cardinality(Before(R, S, x))

\* The function s puts every member of S at its place.
InOrder(R, S, s) ==
    /\ s \in [1..Cardinality(S) -> S]
    /\ \A n \in 1..Cardinality(S) : Place(R, S, s[n]) = n - 1

LEMMA PlaceType ==
    ASSUME NEW S, IsFiniteSet(S), NEW R, Orders(R, S), NEW x \in S
    PROVE  Place(R, S, x) \in 0..(Cardinality(S) - 1)
<1>1. Before(R, S, x) \in SUBSET S /\ Before(R, S, x) # S
  BY DEF Before, Orders
<1>2. /\ IsFiniteSet(Before(R, S, x)) /\ Cardinality(Before(R, S, x)) <= Cardinality(S)
      /\ Cardinality(S) # Cardinality(Before(R, S, x))
  BY <1>1, FS_Subset
<1>3. Cardinality(S) \in Nat /\ Cardinality(Before(R, S, x)) \in Nat
  BY <1>2, FS_CardinalityType
<1> QED
  BY <1>2, <1>3 DEF Place

LEMMA PlaceGrows ==
    ASSUME NEW S, IsFiniteSet(S), NEW R, Orders(R, S), NEW x \in S, NEW y \in S, <<x, y>> \in R
    PROVE  Place(R, S, x) < Place(R, S, y)
<1>1. Before(R, S, x) \in SUBSET Before(R, S, y) /\ Before(R, S, x) # Before(R, S, y)
  BY DEF Before, Orders
<1>2. Before(R, S, y) \in SUBSET S
  BY DEF Before
<1>3. IsFiniteSet(Before(R, S, y))
  BY <1>2, FS_Subset
<1>4. /\ IsFiniteSet(Before(R, S, x))
      /\ Cardinality(Before(R, S, x)) <= Cardinality(Before(R, S, y))
      /\ Cardinality(Before(R, S, x)) # Cardinality(Before(R, S, y))
  BY <1>1, <1>3, FS_Subset
<1>5. Cardinality(Before(R, S, x)) \in Nat /\ Cardinality(Before(R, S, y)) \in Nat
  BY <1>3, <1>4, FS_CardinalityType
<1> QED
  BY <1>4, <1>5 DEF Place

LEMMA PlaceIsOfOne ==
    ASSUME NEW S, IsFiniteSet(S), NEW R, Orders(R, S), NEW x \in S, NEW y \in S,
           Place(R, S, x) = Place(R, S, y)
    PROVE  x = y
<1>1. Place(R, S, x) \in Int /\ Place(R, S, y) \in Int
  <2>1. Cardinality(S) \in Nat
    BY FS_CardinalityType
  <2>2. /\ Place(R, S, x) \in 0..(Cardinality(S) - 1)
        /\ Place(R, S, y) \in 0..(Cardinality(S) - 1)
    BY PlaceType
  <2> QED
    BY <2>1, <2>2
<1>2. <<x, y>> \notin R
  <2>1. ASSUME <<x, y>> \in R PROVE Place(R, S, x) < Place(R, S, y)
    BY <2>1, PlaceGrows
  <2> QED
    BY <1>1, <2>1
<1>3. <<y, x>> \notin R
  <2>1. ASSUME <<y, x>> \in R PROVE Place(R, S, y) < Place(R, S, x)
    BY <2>1, PlaceGrows
  <2> QED
    BY <1>1, <2>1
<1> QED
  BY <1>2, <1>3 DEF Orders

AllTaken(R, S) == \A n \in 0..(Cardinality(S) - 1) : \E x \in S : Place(R, S, x) = n

\* Every place is taken: the pigeonhole principle.
LEMMA PlaceIsTaken ==
    ASSUME NEW S, IsFiniteSet(S), NEW R, Orders(R, S)
    PROVE  AllTaken(R, S)
<1> SUFFICES ASSUME NEW n \in 0..(Cardinality(S) - 1)
             PROVE  \E x \in S : Place(R, S, x) = n
  BY DEF AllTaken
<1> DEFINE places == 0..(Cardinality(S) - 1)
           place == [x \in S |-> Place(R, S, x)]
<1>1. Cardinality(S) \in Nat
  BY FS_CardinalityType
<1>2. IsFiniteSet(places) /\ Cardinality(places) = Cardinality(S)
  BY <1>1, FS_Interval
<1>3. place \in [S -> places]
  BY PlaceType
<1>4. place \in Injection(S, places)
  BY <1>3, PlaceIsOfOne DEF Injection, IsInjective
<1>5. place \in Surjection(S, places)
  BY <1>2, <1>4, FS_Injection
<1> QED
  BY <1>5 DEF Surjection

\* The sequence has each member of the set once, in the order.
LEMMA InOrderIs ==
    ASSUME NEW S, IsFiniteSet(S), NEW R, Orders(R, S), NEW s, InOrder(R, S, s)
    PROVE  /\ s \in Seq(S) /\ Len(s) = Cardinality(S) /\ Len(s) \in Nat
           /\ \A x \in S : \E n \in 1..Len(s) : s[n] = x
           /\ \A m, n \in 1..Len(s) : m < n => <<s[m], s[n]>> \in R
<1> DEFINE c == Cardinality(S)
<1>1. c \in Nat
  BY FS_CardinalityType
<1>2. \A n \in 1..c : s[n] \in S /\ Place(R, S, s[n]) = n - 1
  BY DEF InOrder
<1>3. s \in Seq(S) /\ Len(s) = c
  BY <1>1 DEF InOrder
<1> HIDE DEF c
<1>4. ASSUME NEW x \in S
      PROVE  \E n \in 1..c : s[n] = x
  <2>1. Place(R, S, x) \in 0..(c - 1)
    BY PlaceType DEF c
  <2> DEFINE p == Place(R, S, x) + 1
  <2>2. p \in 1..c /\ p - 1 = Place(R, S, x)
    BY <1>1, <2>1
  <2> HIDE DEF p
  <2>3. s[p] = x
    BY <1>2, <2>2, PlaceIsOfOne
  <2> QED
    BY <2>2, <2>3
<1>5. ASSUME NEW m \in 1..c, NEW n \in 1..c, m < n
      PROVE  <<s[m], s[n]>> \in R
  <2>1. /\ s[m] \in S /\ s[n] \in S
        /\ Place(R, S, s[m]) = m - 1 /\ Place(R, S, s[n]) = n - 1
    BY <1>2
  <2>2. s[m] # s[n]
    BY <1>1, <1>5, <2>1
  <2>3. <<s[n], s[m]>> \notin R
    <3>1. ASSUME <<s[n], s[m]>> \in R PROVE n - 1 < m - 1
      BY <2>1, <3>1, PlaceGrows
    <3> QED
      BY <1>1, <1>5, <3>1
  <2> QED
    BY <2>1, <2>2, <2>3 DEF Orders
<1> QED
  BY <1>1, <1>3, <1>4, <1>5 DEF c

-----------------------------------------------------------------------------
(* The pages *)

\* The newer comes first.
ByAge == {pair \in Ids \X Ids : Older(pair[2], pair[1])}

LEMMA AgeOrders ==
    ASSUME NEW ids \in SUBSET Ids
    PROVE  IsFiniteSet(ids) /\ Orders(ByAge, ids)
<1>1. IsFiniteSet(ids)
  BY RetrievalAssumption, FS_Subset DEF RetrievalAssumption
<1>2. \A i \in Ids : i \in Nat /\ Context(i).created \in Nat
  BY RetrievalAssumption DEF RetrievalAssumption
<1>3. \A i, j \in Ids : <<i, j>> \in ByAge <=> Older(j, i)
  BY DEF ByAge
<1>4. /\ \A i \in Ids : ~Older(i, i)
      /\ \A i, j, k \in Ids : Older(i, j) /\ Older(j, k) => Older(i, k)
      /\ \A i, j \in Ids : i = j \/ Older(i, j) \/ Older(j, i)
  BY <1>2 DEF Older
<1>5. Orders(ByAge, ids)
  BY <1>3, <1>4 DEF Orders
<1> QED
  BY <1>1, <1>5

LEMMA NewestFirstIs ==
    ASSUME NEW ids \in SUBSET Ids
    PROVE  /\ NewestFirst(ids) \in Seq(ids)
           /\ \A i \in ids : \E n \in 1..Len(NewestFirst(ids)) : NewestFirst(ids)[n] = i
           /\ \A m, n \in 1..Len(NewestFirst(ids)) :
                m < n => Older(NewestFirst(ids)[n], NewestFirst(ids)[m])
<1> DEFINE s == NewestFirst(ids)
<1>1. Orders(ByAge, ids) /\ IsFiniteSet(ids)
  BY AgeOrders
<1>2. \A i \in ids : Cardinality({j \in ids : Older(i, j)}) = Place(ByAge, ids, i)
  <2>1. \A i \in ids : {j \in ids : Older(i, j)} = Before(ByAge, ids, i)
    BY DEF Before, ByAge
  <2> QED
    BY <2>1 DEF Place
<1>3. s = [n \in 1..Cardinality(ids) |->
              CHOOSE i \in ids : Cardinality({j \in ids : Older(i, j)}) = n - 1]
  BY DEF NewestFirst
<1> HIDE DEF s
<1>4. ASSUME NEW n \in 1..Cardinality(ids)
      PROVE  s[n] \in ids /\ Place(ByAge, ids, s[n]) = n - 1
  <2>1. n - 1 \in 0..(Cardinality(ids) - 1)
    BY <1>1, FS_CardinalityType
  <2>2. \E i \in ids : Cardinality({j \in ids : Older(i, j)}) = n - 1
    <3>1. AllTaken(ByAge, ids)
      BY <1>1, PlaceIsTaken
    <3> QED
      BY <1>2, <2>1, <3>1 DEF AllTaken
  <2>3. s[n] \in ids /\ Cardinality({j \in ids : Older(s[n], j)}) = n - 1
    BY <1>3, <2>2
  <2> QED
    BY <1>2, <2>3
<1>5. InOrder(ByAge, ids, s)
  <2>1. s \in [1..Cardinality(ids) -> ids]
    BY <1>3, <1>4
  <2> QED
    BY <1>4, <2>1 DEF InOrder
<1>6. \A i, j : <<i, j>> \in ByAge => Older(j, i)
  BY DEF ByAge
<1>7. /\ s \in Seq(ids) /\ Len(s) = Cardinality(ids) /\ Len(s) \in Nat
      /\ \A x \in ids : \E n \in 1..Len(s) : s[n] = x
      /\ \A m, n \in 1..Len(s) : m < n => <<s[m], s[n]>> \in ByAge
  BY <1>1, <1>5, InOrderIs
<1> QED
  BY <1>6, <1>7 DEF s

-----------------------------------------------------------------------------
(* Part of a sequence *)

\* The sequence `part' has the elements of s at the places P, in their order.
IsPart(part, s, P) ==
    \E at \in Seq(P) :
        /\ Len(part) = Len(at) /\ Len(at) = Cardinality(P)
        /\ \A n \in 1..Len(at) : part[n] = s[at[n]]
        /\ \A k \in P : \E n \in 1..Len(at) : at[n] = k
        /\ \A m, n \in 1..Len(at) : m < n => at[m] < at[n]

LEMMA PickedIs ==
    ASSUME NEW S, NEW s \in Seq(S), NEW P \in SUBSET (1..Len(s))
    PROVE  Picked(s, P) \in Seq(S) /\ IsPart(Picked(s, P), s, P)
<1> DEFINE R == {pair \in P \X P : pair[1] < pair[2]}
           at == [n \in 1..Cardinality(P) |-> CHOOSE k \in P : Cardinality({j \in P : j < k}) = n - 1]
           picked == Picked(s, P)
<1>1. IsFiniteSet(P) /\ P \subseteq Int
  <2>1. Len(s) \in Nat
    OBVIOUS
  <2>2. IsFiniteSet(1..Len(s))
    BY <2>1, FS_Interval
  <2>3. IsFiniteSet(P)
    BY <2>2, FS_Subset
  <2> QED
    BY <2>1, <2>3
<1>2. \A j, k \in P : <<j, k>> \in R <=> j < k
  OBVIOUS
<1>3. \A j, k : <<j, k>> \in R => j < k
  OBVIOUS
<1> HIDE DEF R
<1>4. Orders(R, P)
  BY <1>1, <1>2 DEF Orders
<1>5. \A k \in P : Cardinality({j \in P : j < k}) = Place(R, P, k)
  <2>1. \A k \in P : {j \in P : j < k} = Before(R, P, k)
    BY <1>2 DEF Before
  <2> QED
    BY <2>1 DEF Place
<1>6. picked = [n \in 1..Cardinality(P) |-> s[CHOOSE k \in P : Cardinality({j \in P : j < k}) = n - 1]]
  BY DEF Picked
<1>7. \A n \in 1..Cardinality(P) : at[n] = CHOOSE k \in P : Cardinality({j \in P : j < k}) = n - 1
  OBVIOUS
<1>8. DOMAIN picked = 1..Cardinality(P) /\ \A n \in 1..Cardinality(P) : picked[n] = s[at[n]]
  BY <1>6
<1>9. at = [n \in 1..Cardinality(P) |-> CHOOSE k \in P : Cardinality({j \in P : j < k}) = n - 1]
  OBVIOUS
<1> HIDE DEF at, picked
<1>10. ASSUME NEW n \in 1..Cardinality(P)
       PROVE  at[n] \in P /\ Place(R, P, at[n]) = n - 1
  <2>1. Cardinality(P) \in Nat
    BY <1>1, FS_CardinalityType
  <2>2. n - 1 \in 0..(Cardinality(P) - 1)
    BY <2>1
  <2>3. PICK k \in P : Place(R, P, k) = n - 1
    <3>1. AllTaken(R, P)
      BY <1>1, <1>4, PlaceIsTaken
    <3> QED
      BY <2>2, <3>1 DEF AllTaken
  <2>4. at[n] \in P /\ Cardinality({j \in P : j < at[n]}) = n - 1
    BY <1>5, <1>7, <2>3
  <2> QED
    BY <1>5, <2>4
<1>11. InOrder(R, P, at)
  <2>1. at \in [1..Cardinality(P) -> P]
    BY <1>9, <1>10
  <2> QED
    BY <1>10, <2>1 DEF InOrder
<1>12. /\ at \in Seq(P) /\ Len(at) = Cardinality(P) /\ Len(at) \in Nat
       /\ \A k \in P : \E n \in 1..Len(at) : at[n] = k
       /\ \A m, n \in 1..Len(at) : m < n => <<at[m], at[n]>> \in R
  BY <1>1, <1>4, <1>11, InOrderIs
<1>13. picked \in Seq(S) /\ Len(picked) = Cardinality(P)
  <2>1. ASSUME NEW n \in 1..Cardinality(P)
        PROVE  s[at[n]] \in S
    <3>1. at[n] \in 1..Len(s)
      BY <1>10
    <3> QED
      BY <3>1
  <2>2. picked \in [1..Cardinality(P) -> S]
    BY <1>6, <1>8, <2>1
  <2> QED
    BY <1>12, <2>2
<1>14. /\ picked \in Seq(S) /\ Len(picked) = Len(at) /\ Len(at) = Cardinality(P)
       /\ \A n \in 1..Len(at) : picked[n] = s[at[n]]
       /\ \A k \in P : \E n \in 1..Len(at) : at[n] = k
       /\ \A m, n \in 1..Len(at) : m < n => at[m] < at[n]
  BY <1>3, <1>8, <1>12, <1>13
<1> QED
  BY <1>12, <1>14 DEF picked, IsPart

-----------------------------------------------------------------------------
(* One page *)

\* Newest first, and nothing twice.
Descending(ids) == \A m, n \in 1..Len(ids) : m < n => Older(ids[n], ids[m])

\* A page has what lies behind the cursor up to its last record, which is the
\* cursor of the next page if there is more.
LEMMA SearchIs ==
    ASSUME NEW filter, NEW limit \in Nat \ {0}, NEW cursor
    PROVE  \E ids \in Seq(Matched(filter, cursor)) :
             /\ Search(filter, limit, cursor).records = [k \in 1..Len(ids) |-> Compose(ids[k])]
             /\ Descending(ids)
             /\ Search(filter, limit, cursor).next # None =>
                    ids # <<>> /\ Search(filter, limit, cursor).next = ids[Len(ids)]
             /\ \A i \in Matched(filter, cursor) :
                    \/ \E k \in 1..Len(ids) : ids[k] = i
                    \/ /\ Search(filter, limit, cursor).next # None
                       /\ Older(i, Search(filter, limit, cursor).next)
<1> DEFINE matched == Matched(filter, cursor)
           ordered == NewestFirst(matched)
           more == Len(ordered) > limit
           ids == IF more THEN SubSeq(ordered, 1, limit) ELSE ordered
           page == Search(filter, limit, cursor)
<1>1. matched \in SUBSET Ids /\ None \notin matched
  BY RetrievalAssumption DEF Matched, Recorded, RetrievalAssumption
<1>2. page = [records |-> [k \in 1..Len(ids) |-> Compose(ids[k])],
              next |-> IF more THEN ids[limit] ELSE None]
  BY DEF Search
<1> HIDE DEF matched, page
<1>3. /\ ordered \in Seq(matched)
      /\ \A i \in matched : \E n \in 1..Len(ordered) : ordered[n] = i
      /\ \A m, n \in 1..Len(ordered) : m < n => Older(ordered[n], ordered[m])
  BY <1>1, NewestFirstIs
<1> HIDE DEF ordered
<1>4. /\ ids \in Seq(matched)
      /\ Len(ids) \in Nat /\ Len(ordered) \in Nat
      /\ more => Len(ids) = limit
      /\ ~more => Len(ids) = Len(ordered)
      /\ Len(ids) <= Len(ordered)
      /\ \A n \in 1..Len(ids) : ids[n] = ordered[n]
  BY <1>3
<1> HIDE DEF ids
<1>5. Descending(ids)
  <2>1. ASSUME NEW m \in 1..Len(ids), NEW n \in 1..Len(ids), m < n
        PROVE  Older(ids[n], ids[m])
    <3>1. m \in 1..Len(ordered) /\ n \in 1..Len(ordered)
      BY <1>4
    <3>2. Older(ordered[n], ordered[m])
      BY <1>3, <2>1, <3>1
    <3> QED
      BY <1>4, <3>2
  <2> QED
    BY <2>1 DEF Descending
<1>6. more => limit \in 1..Len(ids) /\ ids[limit] \in matched /\ ids[limit] # None
  BY <1>1, <1>4
<1>7. page.next # None => ids # <<>> /\ page.next = ids[Len(ids)]
  BY <1>2, <1>4, <1>6
<1>8. ASSUME NEW i \in matched
      PROVE  \/ \E k \in 1..Len(ids) : ids[k] = i
             \/ page.next # None /\ Older(i, page.next)
  <2>1. PICK n \in 1..Len(ordered) : ordered[n] = i
    BY <1>3
  <2>2. CASE n <= Len(ids)
    BY <1>4, <2>1, <2>2
  <2>3. CASE n > Len(ids)
    <3>1. more /\ limit \in 1..Len(ordered) /\ limit < n
      BY <1>4, <2>1, <2>3
    <3>2. page.next = ordered[limit] /\ page.next # None
      BY <1>2, <1>4, <1>6, <3>1
    <3> QED
      BY <1>3, <2>1, <3>1, <3>2
  <2> QED
    BY <1>4, <2>2, <2>3
<1> QED
  BY <1>2, <1>4, <1>5, <1>7, <1>8 DEF matched, page

-----------------------------------------------------------------------------
(* The inductive invariant *)

Entries == [record : Records, vector : Embeddings \cup {None}]

Tables ==
    /\ rows \in [Ids -> {None, Pending} \cup Outcomes]
    /\ built \subseteq Recorded
    /\ vectors \in [Ids -> Embeddings \cup {None}]

Enriched == <<"reasoning_present", TRUE>>

\* A stored vector that knows of a reasoning row was made when there was one.
VectorsTell == \A i \in Ids : vectors[i] # None /\ Enriched \in vectors[i] => i \in built

\* The id of the n-th record that the walk keeps.
IdAt(n) == walk.got[n].record.id

\* The walk has i on a page that it has not read.
Ahead(i) == ~walk.ended /\ (walk.cursor = None \/ Older(i, walk.cursor))

\* The records of the pages come newest first, nothing twice and nothing behind
\* the cursor.
InTurn ==
    /\ \A m, n \in 1..Len(walk.got) : m < n => Older(IdAt(n), IdAt(m))
    /\ walk.cursor # None => \A n \in 1..Len(walk.got) : IdAt(n) = walk.cursor \/ Older(walk.cursor, IdAt(n))
    /\ walk.cursor = None /\ ~walk.ended => walk.got = <<>>
    /\ walk.kind # "similar" => walk.filter = AnyRecord
    /\ walk.kind # "backfill" => walk.todo = <<>>
    /\ walk.kind = "similar" => walk.self # None

\* What is kept for a dataset is settled, and was read as it is.
KeptAsIs ==
    \A n \in 1..Len(walk.got) :
        LET record == walk.got[n].record
            i == record.id
        IN  /\ walk.kind = "dataset" =>
                 i \in Recorded /\ record.r # None /\ record = RecordWith(i, rows[i], record.built, record.embedded)
            /\ walk.kind = "similar" => walk.got[n].vector # None

TodoIsBuilt == \A n \in 1..Len(walk.todo) : walk.todo[n].built /\ walk.todo[n].id \in built

\* A steady prediction is still what it was, and is ahead, or kept, or beyond
\* the cap, or dealt with.
AccountedFor(s) ==
    /\ s.id \in Recorded
    /\ walk.kind # "backfill" => rows[s.id] # Pending /\ Matches(s.id, walk.filter)
    /\ walk.kind = "dataset" =>
         rows[s.id].r = None \/ Ahead(s.id) \/ \E n \in 1..Len(walk.got) : IdAt(n) = s.id
    /\ walk.kind = "similar" /\ s.vector # None =>
         /\ vectors[s.id] # None
         /\ \/ Ahead(s.id)
            \/ \E n \in 1..Len(walk.got) : IdAt(n) = s.id
            \/ Len(walk.got) >= CandidateCap /\ Older(s.id, IdAt(Len(walk.got)))
    /\ walk.kind = "backfill" =>
         /\ s.id \in built
         /\ \/ Ahead(s.id)
            \/ \E n \in 1..Len(walk.todo) : walk.todo[n].id = s.id
            \/ vectors[s.id] # None
            \/ s.id \in walk.failed

\* A settled prediction that was embedded again can have its former vector back
\* neither now nor when it is enriched; and as long as it has it, the walk read
\* this vector with it.
StoodStill(s) ==
    walk.kind = "similar" /\ s.vector # None =>
        /\ vectors[s.id] # s.vector =>
             /\ FeatureVector(RecordOf(s.id, s.id \in built, TRUE)) # s.vector
             /\ s.id \in built \/ FeatureVector(RecordOf(s.id, TRUE, TRUE)) # s.vector
        /\ \A n \in 1..Len(walk.got) :
             IdAt(n) = s.id /\ vectors[s.id] = s.vector => walk.got[n].vector = s.vector

WalkInv ==
    walk # None =>
        /\ walk \in Walks
        /\ InTurn /\ KeptAsIs /\ TodoIsBuilt
        /\ \A s \in walk.steady : AccountedFor(s) /\ StoodStill(s)

IInv == Tables /\ VectorsTell /\ WalkInv

-----------------------------------------------------------------------------
(* Records and vectors *)

LEMMA RecordIs ==
    ASSUME NEW record \in Records
    PROVE  /\ record.id \in Ids /\ record.context = Context(record.id)
           /\ record.built \in BOOLEAN /\ record.embedded \in BOOLEAN
           /\ FeatureVector(record) \in Embeddings
<1>1. FeatureVector(record) \in Embeddings
  BY DEF Embeddings
<1>2. PICK i \in Ids, row \in {Pending} \cup Outcomes, isBuilt \in BOOLEAN, isEmbedded \in BOOLEAN :
        record = RecordWith(i, row, isBuilt, isEmbedded)
  BY DEF Records
<1>3. /\ record.id \in Ids /\ record.context = Context(record.id)
      /\ record.built \in BOOLEAN /\ record.embedded \in BOOLEAN
  BY <1>2 DEF RecordWith
<1> QED
  BY <1>1, <1>3

\* A record is of the row, as it is read.
LEMMA RecordOfIs ==
    ASSUME Tables, NEW i \in Recorded, NEW isBuilt \in BOOLEAN, NEW isEmbedded \in BOOLEAN
    PROVE  /\ RecordOf(i, isBuilt, isEmbedded) \in Records
           /\ RecordOf(i, isBuilt, isEmbedded).id = i
           /\ RecordOf(i, isBuilt, isEmbedded).r = rows[i].r
           /\ RecordOf(i, isBuilt, isEmbedded).built = isBuilt
           /\ RecordOf(i, isBuilt, isEmbedded).embedded = isEmbedded
           /\ RecordOf(i, isBuilt, isEmbedded) = RecordWith(i, rows[i], isBuilt, isEmbedded)
<1>1. i \in Ids /\ rows[i] \in {Pending} \cup Outcomes
  BY DEF Tables, Recorded
<1>2. RecordWith(i, rows[i], isBuilt, isEmbedded) \in Records
  BY <1>1 DEF Records
<1> QED
  BY <1>2 DEF RecordOf, RecordWith

LEMMA ComposeIs ==
    ASSUME Tables, NEW i \in Recorded
    PROVE  /\ Compose(i) \in Records
           /\ Compose(i).id = i /\ Compose(i).r = rows[i].r
           /\ Compose(i).built = (i \in built)
           /\ Compose(i) = RecordWith(i, rows[i], Compose(i).built, Compose(i).embedded)
           /\ FeatureVector(Compose(i)) \in Embeddings
<1>1. (i \in built) \in BOOLEAN /\ (vectors[i] # None) \in BOOLEAN
  OBVIOUS
<1>2. /\ Compose(i) \in Records
      /\ Compose(i).id = i /\ Compose(i).r = rows[i].r
      /\ Compose(i).built = (i \in built)
      /\ Compose(i).embedded = (vectors[i] # None)
      /\ Compose(i) = RecordWith(i, rows[i], i \in built, vectors[i] # None)
  BY <1>1, RecordOfIs DEF Compose
<1> QED
  BY <1>2, RecordIs

LEMMA VectorIsEnriched ==
    ASSUME NEW record, record.built \in BOOLEAN
    PROVE  Enriched \in FeatureVector(record) <=> record.built
<1>1. ASSUME NEW name \in {"symbol", "market_regime", "trade_result", "embedding_present"}, NEW value
      PROVE  Enriched \notin OneHot(name, value)
  <2>1. name # "reasoning_present"
    OBVIOUS
  <2>2. Enriched # <<name, value>>
    BY <2>1 DEF Enriched
  <2> QED
    BY <2>2 DEF OneHot
<1>2. Enriched \in OneHot("reasoning_present", IF record.built THEN TRUE ELSE None) <=> record.built
  <2>1. CASE record.built
    BY <2>1, RetrievalAssumption DEF OneHot, Enriched, RetrievalAssumption
  <2>2. CASE ~record.built
    BY <2>2 DEF OneHot
  <2> QED
    BY <2>1, <2>2
<1>3. /\ Enriched \notin OneHot("symbol", record.context.symbol)
      /\ Enriched \notin OneHot("market_regime", record.context.regime)
      /\ Enriched \notin OneHot("trade_result", record.result)
      /\ Enriched \notin OneHot("embedding_present", IF record.embedded THEN TRUE ELSE None)
  BY <1>1
<1> QED
  BY <1>2, <1>3 DEF FeatureVector

-----------------------------------------------------------------------------
(* Steps of other threads *)

\* Nothing is taken back: what is settled stays as it is, what is enriched and
\* what is embedded stays so.
Grows ==
    /\ \A i \in Recorded : i \in Recorded' /\ (rows[i] # Pending => rows'[i] = rows[i])
    /\ built \subseteq built'
    /\ \A i \in Ids : vectors[i] # None => vectors'[i] # None

OneWrite(i) == Insert(i) \/ Build(i) \/ Rebuild(i) \/ \E outcome \in Outcomes : Settle(i, outcome)

LEMMA InsertStep ==
    ASSUME Tables, VectorsTell, NEW i \in Ids, Insert(i)
    PROVE  Tables' /\ VectorsTell' /\ Grows /\ UNCHANGED <<built, vectors>>
<1>1. /\ rows[i] = None /\ rows' = [rows EXCEPT ![i] = Pending]
      /\ built' = built /\ vectors' = vectors
  BY DEF Insert
<1>2. rows' \in [Ids -> {None, Pending} \cup Outcomes]
  BY <1>1 DEF Tables
<1>3. \A j \in Ids : rows'[j] = IF j = i THEN Pending ELSE rows[j]
  BY <1>1 DEF Tables
<1>4. \A j \in Recorded : j \in Recorded' /\ (rows[j] # Pending => rows'[j] = rows[j])
  BY <1>1, <1>3 DEF Recorded
<1> QED
  BY <1>1, <1>2, <1>4 DEF Tables, VectorsTell, Grows

LEMMA SettleStep ==
    ASSUME Tables, VectorsTell, NEW i \in Ids, NEW outcome \in Outcomes, Settle(i, outcome)
    PROVE  Tables' /\ VectorsTell' /\ Grows /\ UNCHANGED <<built, vectors>>
<1>1. /\ rows[i] = Pending /\ rows' = [rows EXCEPT ![i] = outcome]
      /\ built' = built /\ vectors' = vectors /\ outcome # None
  BY RetrievalAssumption DEF Settle, RetrievalAssumption
<1>2. rows' \in [Ids -> {None, Pending} \cup Outcomes]
  BY <1>1 DEF Tables
<1>3. \A j \in Ids : rows'[j] = IF j = i THEN outcome ELSE rows[j]
  BY <1>1 DEF Tables
<1>4. \A j \in Recorded : j \in Recorded' /\ (rows[j] # Pending => rows'[j] = rows[j])
  BY <1>1, <1>3 DEF Recorded
<1> QED
  BY <1>1, <1>2, <1>4 DEF Tables, VectorsTell, Grows

LEMMA BuildStep ==
    ASSUME Tables, VectorsTell, NEW i \in Ids, Build(i)
    PROVE  Tables' /\ VectorsTell' /\ Grows /\ UNCHANGED <<rows, vectors>> /\ built' = built \cup {i}
<1>1. rows[i] # None /\ built' = built \cup {i} /\ rows' = rows /\ vectors' = vectors
  BY DEF Build
<1>2. Recorded' = Recorded
  BY <1>1 DEF Recorded
<1> QED
  BY <1>1, <1>2 DEF Tables, VectorsTell, Grows, Recorded

LEMMA RebuildStep ==
    ASSUME Tables, VectorsTell, NEW i \in Ids, Rebuild(i)
    PROVE  /\ Tables' /\ VectorsTell' /\ Grows /\ UNCHANGED <<rows, built>> /\ i \in Recorded
           /\ \A j \in Ids : vectors'[j] = IF j = i THEN FeatureVector(Compose(i)) ELSE vectors[j]
<1>1. /\ i \in Recorded /\ vectors' = [vectors EXCEPT ![i] = FeatureVector(Compose(i))]
      /\ rows' = rows /\ built' = built
  BY DEF Rebuild, Recorded
<1>2. /\ FeatureVector(Compose(i)) \in Embeddings /\ FeatureVector(Compose(i)) # None
      /\ Compose(i).built = (i \in built)
  BY <1>1, ComposeIs, KnowledgeAssumption DEF KnowledgeAssumption
<1> DEFINE vector == FeatureVector(Compose(i))
<1>3. Enriched \in vector => i \in built
  <2>1. Compose(i).built \in BOOLEAN
    BY <1>2
  <2>2. Enriched \in vector <=> Compose(i).built
    BY <2>1, VectorIsEnriched
  <2> QED
    BY <1>2, <2>2
<1>4. vectors' = [vectors EXCEPT ![i] = vector]
  BY <1>1
<1> HIDE DEF vector
<1>5. vector \in Embeddings /\ vector # None
  BY <1>2 DEF vector
<1>6. \A j \in Ids : vectors'[j] = IF j = i THEN vector ELSE vectors[j]
  BY <1>4 DEF Tables
<1>7. Recorded' = Recorded
  BY <1>1 DEF Recorded
<1>8. Tables'
  BY <1>1, <1>4, <1>5, <1>7 DEF Tables
<1>9. VectorsTell'
  BY <1>1, <1>3, <1>6 DEF VectorsTell
<1>10. Grows
  BY <1>1, <1>5, <1>6, <1>7 DEF Grows
<1> QED
  BY <1>1, <1>6, <1>8, <1>9, <1>10 DEF vector

\* A walk that is not touched keeps what it has.
LEMMA WalkKeeps ==
    ASSUME Tables, WalkInv, Grows, walk' = walk, walk # None,
           \A s \in walk.steady : StoodStill(s)'
    PROVE  WalkInv'
<1>1. walk' \in Walks
  BY DEF WalkInv
<1>2. InTurn'
  BY DEF WalkInv, InTurn, IdAt
<1>3. KeptAsIs'
  <2>1. ASSUME NEW n \in 1..Len(walk.got), walk.kind = "dataset",
               NEW record, record = walk.got[n].record
        PROVE  /\ record.id \in Recorded' /\ record.r # None
               /\ record = RecordWith(record.id, rows'[record.id], record.built, record.embedded)
    <3>1. /\ record.id \in Recorded /\ record.r # None
          /\ record = RecordWith(record.id, rows[record.id], record.built, record.embedded)
      BY <2>1 DEF WalkInv, KeptAsIs
    <3>2. rows[record.id] # Pending
      BY <3>1 DEF RecordWith, Pending
    <3>3. record.id \in Recorded' /\ rows'[record.id] = rows[record.id]
      BY <3>1, <3>2 DEF Grows
    <3> QED
      BY <3>1, <3>3
  <2>2. KeptAsIs
    BY DEF WalkInv
  <2> QED
    BY <2>1, <2>2 DEF KeptAsIs
<1>4. TodoIsBuilt'
  BY DEF WalkInv, TodoIsBuilt, Grows
<1>5. ASSUME NEW s \in walk.steady
      PROVE  AccountedFor(s)'
  <2>1. s.id \in Ids /\ AccountedFor(s)
    BY DEF WalkInv, Walks
  <2>2. s.id \in Recorded /\ s.id \in Recorded'
    BY <2>1 DEF AccountedFor, Grows
  <2>3. Ahead(s.id)' <=> Ahead(s.id)
    BY DEF Ahead
  <2>4. \A n : IdAt(n)' = IdAt(n)
    BY DEF IdAt
  <2>5. walk.kind # "backfill" => rows'[s.id] = rows[s.id] /\ (Matches(s.id, walk.filter)' <=> Matches(s.id, walk.filter))
    BY <2>1, <2>2 DEF AccountedFor, Grows, Matches
  <2>6. /\ vectors[s.id] # None => vectors'[s.id] # None
        /\ s.id \in built => s.id \in built'
    BY <2>1 DEF Grows
  <2> QED
    BY <2>1, <2>2, <2>3, <2>4, <2>5, <2>6 DEF AccountedFor
<1> QED
  BY <1>1, <1>2, <1>3, <1>4, <1>5 DEF WalkInv

LEMMA StillStands ==
    ASSUME Tables, VectorsTell, WalkInv, Grows, walk' = walk, walk # None,
           NEW i \in Ids, OneWrite(i), NEW s \in walk.steady
    PROVE  StoodStill(s)'
<1> DEFINE j == s.id
           now(b) == FeatureVector(RecordOf(j, b, TRUE))
<1> SUFFICES ASSUME walk.kind = "similar", s.vector # None
             PROVE  StoodStill(s)'
  BY DEF StoodStill
<1>1. /\ j \in Ids /\ j \in Recorded /\ rows[j] # Pending /\ vectors[j] # None
      /\ AccountedFor(s) /\ StoodStill(s)
  BY DEF WalkInv, Walks, AccountedFor
<1>2. rows'[j] = rows[j]
  BY <1>1 DEF Grows
<1>3. \A b \in BOOLEAN : now(b)' = now(b)
  BY <1>2 DEF RecordOf
<1>4. /\ vectors[j] # s.vector =>
           now(j \in built) # s.vector /\ (j \in built \/ now(TRUE) # s.vector)
      /\ \A n \in 1..Len(walk.got) :
           IdAt(n) = j /\ vectors[j] = s.vector => walk.got[n].vector = s.vector
  BY <1>1 DEF StoodStill
<1>5. SUFFICES
        /\ vectors'[j] # s.vector =>
             FeatureVector(RecordOf(j, j \in built', TRUE)) # s.vector
             /\ (j \in built' \/ now(TRUE) # s.vector)
        /\ vectors'[j] = s.vector => vectors[j] = s.vector
  <2>1. \A n : IdAt(n)' = IdAt(n)
    BY DEF IdAt
  <2>2. FeatureVector(RecordOf(j, j \in built, TRUE))' = FeatureVector(RecordOf(j, j \in built', TRUE))
    BY <1>2 DEF RecordOf
  <2>3. FeatureVector(RecordOf(j, TRUE, TRUE))' = now(TRUE)
    BY <1>2 DEF RecordOf
  <2> QED
    BY <1>4, <1>5, <2>1, <2>2, <2>3 DEF StoodStill
<1>6. CASE vectors' = vectors /\ built' = built
  BY <1>4, <1>6
<1>7. CASE Build(i)
  <2>1. vectors' = vectors /\ built' = built \cup {i}
    BY <1>7 DEF Build
  <2>2. j \in built' <=> j \in built \/ j = i
    BY <2>1
  <2>3. CASE j = i
    <3>1. (j \in built') = TRUE
      BY <2>1, <2>3
    <3>2. FeatureVector(RecordOf(j, j \in built', TRUE)) = now(TRUE)
      BY <3>1
    <3>3. (j \in built) => now(j \in built) = now(TRUE)
      <4>1. (j \in built) => (j \in built) = TRUE
        OBVIOUS
      <4> QED
        BY <4>1
    <3> QED
      BY <1>4, <2>1, <3>1, <3>2, <3>3
  <2>4. CASE j # i
    <3>1. (j \in built') = (j \in built)
      BY <2>1, <2>4
    <3> QED
      BY <1>4, <2>1, <3>1
  <2> QED
    BY <2>3, <2>4
<1>8. CASE Rebuild(i)
  <2>1. /\ built' = built
        /\ \A k \in Ids : vectors'[k] = IF k = i THEN FeatureVector(Compose(i)) ELSE vectors[k]
    BY <1>8, RebuildStep
  <2>2. CASE j = i
    <3>1. vectors'[j] = now(j \in built)
      <4>1. (vectors[j] # None) = TRUE
        BY <1>1
      <4>2. Compose(j) = RecordOf(j, j \in built, TRUE)
        BY <4>1 DEF Compose
      <4> QED
        BY <1>1, <2>1, <2>2, <4>2
    <3>2. vectors[j] = s.vector => j \in built \/ now(TRUE) # s.vector
      <4>1. Enriched \in OneHot("reasoning_present", TRUE)
        BY RetrievalAssumption DEF OneHot, Enriched, RetrievalAssumption
      <4>2. Enriched \in now(TRUE)
        BY <4>1 DEF FeatureVector, RecordOf, RecordWith
      <4>3. vectors[j] = s.vector /\ now(TRUE) = s.vector => j \in built
        BY <1>1, <4>2 DEF VectorsTell
      <4> QED
        BY <4>3
    <3> HIDE DEF now
    <3>3. FeatureVector(RecordOf(j, j \in built', TRUE)) = now(j \in built)
      BY <2>1 DEF now
    <3> QED
      BY <1>4, <2>1, <3>1, <3>2, <3>3
  <2>3. CASE j # i
    BY <1>1, <1>4, <2>1, <2>3
  <2> QED
    BY <2>2, <2>3
<1> QED
  BY <1>6, <1>7, <1>8 DEF OneWrite, Insert, Settle

LEMMA WriteStep ==
    ASSUME IInv, Write
    PROVE  IInv'
<1>1. PICK i \in Ids : OneWrite(i)
  BY DEF Write, OneWrite
<1>2. Tables' /\ VectorsTell' /\ Grows
  BY <1>1, InsertStep, SettleStep, BuildStep, RebuildStep DEF IInv, OneWrite
<1>3. walk' = walk
  BY DEF Write
<1>4. CASE walk = None
  BY <1>2, <1>3, <1>4 DEF IInv, WalkInv
<1>5. CASE walk # None
  <2>1. \A s \in walk.steady : StoodStill(s)'
    BY <1>1, <1>2, <1>3, <1>5, StillStands DEF IInv
  <2>2. WalkInv'
    BY <1>2, <1>3, <1>5, <2>1, WalkKeeps DEF IInv
  <2> QED
    BY <1>2, <2>2 DEF IInv
<1> QED
  BY <1>4, <1>5

-----------------------------------------------------------------------------
(* A page is turned *)

LEMMA OlderOrders ==
    /\ \A i \in Ids : ~Older(i, i)
    /\ \A i, j, k \in Ids : Older(i, j) /\ Older(j, k) => Older(i, k)
    /\ \A i, j \in Ids : i = j \/ Older(i, j) \/ Older(j, i)
<1>1. \A i \in Ids : i \in Nat /\ Context(i).created \in Nat
  BY RetrievalAssumption DEF RetrievalAssumption
<1> QED
  BY <1>1 DEF Older

\* Does the walker keep the record of i?
Keeps(i) ==
    CASE walk.kind = "dataset" -> rows[i].r # None
      [] walk.kind = "similar" -> vectors[i] # None
      [] walk.kind = "backfill" -> i \in built

\* Of the records of the ids those with the ids `kept' are kept.
KeptFrom(kept, ids, records) ==
    /\ records = [k \in 1..Len(kept) |-> Compose(kept[k])]
    /\ Descending(kept)
    /\ \A k \in 1..Len(kept) : Keeps(kept[k]) /\ \E n \in 1..Len(ids) : ids[n] = kept[k]
    /\ \A n \in 1..Len(ids) : Keeps(ids[n]) => \E k \in 1..Len(kept) : kept[k] = ids[n]

LEMMA KeptIs ==
    ASSUME Tables, walk.kind \in {"dataset", "similar", "backfill"},
           NEW ids \in Seq(Recorded), Descending(ids),
           NEW page, page = [k \in 1..Len(ids) |-> Compose(ids[k])]
    PROVE  \E kept \in Seq(Recorded) : KeptFrom(kept, ids, Kept(page))
<1> DEFINE P == {k \in Positions(page) :
                    CASE walk.kind = "dataset" -> page[k].r # None
                      [] walk.kind = "similar" -> vectors[page[k].id] # None
                      [] walk.kind = "backfill" -> page[k].built}
<1>1. Len(ids) \in Nat /\ \A n \in 1..Len(ids) : ids[n] \in Recorded
  OBVIOUS
<1>2. \A n \in 1..Len(ids) :
        /\ page[n] \in Records /\ page[n] = Compose(ids[n])
        /\ page[n].id = ids[n] /\ page[n].r = rows[ids[n]].r
        /\ page[n].built <=> ids[n] \in built
  <2>1. ASSUME NEW n \in 1..Len(ids)
        PROVE  /\ page[n] \in Records /\ page[n] = Compose(ids[n])
               /\ page[n].id = ids[n] /\ page[n].r = rows[ids[n]].r
               /\ page[n].built <=> ids[n] \in built
    <3>1. page[n] = Compose(ids[n]) /\ ids[n] \in Recorded
      BY <1>1
    <3> QED
      BY <3>1, ComposeIs
  <2> QED
    BY <2>1
<1>3. page \in Seq(Records) /\ Len(page) = Len(ids)
  BY <1>1, <1>2
<1>4. \A n \in 1..Len(ids) : n \in P <=> Keeps(ids[n])
  BY <1>2, <1>3 DEF Positions, Keeps
<1>5. Kept(page) = Picked(page, P) /\ P \in SUBSET (1..Len(page))
  BY DEF Kept, Positions
<1> HIDE DEF P
<1>6. PICK at \in Seq(P) :
        /\ Picked(page, P) \in Seq(Records) /\ Len(Picked(page, P)) = Len(at) /\ Len(at) = Cardinality(P)
        /\ \A n \in 1..Len(at) : Picked(page, P)[n] = page[at[n]]
        /\ \A k \in P : \E n \in 1..Len(at) : at[n] = k
        /\ \A m, n \in 1..Len(at) : m < n => at[m] < at[n]
  <2>1. P \in SUBSET (1..Len(page)) /\ page \in Seq(Records)
    BY <1>3, <1>5
  <2>2. Picked(page, P) \in Seq(Records) /\ IsPart(Picked(page, P), page, P)
    BY <2>1, PickedIs
  <2> QED
    BY <2>2 DEF IsPart
<1> DEFINE kept == [n \in 1..Len(at) |-> ids[at[n]]]
<1>7. Len(at) \in Nat /\ \A n \in 1..Len(at) : at[n] \in P /\ at[n] \in 1..Len(ids)
  <2>1. P \subseteq 1..Len(ids)
    BY <1>3, <1>5
  <2>2. Len(at) \in Nat /\ \A n \in 1..Len(at) : at[n] \in P
    OBVIOUS
  <2> QED
    BY <2>1, <2>2
<1>8. kept \in Seq(Recorded) /\ Len(kept) = Len(at) /\ \A n \in 1..Len(at) : kept[n] = ids[at[n]]
  BY <1>1, <1>7
<1> HIDE DEF kept
<1>9. Kept(page) = [k \in 1..Len(kept) |-> Compose(kept[k])]
  <2>1. \A n \in 1..Len(at) : Kept(page)[n] = Compose(kept[n])
    BY <1>2, <1>5, <1>6, <1>7, <1>8
  <2>2. Kept(page) \in Seq(Records) /\ Len(Kept(page)) = Len(kept)
    BY <1>5, <1>6, <1>8
  <2> QED
    BY <1>8, <2>1, <2>2
<1>10. Descending(kept)
  <2>1. ASSUME NEW m \in 1..Len(kept), NEW n \in 1..Len(kept), m < n
        PROVE  Older(kept[n], kept[m])
    <3>1. at[m] \in 1..Len(ids) /\ at[n] \in 1..Len(ids) /\ at[m] < at[n]
      BY <1>6, <1>7, <1>8, <2>1
    <3>2. Older(ids[at[n]], ids[at[m]])
      BY <3>1 DEF Descending
    <3> QED
      BY <1>8, <3>2
  <2> QED
    BY <2>1 DEF Descending
<1>11. \A k \in 1..Len(kept) : Keeps(kept[k]) /\ \E n \in 1..Len(ids) : ids[n] = kept[k]
  BY <1>4, <1>7, <1>8
<1>12. ASSUME NEW n \in 1..Len(ids), Keeps(ids[n])
       PROVE  \E k \in 1..Len(kept) : kept[k] = ids[n]
  BY <1>4, <1>6, <1>8, <1>12
<1> QED
  BY <1>8, <1>9, <1>10, <1>11, <1>12 DEF KeptFrom

\* What a page adds to a walk.
Added(kept) == [k \in 1..Len(kept) |-> [record |-> Compose(kept[k]), vector |-> vectors[kept[k]]]]

\* The walk has taken the records kept of a page, after which comes `next'.
Took(kept, next) ==
    LET all == walk.got \o Added(kept)
        full == walk.kind = "similar" /\ Len(all) >= CandidateCap
    IN  walk' = [walk EXCEPT
            !.got = IF full THEN SubSeq(all, 1, CandidateCap) ELSE all,
            !.todo = IF walk.kind = "backfill" THEN [k \in 1..Len(kept) |-> Compose(kept[k])] ELSE <<>>,
            !.cursor = next,
            !.ended = full \/ next = None]

\* The page has the next records that match, and what it leaves comes after it.
IsPage(kept, next) ==
    LET matched == Matched(walk.filter, walk.cursor)
    IN  /\ Descending(kept)
        /\ \A k \in 1..Len(kept) : kept[k] \in matched /\ Keeps(kept[k])
        /\ \A i \in matched :
             Keeps(i) => \/ \E k \in 1..Len(kept) : kept[k] = i
                         \/ next # None /\ Older(i, next)
        /\ next # None =>
             /\ next \in matched
             /\ \A k \in 1..Len(kept) : kept[k] = next \/ Older(next, kept[k])

LEMMA TurnPageIs ==
    ASSUME IInv, TurnPage
    PROVE  \E kept \in Seq(Recorded) : \E next \in Ids \cup {None} : IsPage(kept, next) /\ Took(kept, next)
<1> DEFINE page == Search(walk.filter, PageSize, walk.cursor)
           matched == Matched(walk.filter, walk.cursor)
           next == page.next
<1>1. walk # None /\ walk \in Walks /\ Tables
  BY DEF TurnPage, IInv, WalkInv
<1>2. walk.kind \in {"dataset", "similar", "backfill"}
  BY <1>1 DEF Walks
<1>3. matched \subseteq Recorded /\ Recorded \subseteq Ids
  BY DEF Matched, Recorded
<1>4. PageSize \in Nat \ {0}
  BY KnowledgeAssumption DEF KnowledgeAssumption
<1>5. PICK ids \in Seq(matched) :
        /\ page.records = [k \in 1..Len(ids) |-> Compose(ids[k])]
        /\ Descending(ids)
        /\ next # None => ids # <<>> /\ next = ids[Len(ids)]
        /\ \A i \in matched : (\E k \in 1..Len(ids) : ids[k] = i) \/ (next # None /\ Older(i, next))
  BY <1>4, SearchIs
<1>6. /\ ids \in Seq(Recorded) /\ Len(ids) \in Nat
      /\ \A n \in 1..Len(ids) : ids[n] \in matched
      /\ ids # <<>> => Len(ids) \in 1..Len(ids)
  BY <1>3
<1>7. PICK kept \in Seq(Recorded) :
        /\ Kept(page.records) = [k \in 1..Len(kept) |-> Compose(kept[k])]
        /\ Descending(kept)
        /\ \A k \in 1..Len(kept) : Keeps(kept[k]) /\ \E n \in 1..Len(ids) : ids[n] = kept[k]
        /\ \A n \in 1..Len(ids) : Keeps(ids[n]) => \E k \in 1..Len(kept) : kept[k] = ids[n]
  <2>1. \E kept \in Seq(Recorded) : KeptFrom(kept, ids, Kept(page.records))
    BY <1>1, <1>2, <1>5, <1>6, KeptIs
  <2> QED
    BY <2>1 DEF KeptFrom
<1> DEFINE records == Kept(page.records)
<1>8. /\ Len(records) = Len(kept) /\ Len(kept) \in Nat
      /\ \A k \in 1..Len(kept) : records[k] = Compose(kept[k])
  BY <1>7
<1>9. [k \in 1..Len(records) |-> [record |-> records[k], vector |-> vectors[records[k].id]]] = Added(kept)
  <2>1. ASSUME NEW k \in 1..Len(kept)
        PROVE  records[k] = Compose(kept[k]) /\ records[k].id = kept[k]
    <3>1. kept[k] \in Recorded
      OBVIOUS
    <3>2. Compose(kept[k]).id = kept[k]
      BY <1>1, <3>1, ComposeIs
    <3> QED
      BY <1>8, <3>2
  <2> QED
    BY <1>8, <2>1 DEF Added
<1>10. Took(kept, next)
  BY <1>7, <1>9 DEF TurnPage, Took
<1>11. next \in Ids \cup {None}
  BY <1>3, <1>5, <1>6
<1> HIDE DEF next, matched
<1>12. ASSUME next # None
       PROVE  /\ next \in matched
              /\ \A k \in 1..Len(kept) : kept[k] = next \/ Older(next, kept[k])
  <2>1. next = ids[Len(ids)] /\ Len(ids) \in 1..Len(ids) /\ next \in matched
    BY <1>5, <1>6, <1>12
  <2>2. ASSUME NEW k \in 1..Len(kept)
        PROVE  kept[k] = next \/ Older(next, kept[k])
    <3>1. PICK n \in 1..Len(ids) : ids[n] = kept[k]
      BY <1>7
    <3>2. n = Len(ids) \/ Older(ids[Len(ids)], ids[n])
      BY <1>5, <1>6, <2>1 DEF Descending
    <3> QED
      BY <2>1, <3>1, <3>2
  <2> QED
    BY <2>1, <2>2
<1>13. IsPage(kept, next)
  <2>1. \A k \in 1..Len(kept) : kept[k] \in matched /\ Keeps(kept[k])
    BY <1>6, <1>7
  <2>2. ASSUME NEW i \in matched, Keeps(i)
        PROVE  (\E k \in 1..Len(kept) : kept[k] = i) \/ (next # None /\ Older(i, next))
    <3>1. ASSUME NEW n \in 1..Len(ids), ids[n] = i
          PROVE  \E k \in 1..Len(kept) : kept[k] = i
      <4>1. Keeps(ids[n])
        BY <2>2, <3>1
      <4>2. PICK k \in 1..Len(kept) : kept[k] = ids[n]
        BY <1>7, <4>1
      <4> QED
        BY <3>1, <4>2
    <3> QED
      BY <1>5, <3>1
  <2> QED
    BY <1>7, <1>12, <2>1, <2>2 DEF IsPage, matched
<1> QED
  BY <1>10, <1>11, <1>13

LEMMA TakenIs ==
    ASSUME NEW all \in Seq(Entries),
           \A m, n \in 1..Len(all) : m < n => Older(all[n].record.id, all[m].record.id),
           NEW cap \in Nat \ {0}, Len(all) >= cap, NEW taken, taken = SubSeq(all, 1, cap)
    PROVE  /\ taken \in Seq(Entries) /\ Len(taken) = cap
           /\ \A n \in 1..cap : n \in 1..Len(all) /\ taken[n] = all[n]
           /\ \A n \in 1..Len(all) : n \in 1..cap \/ Older(all[n].record.id, taken[cap].record.id)
<1>1. Len(all) \in Nat /\ cap \in 1..Len(all)
  OBVIOUS
<1>2. /\ taken \in Seq(Entries) /\ Len(taken) = cap
      /\ \A n \in 1..cap : n \in 1..Len(all) /\ taken[n] = all[n]
  BY <1>1
<1>3. ASSUME NEW n \in 1..Len(all), n \notin 1..cap
      PROVE  Older(all[n].record.id, taken[cap].record.id)
  <2>1. cap < n /\ taken[cap] = all[cap]
    BY <1>1, <1>2, <1>3
  <2> QED
    BY <1>1, <2>1
<1> QED
  BY <1>2, <1>3

\* The walk with the records of the page, the new behind the old.
LEMMA TookIs ==
    ASSUME IInv, TurnPage, NEW kept \in Seq(Recorded), NEW next \in Ids \cup {None},
           IsPage(kept, next), NEW all, all = walk.got \o Added(kept)
    PROVE  /\ all \in Seq(Entries) /\ Len(all) \in Nat /\ Len(walk.got) \in Nat /\ Len(kept) \in Nat
           /\ Len(all) = Len(walk.got) + Len(kept)
           /\ \A n \in 1..Len(walk.got) : n \in 1..Len(all) /\ all[n] = walk.got[n]
           /\ \A k \in 1..Len(kept) :
                /\ Len(walk.got) + k \in 1..Len(all)
                /\ all[Len(walk.got) + k] = [record |-> Compose(kept[k]), vector |-> vectors[kept[k]]]
                /\ all[Len(walk.got) + k].record.id = kept[k]
           /\ \A n \in 1..Len(all) :
                n \in 1..Len(walk.got) \/ \E k \in 1..Len(kept) : n = Len(walk.got) + k
           /\ \A m, n \in 1..Len(all) : m < n => Older(all[n].record.id, all[m].record.id)
           /\ next # None =>
                \A n \in 1..Len(all) : all[n].record.id = next \/ Older(next, all[n].record.id)
<1> DEFINE got == walk.got
           added == Added(kept)
           g == Len(got)
           c == Len(kept)
<1>1. /\ walk # None /\ walk \in Walks /\ Tables /\ InTurn /\ ~walk.ended
      /\ got \in Seq(Entries) /\ walk.cursor \in Ids \cup {None}
  BY DEF TurnPage, IInv, WalkInv, Walks, Entries
<1>2. g \in Nat /\ c \in Nat /\ Recorded \subseteq Ids
  BY <1>1 DEF Recorded
<1>3. ASSUME NEW k \in 1..c
      PROVE  /\ kept[k] \in Ids
             /\ added[k] = [record |-> Compose(kept[k]), vector |-> vectors[kept[k]]]
             /\ added[k] \in Entries /\ added[k].record.id = kept[k]
  <2>1. kept[k] \in Recorded /\ kept[k] \in Ids
    BY <1>2
  <2>2. Compose(kept[k]) \in Records /\ Compose(kept[k]).id = kept[k]
    BY <1>1, <2>1, ComposeIs
  <2>3. vectors[kept[k]] \in Embeddings \cup {None}
    BY <1>1, <2>1 DEF Tables
  <2>4. added[k] = [record |-> Compose(kept[k]), vector |-> vectors[kept[k]]]
    BY DEF Added
  <2> QED
    BY <2>1, <2>2, <2>3, <2>4 DEF Entries
<1>4. added \in Seq(Entries) /\ Len(added) = c
  BY <1>2, <1>3 DEF Added
<1>14. all = got \o added
  OBVIOUS
<1>15. got \in Seq(Entries)
  BY <1>1
<1> HIDE DEF added, got
<1>5. /\ all \in Seq(Entries) /\ Len(all) \in Nat /\ Len(all) = g + c
      /\ \A n \in 1..g : n \in 1..Len(all) /\ all[n] = got[n]
      /\ \A k \in 1..c : g + k \in 1..Len(all) /\ all[g + k] = added[k]
  <2>7. got \o added \in Seq(Entries) /\ Len(got \o added) = Len(got) + Len(added)
    BY <1>4, <1>15, ConcatProperties
  <2>1. all \in Seq(Entries) /\ Len(all) = g + c
    BY <1>4, <1>14, <2>7
  <2>2. \A n \in 1..(g + c) : all[n] = IF n <= g THEN got[n] ELSE added[n - g]
    BY <1>4, <1>14, <1>15, ConcatProperties
  <2>3. ASSUME NEW k \in 1..c
        PROVE  g + k \in 1..(g + c) /\ ~(g + k <= g) /\ (g + k) - g = k
    BY <1>2
  <2>4. \A n \in 1..g : n \in 1..(g + c) /\ n <= g
    BY <1>2
  <2> HIDE DEF g, c
  <2>5. \A k \in 1..c : g + k \in 1..Len(all) /\ all[g + k] = added[k]
    BY <2>1, <2>2, <2>3
  <2>6. \A n \in 1..g : n \in 1..Len(all) /\ all[n] = got[n]
    BY <2>1, <2>2, <2>4
  <2>8. Len(all) \in Nat
    BY <1>2, <2>1
  <2> QED
    BY <2>1, <2>5, <2>6, <2>8
<1>6. ASSUME NEW n \in 1..Len(all)
      PROVE  n \in 1..g \/ \E k \in 1..c : n = g + k
  <2>1. CASE n <= g
    BY <1>2, <2>1
  <2>2. CASE n > g
    <3>1. n - g \in 1..c /\ n = g + (n - g)
      BY <1>2, <1>5, <2>2
    <3> QED
      BY <3>1
  <2> QED
    BY <1>2, <1>5, <2>1, <2>2
<1>7. /\ \A m, n \in 1..g : m < n => Older(got[n].record.id, got[m].record.id)
      /\ walk.cursor # None =>
           \A n \in 1..g : got[n].record.id = walk.cursor \/ Older(walk.cursor, got[n].record.id)
      /\ walk.cursor = None => g = 0
  BY <1>1 DEF InTurn, IdAt, got
<1>8. \A n \in 1..g : got[n].record.id \in Ids
  <2>1. ASSUME NEW n \in 1..g
        PROVE  got[n].record \in Records
    <3>1. got[n] \in Entries
      BY <1>1 DEF got
    <3> QED
      BY <3>1 DEF Entries
  <2> QED
    BY <2>1, RecordIs
<1>9. \A i \in Matched(walk.filter, walk.cursor) :
        i \in Ids /\ (walk.cursor # None => Older(i, walk.cursor))
  BY DEF Matched, Recorded
<1>10. \A i \in Matched(walk.filter, walk.cursor), n \in 1..g : Older(i, got[n].record.id)
  <2>1. ASSUME NEW i \in Matched(walk.filter, walk.cursor), NEW n \in 1..g
        PROVE  Older(i, got[n].record.id)
    <3>1. walk.cursor # None /\ walk.cursor \in Ids
      BY <1>1, <1>7
    <3>2. Older(i, walk.cursor) /\ i \in Ids /\ got[n].record.id \in Ids
      BY <1>8, <1>9, <3>1
    <3>3. got[n].record.id = walk.cursor \/ Older(walk.cursor, got[n].record.id)
      BY <1>7, <3>1
    <3> QED
      BY <3>1, <3>2, <3>3, OlderOrders
  <2> QED
    BY <2>1
<1>11. ASSUME NEW m \in 1..Len(all), NEW n \in 1..Len(all), m < n
       PROVE  Older(all[n].record.id, all[m].record.id)
  <2>1. CASE n \in 1..g
    <3>1. m \in 1..g
      BY <1>2, <1>5, <1>11, <2>1
    <3> QED
      BY <1>5, <1>7, <1>11, <2>1, <3>1
  <2>2. ASSUME NEW k \in 1..c, n = g + k
        PROVE  Older(all[n].record.id, all[m].record.id)
    <3>1. all[n].record.id = kept[k] /\ kept[k] \in Matched(walk.filter, walk.cursor)
      BY <1>3, <1>5, <2>2 DEF IsPage
    <3>2. CASE m \in 1..g
      BY <1>5, <1>10, <3>1, <3>2
    <3>3. ASSUME NEW j \in 1..c, m = g + j
          PROVE  Older(all[n].record.id, all[m].record.id)
      <4>1. j < k
        BY <1>2, <1>11, <2>2, <3>3
      <4>3. all[m].record.id = kept[j]
        BY <1>3, <1>5, <3>3
      <4>2. Older(kept[k], kept[j])
        BY <4>1 DEF IsPage, Descending
      <4> QED
        BY <3>1, <4>2, <4>3
    <3> QED
      BY <1>6, <3>2, <3>3
  <2> QED
    BY <1>6, <2>1, <2>2
<1>12. ASSUME next # None, NEW n \in 1..Len(all)
       PROVE  all[n].record.id = next \/ Older(next, all[n].record.id)
  <2>1. next \in Matched(walk.filter, walk.cursor)
    BY <1>12 DEF IsPage
  <2>2. CASE n \in 1..g
    BY <1>5, <1>10, <2>1, <2>2
  <2>3. ASSUME NEW k \in 1..c, n = g + k
        PROVE  all[n].record.id = next \/ Older(next, all[n].record.id)
    <3>1. all[n].record.id = kept[k]
      BY <1>3, <1>5, <2>3
    <3> QED
      BY <1>12, <3>1 DEF IsPage
  <2> QED
    BY <1>6, <2>2, <2>3
<1>13. \A k \in 1..c :
         /\ g + k \in 1..Len(all)
         /\ all[g + k] = [record |-> Compose(kept[k]), vector |-> vectors[kept[k]]]
         /\ all[g + k].record.id = kept[k]
  BY <1>3, <1>5
<1> QED
  BY <1>2, <1>5, <1>6, <1>11, <1>12, <1>13 DEF got

LEMMA MatchesAny ==
    ASSUME NEW i
    PROVE  Matches(i, AnyRecord)
<1>1. NormalizedOutcome(None) = None
  BY RetrievalAssumption DEF NormalizedOutcome, RetrievalAssumption, TradeResults
<1> QED
  BY <1>1 DEF Matches, AnyRecord

LEMMA TurnPageStep ==
    ASSUME IInv, TurnPage
    PROVE  IInv' /\ walk' # None
<1>1. /\ walk # None /\ walk \in Walks /\ Tables /\ VectorsTell /\ ~walk.ended /\ walk.todo = <<>>
      /\ InTurn /\ KeptAsIs /\ UNCHANGED <<rows, built, vectors>>
      /\ \A s \in walk.steady : AccountedFor(s) /\ StoodStill(s)
  BY DEF TurnPage, IInv, WalkInv
<1>2. PICK kept \in Seq(Recorded), next \in Ids \cup {None} : IsPage(kept, next) /\ Took(kept, next)
  BY TurnPageIs
<1> DEFINE all == walk.got \o Added(kept)
           full == walk.kind = "similar" /\ Len(all) >= CandidateCap
           got == IF full THEN SubSeq(all, 1, CandidateCap) ELSE all
           todo == IF walk.kind = "backfill" THEN [k \in 1..Len(kept) |-> Compose(kept[k])] ELSE <<>>
           g == Len(walk.got)
           c == Len(kept)
           id(n) == all[n].record.id
<1>3. walk' = [walk EXCEPT !.got = got, !.todo = todo, !.cursor = next, !.ended = full \/ next = None]
  BY <1>2 DEF Took
<1>4. /\ all \in Seq(Entries) /\ Len(all) \in Nat /\ g \in Nat /\ c \in Nat
      /\ Len(all) = g + c
      /\ \A n \in 1..g : n \in 1..Len(all) /\ all[n] = walk.got[n]
      /\ \A k \in 1..c :
           /\ g + k \in 1..Len(all)
           /\ all[g + k] = [record |-> Compose(kept[k]), vector |-> vectors[kept[k]]]
           /\ id(g + k) = kept[k]
      /\ \A n \in 1..Len(all) : n \in 1..g \/ \E k \in 1..c : n = g + k
      /\ \A m, n \in 1..Len(all) : m < n => Older(id(n), id(m))
      /\ next # None => \A n \in 1..Len(all) : id(n) = next \/ Older(next, id(n))
  BY <1>2, TookIs
<1>5. \A k \in 1..c : kept[k] \in Recorded /\ kept[k] \in Ids /\ Keeps(kept[k])
  BY <1>2, <1>4 DEF IsPage, Recorded
<1>cap. CandidateCap \in Nat \ {0}
  BY KnowledgeAssumption DEF KnowledgeAssumption
<1> HIDE DEF all
<1>6. /\ got \in Seq(Entries) /\ Len(got) \in Nat
      /\ \A n \in 1..Len(got) : n \in 1..Len(all) /\ got[n] = all[n]
      /\ ~full => got = all
      /\ full => /\ Len(got) = CandidateCap /\ Len(got) \in 1..Len(got)
                 /\ \A n \in 1..Len(all) : n \in 1..Len(got) \/ Older(id(n), got[Len(got)].record.id)
  <2>1. CASE full
    <3>1. Len(all) >= CandidateCap /\ got = SubSeq(all, 1, CandidateCap)
      BY <2>1
    <3> HIDE DEF got
    <3>2. /\ got \in Seq(Entries) /\ Len(got) = CandidateCap
          /\ \A n \in 1..CandidateCap : n \in 1..Len(all) /\ got[n] = all[n]
          /\ \A n \in 1..Len(all) : n \in 1..CandidateCap \/ Older(all[n].record.id, got[CandidateCap].record.id)
      BY <1>4, <1>cap, <3>1, TakenIs
    <3> QED
      BY <1>cap, <2>1, <3>2
  <2>2. CASE ~full
    BY <1>4, <2>2
  <2> QED
    BY <2>1, <2>2
<1>7. todo \in Seq(Records) /\ (walk.kind # "backfill" => todo = <<>>)
      /\ (walk.kind = "backfill" => Len(todo) = c /\ \A k \in 1..c : todo[k] = Compose(kept[k]))
  <2>1. \A k \in 1..c : Compose(kept[k]) \in Records
    BY <1>1, <1>5, ComposeIs
  <2>2. [k \in 1..c |-> Compose(kept[k])] \in Seq(Records)
    BY <1>4, <2>1
  <2>3. <<>> \in Seq(Records)
    OBVIOUS
  <2> QED
    BY <1>4, <2>2, <2>3
<1> HIDE DEF got, todo
<1>8. /\ walk'.got = got /\ walk'.todo = todo /\ walk'.cursor = next
      /\ walk'.ended = (full \/ next = None)
      /\ walk'.kind = walk.kind /\ walk'.filter = walk.filter /\ walk'.self = walk.self
      /\ walk'.failed = walk.failed /\ walk'.query = walk.query /\ walk'.steady = walk.steady
  BY <1>1, <1>3 DEF Walks
<1>ended. walk'.ended <=> full \/ next = None
  <2> HIDE DEF full
  <2> QED
    BY <1>8
<1>9. walk' \in Walks
  <2>1. (full \/ next = None) \in BOOLEAN
    OBVIOUS
  <2> HIDE DEF full
  <2> QED
    BY <1>1, <1>2, <1>3, <1>6, <1>7, <2>1 DEF Walks, Entries
<1>10. walk' # None
  BY <1>9, KnowledgeAssumption DEF KnowledgeAssumption
<1>11. \A n \in 1..Len(got) : IdAt(n)' = id(n) /\ id(n) = got[n].record.id
  BY <1>6, <1>8 DEF IdAt
<1> HIDE DEF full
<1>12. InTurn'
  <2>1. ASSUME NEW m \in 1..Len(got), NEW n \in 1..Len(got), m < n
        PROVE  Older(IdAt(n)', IdAt(m)')
    <3>1. m \in 1..Len(all) /\ n \in 1..Len(all)
      BY <1>6
    <3> QED
      BY <1>4, <1>11, <2>1, <3>1
  <2>2. ASSUME next # None, NEW n \in 1..Len(got)
        PROVE  IdAt(n)' = next \/ Older(next, IdAt(n)')
    <3>1. n \in 1..Len(all)
      BY <1>6
    <3> QED
      BY <1>4, <1>11, <2>2, <3>1
  <2> QED
    BY <1>1, <1>7, <1>8, <2>1, <2>2 DEF InTurn
\* An entry is an old one or a new one.
<1>13. ASSUME NEW n \in 1..Len(got)
       PROVE  \/ n \in 1..g /\ got[n] = walk.got[n]
              \/ \E k \in 1..c : got[n] = [record |-> Compose(kept[k]), vector |-> vectors[kept[k]]]
  <2>1. n \in 1..Len(all) /\ got[n] = all[n]
    BY <1>6
  <2> QED
    BY <1>4, <2>1
<1>14. KeptAsIs'
  <2>1. ASSUME NEW n \in 1..Len(got), NEW record, record = got[n].record
        PROVE  /\ walk.kind = "dataset" =>
                    /\ record.id \in Recorded /\ record.r # None
                    /\ record = RecordWith(record.id, rows[record.id], record.built, record.embedded)
               /\ walk.kind = "similar" => got[n].vector # None
    <3>1. CASE n \in 1..g /\ got[n] = walk.got[n]
      BY <1>1, <2>1, <3>1 DEF KeptAsIs
    <3>2. ASSUME NEW k \in 1..c,
                 got[n] = [record |-> Compose(kept[k]), vector |-> vectors[kept[k]]]
          PROVE  /\ walk.kind = "dataset" =>
                      /\ record.id \in Recorded /\ record.r # None
                      /\ record = RecordWith(record.id, rows[record.id], record.built, record.embedded)
                 /\ walk.kind = "similar" => got[n].vector # None
      <4>1. record = Compose(kept[k]) /\ got[n].vector = vectors[kept[k]]
        BY <2>1, <3>2
      <4>2. kept[k] \in Recorded /\ Keeps(kept[k])
        BY <1>5
      <4>3. /\ record.id = kept[k] /\ record.r = rows[kept[k]].r
            /\ record = RecordWith(kept[k], rows[kept[k]], record.built, record.embedded)
        BY <1>1, <4>1, <4>2, ComposeIs
      <4> QED
        BY <4>1, <4>2, <4>3 DEF Keeps
    <3> QED
      BY <1>13, <3>1, <3>2
  <2>2. Recorded' = Recorded
    BY <1>1 DEF Recorded
  <2> QED
    BY <1>1, <1>8, <2>1, <2>2 DEF KeptAsIs
<1>15. TodoIsBuilt'
  <2>1. ASSUME walk.kind = "backfill", NEW k \in 1..c
        PROVE  todo[k].built /\ todo[k].id \in built
    <3>1. kept[k] \in Recorded /\ kept[k] \in built
      BY <1>5, <2>1 DEF Keeps
    <3> QED
      BY <1>1, <1>7, <2>1, <3>1, ComposeIs
  <2> QED
    BY <1>1, <1>7, <1>8, <2>1 DEF TodoIsBuilt
\* What was kept so far or is kept now is in the new list, or beyond the cap.
<1>16. ASSUME NEW n \in 1..Len(all)
       PROVE  \/ \E m \in 1..Len(got) : IdAt(m)' = id(n)
              \/ full /\ Len(got) >= CandidateCap /\ Older(id(n), got[Len(got)].record.id)
  <2>1. CASE ~full
    BY <1>6, <1>11, <2>1
  <2>2. CASE full /\ n \in 1..Len(got)
    BY <1>6, <1>11, <2>2
  <2>3. CASE full /\ n \notin 1..Len(got)
    BY <1>6, <1>cap, <2>3
  <2> QED
    BY <2>1, <2>2, <2>3
<1>17. \A n \in 1..Len(all) : id(n) \in Ids
  <2>1. ASSUME NEW n \in 1..Len(all)
        PROVE  id(n) \in Ids
    <3>1. all[n] \in Entries
      BY <1>4
    <3>2. all[n].record \in Records
      BY <3>1 DEF Entries
    <3> QED
      BY <3>2, RecordIs
  <2> QED
    BY <2>1
<1>18. ASSUME NEW s \in walk.steady
       PROVE  AccountedFor(s)'
  <2> DEFINE i == s.id
  <2>1. i \in Ids /\ i \in Recorded /\ AccountedFor(s)
    BY <1>1 DEF AccountedFor, Recorded
  <2>2. Ahead(i)' <=> ~full /\ next # None /\ Older(i, next)
    BY <1>8, <1>ended DEF Ahead
  <2>3. Recorded' = Recorded
    BY <1>1 DEF Recorded
  <2>4. Matches(i, walk.filter)' <=> Matches(i, walk.filter)
    BY <1>1, <1>8 DEF Matches
  <2>5. Matches(i, walk.filter)
    <3>1. CASE walk.kind = "backfill"
      BY <1>1, <3>1, MatchesAny DEF InTurn
    <3>2. CASE walk.kind # "backfill"
      BY <2>1, <3>2 DEF AccountedFor
    <3> QED
      BY <3>1, <3>2
  <2> DEFINE onPage == \E k \in 1..c : kept[k] = i
             later == next # None /\ Older(i, next)
             listed == \E n \in 1..Len(got) : IdAt(n)' = i
             beyond == full /\ Len(got) >= CandidateCap /\ Older(i, got[Len(got)].record.id)
  <2>6. Ahead(i) /\ Keeps(i) => onPage \/ later
    <3>1. Ahead(i) => i \in Matched(walk.filter, walk.cursor)
      BY <2>1, <2>5 DEF Ahead, Matched
    <3> QED
      BY <1>2, <3>1 DEF IsPage
  <2>7. ASSUME NEW n \in 1..Len(all), id(n) = i
        PROVE  listed \/ beyond
    BY <1>16, <2>7
  <2>8. onPage => listed \/ beyond
    <3>1. ASSUME NEW k \in 1..c, kept[k] = i
          PROVE  listed \/ beyond
      <4>1. g + k \in 1..Len(all) /\ id(g + k) = i
        BY <1>4, <3>1
      <4> QED
        BY <2>7, <4>1
    <3> QED
      BY <3>1
  <2>9. (\E n \in 1..g : IdAt(n) = i) => listed \/ beyond
    <3>1. ASSUME NEW n \in 1..g, IdAt(n) = i
          PROVE  listed \/ beyond
      <4>1. n \in 1..Len(all) /\ id(n) = i
        BY <1>4, <3>1 DEF IdAt
      <4> QED
        BY <2>7, <4>1
    <3> QED
      BY <3>1
  <2>10. ASSUME full, NEW j \in Ids, Older(i, j),
                j = got[Len(got)].record.id \/ Older(j, got[Len(got)].record.id)
         PROVE  beyond
    <3>1. Len(got) = CandidateCap /\ Len(got) \in 1..Len(got) /\ CandidateCap \in Nat
      BY <1>6, <1>cap, <2>10
    <3>2. got[Len(got)].record.id \in Ids
      BY <1>6, <1>11, <1>17, <3>1
    <3>3. Older(i, got[Len(got)].record.id)
      BY <2>1, <2>10, <3>2, OlderOrders
    <3> QED
      BY <2>10, <3>1, <3>3
  <2>11. full /\ later => beyond
    <3>1. ASSUME full, later
          PROVE  beyond
      <4>1. Len(got) \in 1..Len(got) /\ Len(got) \in 1..Len(all) /\ next \in Ids
        BY <1>2, <1>6, <3>1
      <4>2. got[Len(got)].record.id = id(Len(got))
        BY <1>11, <4>1
      <4>3. next = got[Len(got)].record.id \/ Older(next, got[Len(got)].record.id)
        BY <1>4, <3>1, <4>1, <4>2
      <4> QED
        BY <2>10, <3>1, <4>1, <4>3
    <3> QED
      BY <3>1
  <2>12. Len(walk.got) >= CandidateCap /\ Older(i, IdAt(Len(walk.got))) /\ walk.kind = "similar" => beyond
    <3>1. ASSUME Len(walk.got) >= CandidateCap, Older(i, IdAt(Len(walk.got))), walk.kind = "similar"
          PROVE  beyond
      <4>1. full /\ Len(got) = CandidateCap /\ Len(got) \in 1..g /\ g \in 1..g
        BY <1>4, <1>6, <1>cap, <3>1 DEF full
      <4>2. /\ IdAt(g) = id(g) /\ g \in 1..Len(all) /\ Len(got) \in 1..Len(all)
            /\ id(Len(got)) = got[Len(got)].record.id
        BY <1>4, <1>6, <4>1 DEF IdAt
      <4>3. IdAt(g) \in Ids
        BY <1>17, <4>2
      <4>4. id(g) = id(Len(got)) \/ Older(id(g), id(Len(got)))
        BY <1>4, <4>1, <4>2
      <4> QED
        BY <2>10, <3>1, <4>1, <4>2, <4>3, <4>4
    <3> QED
      BY <3>1
  <2>13. full => walk.kind = "similar"
    BY DEF full
  <2> HIDE DEF onPage, later, listed, beyond
  <2>14. (Ahead(i) \/ \E n \in 1..g : IdAt(n) = i) /\ Keeps(i) => listed \/ beyond \/ Ahead(i)'
    BY <2>2, <2>6, <2>8, <2>9, <2>11 DEF later
  <2>15. walk.kind = "dataset" => rows[i].r = None \/ Ahead(i)' \/ listed
    BY <2>1, <2>13, <2>14 DEF AccountedFor, Keeps, beyond
  <2>16. walk.kind = "similar" /\ s.vector # None => vectors[i] # None /\ (Ahead(i)' \/ listed \/ beyond)
    BY <2>1, <2>12, <2>14 DEF AccountedFor, Keeps
  <2>17. walk.kind = "backfill" =>
           /\ i \in built
           /\ Ahead(i)' \/ (\E n \in 1..Len(todo) : todo[n].id = i) \/ vectors[i] # None \/ i \in walk.failed
    <3>1. SUFFICES ASSUME walk.kind = "backfill"
                   PROVE  /\ i \in built
                          /\ \/ Ahead(i)' \/ \E n \in 1..Len(todo) : todo[n].id = i
                             \/ vectors[i] # None \/ i \in walk.failed
      OBVIOUS
    <3>2. i \in built /\ (Ahead(i) \/ vectors[i] # None \/ i \in walk.failed)
      BY <1>1, <2>1, <3>1 DEF AccountedFor
    <3>3. Ahead(i) => onPage \/ later
      BY <2>6, <3>1, <3>2 DEF Keeps
    <3>4. later => Ahead(i)'
      BY <2>2, <2>13, <3>1 DEF later
    <3>5. onPage => \E n \in 1..Len(todo) : todo[n].id = i
      <4>1. ASSUME NEW k \in 1..c, kept[k] = i
            PROVE  todo[k].id = i /\ k \in 1..Len(todo)
        <5>1. todo[k] = Compose(i) /\ k \in 1..Len(todo)
          BY <1>7, <3>1, <4>1
        <5> QED
          BY <1>1, <2>1, <5>1, ComposeIs
      <4> QED
        BY <4>1 DEF onPage
    <3> QED
      BY <3>2, <3>3, <3>4, <3>5
  <2>18. walk.kind # "backfill" => rows[i] # Pending /\ Matches(i, walk.filter)
    BY <2>1 DEF AccountedFor
  <2>19. listed <=> (\E n \in 1..Len(walk.got) : IdAt(n) = i)'
    BY <1>8 DEF listed
  <2>20. beyond => (Len(walk.got) >= CandidateCap /\ Older(i, IdAt(Len(walk.got))))'
    BY <1>8 DEF beyond, IdAt
  <2>21. (\E n \in 1..Len(todo) : todo[n].id = i) <=> (\E n \in 1..Len(walk.todo) : walk.todo[n].id = i)'
    BY <1>8
  <2> QED
    BY <1>1, <1>8, <2>1, <2>3, <2>4, <2>15, <2>16, <2>17, <2>18, <2>19, <2>20, <2>21 DEF AccountedFor
<1>19. ASSUME NEW s \in walk.steady
       PROVE  StoodStill(s)'
  <2>1. StoodStill(s)
    BY <1>1
  <2>2. ASSUME walk.kind = "similar", s.vector # None, NEW n \in 1..Len(got),
               got[n].record.id = s.id, vectors[s.id] = s.vector
        PROVE  got[n].vector = s.vector
    <3>1. CASE n \in 1..g /\ got[n] = walk.got[n]
      BY <2>1, <2>2, <3>1 DEF StoodStill, IdAt
    <3>2. ASSUME NEW k \in 1..c,
                 got[n] = [record |-> Compose(kept[k]), vector |-> vectors[kept[k]]]
          PROVE  got[n].vector = s.vector
      <4>1. kept[k] \in Recorded
        BY <1>5
      <4>2. kept[k] = s.id
        BY <1>1, <2>2, <3>2, <4>1, ComposeIs
      <4> QED
        BY <2>2, <3>2, <4>2
    <3> QED
      BY <1>13, <3>1, <3>2
  <2>3. \A b, e : RecordOf(s.id, b, e)' = RecordOf(s.id, b, e)
    BY <1>1 DEF RecordOf
  <2>4. RecordOf(s.id, s.id \in built, TRUE)' = RecordOf(s.id, s.id \in built, TRUE)
    BY <1>1 DEF RecordOf
  <2> QED
    BY <1>1, <1>8, <2>1, <2>2, <2>3, <2>4 DEF StoodStill, IdAt
<1>20. WalkInv'
  BY <1>8, <1>9, <1>12, <1>14, <1>15, <1>18, <1>19 DEF WalkInv
<1>21. Tables' /\ VectorsTell'
  BY <1>1 DEF Tables, VectorsTell, Recorded
<1> QED
  BY <1>10, <1>20, <1>21 DEF IInv

-----------------------------------------------------------------------------
(* The other steps *)

LEMMA BeginIs ==
    ASSUME IInv, NEW kind \in {"dataset", "similar", "backfill"},
           NEW filter \in Filters \cup {AnyRecord}, NEW self \in Ids \cup {None},
           NEW S \in SUBSET Recorded,
           walk' = Begin(kind, filter, self, S), UNCHANGED <<rows, built, vectors>>,
           self # None => vectors[self] # None,
           kind = "similar" => self # None,
           kind # "similar" => filter = AnyRecord,
           kind = "backfill" => S \subseteq built,
           kind # "backfill" => \A i \in S : rows[i] # Pending /\ Matches(i, filter)
    PROVE  IInv'
<1> DEFINE query == IF self = None THEN {} ELSE vectors[self]
           steady == {[id |-> i, vector |-> vectors[i]] : i \in S}
<1>1. /\ walk'.kind = kind /\ walk'.filter = filter /\ walk'.self = self /\ walk'.cursor = None
      /\ walk'.got = <<>> /\ walk'.todo = <<>> /\ ~walk'.ended /\ walk'.failed = {}
      /\ walk'.query = query /\ walk'.steady = steady
  BY DEF Begin
<1>2. Tables /\ VectorsTell /\ Tables' /\ VectorsTell' /\ Recorded' = Recorded
  BY DEF IInv, Tables, VectorsTell, Recorded
<1>3. query \in Embeddings \cup {{}}
  BY <1>2 DEF Tables
<1>4. S \subseteq Ids
  BY DEF Recorded
<1>5. steady \in SUBSET [id : Ids, vector : Embeddings \cup {None}]
  BY <1>2, <1>4 DEF Tables
<1>6. \A s \in steady : s.id \in S /\ s.vector = vectors[s.id]
  OBVIOUS
<1>7. walk' \in Walks
  <2>1. /\ <<>> \in Seq(Entries) /\ <<>> \in Seq(Records) /\ {} \in SUBSET Ids /\ FALSE \in BOOLEAN
    OBVIOUS
  <2>2. walk' = [kind |-> kind, filter |-> filter, self |-> self, cursor |-> None,
                 got |-> <<>>, todo |-> <<>>, ended |-> FALSE, failed |-> {},
                 query |-> query, steady |-> steady]
    BY DEF Begin
  <2> HIDE DEF query, steady
  <2> QED
    BY <1>3, <1>5, <2>1, <2>2 DEF Walks, Entries
<1> HIDE DEF query, steady
<1>8. InTurn' /\ KeptAsIs' /\ TodoIsBuilt'
  BY <1>1 DEF InTurn, KeptAsIs, TodoIsBuilt
<1>9. ASSUME NEW s \in steady
      PROVE  AccountedFor(s)'
  <2>1. s.id \in S /\ s.id \in Recorded' /\ s.vector = vectors'[s.id]
    BY <1>2, <1>6
  <2>2. Ahead(s.id)'
    BY <1>1 DEF Ahead
  <2>3. kind # "backfill" => rows'[s.id] # Pending /\ Matches(s.id, walk.filter)'
    BY <1>1, <2>1 DEF Matches
  <2>4. kind = "backfill" => s.id \in built'
    BY <2>1
  <2> QED
    BY <1>1, <2>1, <2>2, <2>3, <2>4 DEF AccountedFor
<1>10. ASSUME NEW s \in steady
       PROVE  StoodStill(s)'
  <2>1. vectors'[s.id] = s.vector
    BY <1>6
  <2> QED
    BY <1>1, <2>1 DEF StoodStill
<1>11. WalkInv'
  BY <1>1, <1>7, <1>8, <1>9, <1>10 DEF WalkInv
<1> QED
  BY <1>2, <1>11 DEF IInv

LEMMA BeginDatasetStep ==
    ASSUME IInv, BeginDataset
    PROVE  IInv'
<1>1. Settled(AnyRecord) \in SUBSET Recorded
  BY DEF Settled
<1>2. \A i \in Settled(AnyRecord) : rows[i] # Pending /\ Matches(i, AnyRecord)
  BY DEF Settled
<1>3. walk' = Begin("dataset", AnyRecord, None, Settled(AnyRecord)) /\ UNCHANGED <<rows, built, vectors>>
  BY DEF BeginDataset
<1> QED
  BY <1>1, <1>2, <1>3, BeginIs

LEMMA BeginSimilarStep ==
    ASSUME IInv, NEW i \in Ids, NEW filter \in Filters, BeginSimilar(i, filter)
    PROVE  IInv'
<1>1. Settled(filter) \in SUBSET Recorded
  BY DEF Settled
<1>2. \A j \in Settled(filter) : rows[j] # Pending /\ Matches(j, filter)
  BY DEF Settled
<1>3. /\ walk' = Begin("similar", filter, i, Settled(filter)) /\ UNCHANGED <<rows, built, vectors>>
      /\ vectors[i] # None /\ i # None
  BY RetrievalAssumption DEF BeginSimilar, RetrievalAssumption
<1> QED
  BY <1>1, <1>2, <1>3, BeginIs

LEMMA BeginBackfillStep ==
    ASSUME IInv, BeginBackfill
    PROVE  IInv'
<1>1. built \in SUBSET Recorded
  BY DEF IInv, Tables
<1>2. walk' = Begin("backfill", AnyRecord, None, built) /\ UNCHANGED <<rows, built, vectors>>
  BY DEF BeginBackfill
<1> QED
  BY <1>1, <1>2, BeginIs

\* The end of a walk leaves the tables as they are.
LEMMA EndStep ==
    ASSUME IInv, walk' = None, UNCHANGED <<rows, built, vectors>>
    PROVE  IInv'
  BY DEF IInv, Tables, VectorsTell, Recorded, WalkInv

LEMMA EmbedNextStep ==
    ASSUME IInv, EmbedNext
    PROVE  IInv' /\ walk' # None
<1> DEFINE record == Head(walk.todo)
           i == record.id
           rest == Tail(walk.todo)
<1>1. /\ walk # None /\ walk \in Walks /\ Tables /\ VectorsTell /\ WalkInv /\ walk.todo # <<>>
      /\ UNCHANGED <<rows, built>>
  BY DEF EmbedNext, IInv, WalkInv
<1>2. /\ walk.todo \in Seq(Records) /\ walk.kind = "backfill"
  BY <1>1 DEF WalkInv, Walks, InTurn
<1>3. /\ record \in Records /\ record = walk.todo[1] /\ rest \in Seq(Records)
      /\ Len(walk.todo) \in Nat /\ 1 \in 1..Len(walk.todo)
      /\ Len(rest) = Len(walk.todo) - 1 /\ \A n \in 1..Len(rest) : n + 1 \in 1..Len(walk.todo) /\ rest[n] = walk.todo[n + 1]
      /\ \A n \in 1..Len(walk.todo) : n = 1 \/ n - 1 \in 1..Len(rest)
  BY <1>1, <1>2
<1>4. /\ i \in Ids /\ i \in built /\ FeatureVector(record) \in Embeddings /\ FeatureVector(record) # None
  BY <1>1, <1>3, RecordIs, KnowledgeAssumption DEF WalkInv, TodoIsBuilt, KnowledgeAssumption
<1> HIDE DEF record, rest
<1>5. PICK failed \in SUBSET Ids :
        /\ walk' = [walk EXCEPT !.todo = rest, !.failed = failed]
        /\ vectors' \in [Ids -> Embeddings \cup {None}]
        /\ \A j \in Ids : vectors[j] # None => vectors'[j] # None
        /\ \A j \in Ids : j # i => vectors'[j] = vectors[j]
        /\ walk.failed \subseteq failed
        /\ vectors'[i] # None \/ i \in failed
  <2>1. CASE /\ vectors' = [vectors EXCEPT ![i] = IF @ = None THEN FeatureVector(record) ELSE @]
             /\ walk' = [walk EXCEPT !.todo = rest]
    <3>1. walk' = [walk EXCEPT !.todo = rest, !.failed = walk.failed] /\ walk.failed \in SUBSET Ids
      BY <1>1, <2>1 DEF Walks
    <3>2. /\ vectors' \in [Ids -> Embeddings \cup {None}]
          /\ \A j \in Ids : vectors[j] # None => vectors'[j] # None
          /\ \A j \in Ids : j # i => vectors'[j] = vectors[j]
          /\ vectors'[i] # None
      BY <1>1, <1>4, <2>1 DEF Tables
    <3> QED
      BY <3>1, <3>2
  <2>2. CASE /\ vectors' = vectors
             /\ walk' = [walk EXCEPT !.todo = rest, !.failed = @ \cup {i}]
    <3>1. walk.failed \cup {i} \in SUBSET Ids
      BY <1>1, <1>4 DEF Walks
    <3>2. vectors' \in [Ids -> Embeddings \cup {None}]
      BY <1>1, <2>2 DEF Tables
    <3> QED
      BY <2>2, <3>1, <3>2
  <2> QED
    BY <2>1, <2>2 DEF EmbedNext, record, rest
<1> HIDE DEF i
<1>6. /\ walk'.todo = rest /\ walk'.failed = failed
      /\ walk'.kind = walk.kind /\ walk'.filter = walk.filter /\ walk'.self = walk.self
      /\ walk'.got = walk.got /\ walk'.cursor = walk.cursor /\ walk'.ended = walk.ended
      /\ walk'.query = walk.query /\ walk'.steady = walk.steady
  BY <1>1, <1>5 DEF Walks
<1>7. walk' \in Walks
  BY <1>1, <1>3, <1>5 DEF Walks
<1>8. Recorded' = Recorded /\ built' = built /\ rows' = rows
  BY <1>1 DEF Recorded
<1>9. Tables'
  BY <1>1, <1>5, <1>8 DEF Tables
<1>10. VectorsTell'
  <2>1. ASSUME NEW j \in Ids, vectors'[j] # None, Enriched \in vectors'[j]
        PROVE  j \in built
    BY <1>1, <1>4, <1>5, <2>1 DEF VectorsTell
  <2> QED
    BY <1>8, <2>1 DEF VectorsTell
<1>11. InTurn' /\ KeptAsIs'
  BY <1>1, <1>2, <1>6 DEF WalkInv, InTurn, KeptAsIs, IdAt
<1>12. TodoIsBuilt'
  BY <1>1, <1>3, <1>6, <1>8 DEF WalkInv, TodoIsBuilt
<1>13. ASSUME NEW s \in walk.steady
       PROVE  AccountedFor(s)' /\ StoodStill(s)'
  <2>1. s.id \in Ids /\ AccountedFor(s)
    BY <1>1 DEF WalkInv, Walks
  <2>2. Ahead(s.id)' <=> Ahead(s.id)
    BY <1>6 DEF Ahead
  <2>3. ASSUME NEW n \in 1..Len(walk.todo), walk.todo[n].id = s.id
        PROVE  (\E m \in 1..Len(rest) : rest[m].id = s.id) \/ vectors'[s.id] # None \/ s.id \in failed
    <3>1. CASE n = 1
      <4>1. s.id = i
        BY <1>3, <2>3, <3>1 DEF i
      <4> QED
        BY <1>5, <4>1
    <3>2. CASE n # 1
      <4>1. n - 1 \in 1..Len(rest) /\ (n - 1) + 1 = n
        BY <1>3, <3>2
      <4>2. rest[n - 1] = walk.todo[n]
        BY <1>3, <4>1
      <4> QED
        BY <2>3, <4>1, <4>2
    <3> QED
      BY <3>1, <3>2
  <2>4. /\ s.id \in Recorded' /\ s.id \in built'
        /\ \/ Ahead(s.id)' \/ \E m \in 1..Len(rest) : rest[m].id = s.id
           \/ vectors'[s.id] # None \/ s.id \in failed
    BY <1>2, <1>5, <1>8, <2>1, <2>2, <2>3 DEF AccountedFor
  <2> QED
    BY <1>2, <1>6, <2>4 DEF AccountedFor, StoodStill
<1>14. WalkInv'
  BY <1>6, <1>7, <1>11, <1>12, <1>13 DEF WalkInv
<1>15. walk' # None
  BY <1>7, KnowledgeAssumption DEF KnowledgeAssumption
<1> QED
  BY <1>9, <1>10, <1>14, <1>15 DEF IInv

LEMMA InitIInv == Init => IInv
<1> SUFFICES ASSUME Init PROVE IInv
  OBVIOUS
<1>1. PICK table \in InitialTables :
        /\ rows = table.rows /\ built = table.built
        /\ vectors = [i \in Ids |->
              IF i \in table.embedded THEN FeatureVector(RecordOf(i, TRUE, FALSE)) ELSE None]
  BY DEF Init
<1>2. /\ rows \in [Ids -> {None, Pending} \cup Outcomes]
      /\ table.embedded \subseteq built /\ built \subseteq Recorded
  BY <1>1, KnowledgeAssumption DEF KnowledgeAssumption, Recorded
<1>3. ASSUME NEW i \in table.embedded
      PROVE  i \in built /\ FeatureVector(RecordOf(i, TRUE, FALSE)) \in Embeddings
  <2>1. i \in Recorded /\ i \in Ids /\ rows[i] \in {Pending} \cup Outcomes
    BY <1>2 DEF Recorded
  <2>2. \A b \in BOOLEAN : \A e \in BOOLEAN : RecordOf(i, b, e) \in Records
    BY <2>1 DEF Records, RecordOf
  <2>3. \A b \in BOOLEAN : \A e \in BOOLEAN : FeatureVector(RecordOf(i, b, e)) \in Embeddings
    BY <2>2, RecordIs
  <2>4. TRUE \in BOOLEAN /\ FALSE \in BOOLEAN
    OBVIOUS
  <2>5. FeatureVector(RecordOf(i, TRUE, FALSE)) \in Embeddings
    BY <2>3, <2>4, Zenon
  <2> QED
    BY <1>2, <2>5
<1>4. vectors \in [Ids -> Embeddings \cup {None}]
  BY <1>1, <1>3
<1>5. \A i \in Ids : vectors[i] # None => i \in built
  BY <1>1, <1>3
<1>6. walk = None
  BY DEF Init
<1> QED
  BY <1>2, <1>4, <1>5, <1>6 DEF IInv, Tables, VectorsTell, WalkInv

LEMMA StutterStep ==
    ASSUME IInv, UNCHANGED <<rows, built, vectors, walk>>
    PROVE  IInv'
<1>1. Tables' /\ VectorsTell' /\ Grows
  BY DEF IInv, Tables, VectorsTell, Recorded, Grows
<1>2. CASE walk = None
  BY <1>1, <1>2 DEF IInv, WalkInv
<1>3. CASE walk # None
  <2>1. ASSUME NEW s \in walk.steady
        PROVE  StoodStill(s)'
    <3>1. StoodStill(s)
      BY <1>3 DEF IInv, WalkInv
    <3>2. RecordOf(s.id, TRUE, TRUE)' = RecordOf(s.id, TRUE, TRUE)
      BY DEF RecordOf
    <3>3. RecordOf(s.id, s.id \in built, TRUE)' = RecordOf(s.id, s.id \in built, TRUE)
      BY DEF RecordOf
    <3> QED
      BY <3>1, <3>2, <3>3 DEF StoodStill, IdAt
  <2>2. WalkInv'
    BY <1>1, <1>3, <2>1, WalkKeeps DEF IInv
  <2> QED
    BY <1>1, <2>2 DEF IInv
<1> QED
  BY <1>2, <1>3

LEMMA StepIInv ==
    ASSUME IInv, [Next]_vars
    PROVE  IInv'
<1>1. CASE Write
  BY <1>1, WriteStep
<1>2. CASE TurnPage
  BY <1>2, TurnPageStep
<1>3. CASE BeginDataset
  BY <1>3, BeginDatasetStep
<1>4. CASE BuildDataset \/ AnswerSimilar \/ EndBackfill
  BY <1>4, EndStep DEF BuildDataset, AnswerSimilar, EndBackfill
<1>5. ASSUME NEW i \in Ids, NEW filter \in Filters, BeginSimilar(i, filter)
      PROVE  IInv'
  BY <1>5, BeginSimilarStep
<1>6. CASE BeginBackfill
  BY <1>6, BeginBackfillStep
<1>7. CASE EmbedNext
  BY <1>7, EmbedNextStep
<1>8. CASE UNCHANGED vars
  BY <1>8, StutterStep DEF vars
<1> QED
  BY <1>1, <1>2, <1>3, <1>4, <1>5, <1>6, <1>7, <1>8 DEF Next, Read

\* The invariant holds of every run of the readers and the writers.
THEOREM InductiveInvariant == Spec => []IInv
<1>1. IInv /\ [Next]_vars => IInv'
  BY StepIInv
<1> QED
  BY <1>1, InitIInv, PTL DEF Spec

\* A walk through the pages, one read each, loses nothing that was there when it
\* began, meets nothing twice and takes it newest first, whatever other threads
\* insert, settle and enrich between two pages (retrieval.py, search).
PagesLoseNothing ==
    walk # None => InTurn /\ \A s \in walk.steady : AccountedFor(s)

THEOREM PagesLoseNothingHolds == Spec => []PagesLoseNothing
<1>1. IInv => PagesLoseNothing
  BY DEF IInv, WalkInv, PagesLoseNothing
<1> QED
  BY <1>1, InductiveInvariant, PTL

LEMMA BackfillEnds ==
    ASSUME IInv, [Next]_vars, walk # None, walk.kind = "backfill", walk' = None
    PROVE  \A s \in walk.steady : vectors[s.id] # None \/ s.id \in walk.failed
<1>1. ~TurnPage /\ ~EmbedNext
  BY TurnPageStep, EmbedNextStep
<1>2. ~Write /\ UNCHANGED vars => walk' = walk
  BY DEF vars
<1>3. EndBackfill
  BY <1>1, <1>2 DEF Next, Read, Write, BeginDataset, BeginSimilar, BeginBackfill, BuildDataset, AnswerSimilar, vars
<1>4. walk.ended /\ walk.todo = <<>>
  BY <1>3 DEF EndBackfill
<1>5. ASSUME NEW s \in walk.steady
      PROVE  vectors[s.id] # None \/ s.id \in walk.failed
  <2>1. AccountedFor(s)
    BY DEF IInv, WalkInv
  <2>2. ~Ahead(s.id)
    BY <1>4 DEF Ahead
  <2> QED
    BY <1>4, <2>1, <2>2 DEF AccountedFor
<1> QED
  BY <1>5

\* A backfill that comes to its end has left no prediction without a vector that
\* was enriched when it began, but those that failed (backfill_embeddings in
\* embedding.py).
THEOREM BackfillLeavesNoneHolds == Spec => BackfillLeavesNone
<1>1. IInv /\ [Next]_vars =>
        [walk # None /\ walk.kind = "backfill" /\ walk' = None =>
            \A s \in walk.steady : vectors[s.id] # None \/ s.id \in walk.failed]_vars
  BY BackfillEnds
<1> QED
  BY <1>1, InductiveInvariant, PTL DEF Spec, BackfillLeavesNone

-----------------------------------------------------------------------------
(* The correction for multiple comparisons *)

LEMMA MaxIs ==
    ASSUME NEW S \in SUBSET Int, IsFiniteSet(S), S # {}
    PROVE  Max(S) \in S /\ \A x \in S : x <= Max(S)
<1> DEFINE R == {pair \in S \X S : pair[1] < pair[2]}
<1>1. \A x, y \in S : <<x, y>> \in R <=> x < y
  OBVIOUS
<1> HIDE DEF R
<1>2. Orders(R, S)
  BY <1>1 DEF Orders
<1>3. Cardinality(S) \in Nat /\ Cardinality(S) # 0
  BY FS_CardinalityType, FS_EmptySet
<1>4. Cardinality(S) - 1 \in 0..(Cardinality(S) - 1)
  BY <1>3
<1>5. PICK m \in S : Place(R, S, m) = Cardinality(S) - 1
  <2>1. AllTaken(R, S)
    BY <1>2, PlaceIsTaken
  <2> QED
    BY <1>4, <2>1 DEF AllTaken
<1>6. ASSUME NEW x \in S, ~(x <= m)
      PROVE  FALSE
  <2>1. <<m, x>> \in R
    BY <1>1, <1>6
  <2>2. Place(R, S, m) < Place(R, S, x) /\ Place(R, S, x) \in 0..(Cardinality(S) - 1)
    BY <1>2, <2>1, PlaceGrows, PlaceType
  <2> QED
    BY <1>3, <1>5, <2>2
<1>7. \A y \in S : m >= y
  BY <1>6
<1>8. Max(S) \in S /\ \A y \in S : Max(S) >= y
  BY <1>7 DEF Max
<1> QED
  BY <1>8

LEMMA SameSize ==
    ASSUME NEW S, NEW T, IsFiniteSet(S), NEW f \in [S -> T],
           \A x, y \in S : f[x] = f[y] => x = y,
           \A z \in T : \E x \in S : f[x] = z
    PROVE  IsFiniteSet(T) /\ Cardinality(T) = Cardinality(S)
<1>1. f \in Bijection(S, T)
  BY DEF Bijection, Injection, IsInjective, Surjection
<1>2. ExistsBijection(S, T)
  BY <1>1 DEF ExistsBijection
<1> QED
  BY <1>2, FS_Bijection

\* A family of tests: finitely many, each at a place of its own.
Family(F) ==
    /\ IsFiniteSet(F)
    /\ \A t \in F : t.at \in Int /\ t.p \in Int
    /\ \A s, t \in F : s.at = t.at => s = t

AtMost(t, F) == Cardinality({s \in F : s.p <= t.p})

UpTo(t, F) == {s \in F : s.p < t.p \/ (s.p = t.p /\ s.at <= t.at)}

LEMMA RankIs ==
    ASSUME NEW F, Family(F), NEW t \in F
    PROVE  /\ Rank(t, F) = Cardinality(UpTo(t, F)) /\ IsFiniteSet(UpTo(t, F))
           /\ Rank(t, F) \in Nat /\ Rank(t, F) >= 1
           /\ AtMost(t, F) \in Nat /\ Rank(t, F) <= AtMost(t, F)
           /\ Cardinality(F) \in Nat
<1>1. Rank(t, F) = Cardinality(UpTo(t, F))
  BY DEF Rank, UpTo
<1>2. IsFiniteSet(F) /\ UpTo(t, F) \in SUBSET F
  BY DEF Family, UpTo
<1>3. IsFiniteSet(UpTo(t, F))
  BY <1>2, FS_Subset
<1>4. t \in UpTo(t, F)
  BY DEF UpTo, Family
<1>5. Rank(t, F) \in Nat /\ Rank(t, F) # 0
  BY <1>1, <1>3, <1>4, FS_CardinalityType, FS_EmptySet
<1>6. IsFiniteSet({s \in F : s.p <= t.p})
  BY <1>2, FS_Subset
<1>7. UpTo(t, F) \in SUBSET {s \in F : s.p <= t.p}
  BY DEF UpTo, Family
<1>8. AtMost(t, F) \in Nat /\ Rank(t, F) <= AtMost(t, F)
  BY <1>1, <1>6, <1>7, FS_CardinalityType, FS_Subset DEF AtMost
<1> QED
  BY <1>1, <1>2, <1>3, <1>5, <1>8, FS_CardinalityType

\* Of two tests the one that comes first has the lower rank.
LEMMA RankGrows ==
    ASSUME NEW F, Family(F), NEW s \in F, NEW t \in F
    PROVE  Rank(s, F) <= Rank(t, F) <=> s \in UpTo(t, F)
<1>1. /\ Rank(s, F) = Cardinality(UpTo(s, F)) /\ IsFiniteSet(UpTo(s, F)) /\ Rank(s, F) \in Nat
      /\ Rank(t, F) = Cardinality(UpTo(t, F)) /\ IsFiniteSet(UpTo(t, F)) /\ Rank(t, F) \in Nat
  BY RankIs
<1>2. s.p \in Int /\ t.p \in Int /\ s.at \in Int /\ t.at \in Int
  BY DEF Family
<1>3. ASSUME s \in UpTo(t, F)
      PROVE  Rank(s, F) <= Rank(t, F)
  <2>1. UpTo(s, F) \in SUBSET UpTo(t, F)
    BY <1>2, <1>3 DEF UpTo, Family
  <2> QED
    BY <1>1, <2>1, FS_Subset
<1>4. ASSUME s \notin UpTo(t, F)
      PROVE  Rank(t, F) < Rank(s, F)
  <2>1. UpTo(t, F) \in SUBSET UpTo(s, F)
    BY <1>2, <1>4 DEF UpTo, Family
  <2>2. s \in UpTo(s, F) /\ UpTo(t, F) # UpTo(s, F)
    BY <1>2, <1>4 DEF UpTo
  <2>3. Cardinality(UpTo(t, F)) <= Cardinality(UpTo(s, F)) /\ Cardinality(UpTo(s, F)) # Cardinality(UpTo(t, F))
    BY <1>1, <2>1, <2>2, FS_Subset
  <2> QED
    BY <1>1, <2>3
<1> QED
  BY <1>1, <1>3, <1>4

\* The last of the tests with the same p-value ranks as many as have at most it.
LEMMA LastOfEquals ==
    ASSUME NEW F, Family(F), NEW u \in F
    PROVE  \E w \in F : w.p = u.p /\ Rank(w, F) = AtMost(u, F) /\ \A s \in F : s.p <= u.p => s \in UpTo(w, F)
<1> DEFINE equals == {s \in F : s.p = u.p}
           places == {s.at : s \in equals}
           at == [s \in equals |-> s.at]
<1>1. IsFiniteSet(equals)
  BY FS_Subset DEF Family
<1>2. at \in [equals -> places]
  OBVIOUS
<1>3. \A x, y \in equals : at[x] = at[y] => x = y
  BY DEF Family
<1>4. \A z \in places : \E x \in equals : at[x] = z
  OBVIOUS
<1>5. IsFiniteSet(places)
  BY <1>1, <1>2, <1>3, <1>4, SameSize
<1>6. places \in SUBSET Int /\ u.at \in places
  BY DEF Family
<1>7. Max(places) \in places /\ \A x \in places : x <= Max(places)
  BY <1>5, <1>6, MaxIs
<1>8. PICK w \in equals : w.at = Max(places)
  BY <1>7
<1>9. \A s \in F : s.p = u.p => s.at <= w.at
  BY <1>7, <1>8
<1>10. UpTo(w, F) = {s \in F : s.p <= u.p}
  BY <1>8, <1>9 DEF UpTo, Family
<1>11. Rank(w, F) = Cardinality(UpTo(w, F))
  BY <1>8, RankIs
<1> QED
  BY <1>8, <1>10, <1>11 DEF AtMost

LEMMA BenjaminiHochbergIs ==
    ASSUME NEW F, Family(F), Alpha \in Nat, NEW t \in F
    PROVE  t \in BenjaminiHochberg(F) <=>
               \E u \in F : u.p >= t.p /\ u.p * Cardinality(F) <= AtMost(u, F) * Alpha
<1> DEFINE within == {s \in F : WithinShare(s, F)}
           ranks == {0} \cup {Rank(s, F) : s \in within}
           last == Max(ranks)
           m == Cardinality(F)
<1>1. t \in BenjaminiHochberg(F) <=> Rank(t, F) <= last
  BY DEF BenjaminiHochberg
<1>2. m \in Nat /\ \A s \in F : Rank(s, F) \in Nat /\ Rank(s, F) >= 1
  BY RankIs
<1>3. \A s \in F : s.p \in Int
  BY DEF Family
<1>4. last \in ranks /\ \A x \in ranks : x <= last
  <2>1. \A s \in F : Rank(s, F) <= m
    <3>1. ASSUME NEW s \in F
          PROVE  Rank(s, F) <= m
      <4>1. Rank(s, F) = Cardinality(UpTo(s, F)) /\ UpTo(s, F) \in SUBSET F
        BY RankIs DEF UpTo
      <4> QED
        BY <4>1, FS_Subset DEF Family
    <3> QED
      BY <3>1
  <2>2. ranks \in SUBSET (0..m)
    BY <1>2, <2>1
  <2>3. IsFiniteSet(0..m)
    BY <1>2, FS_Interval
  <2>4. IsFiniteSet(ranks)
    BY <2>2, <2>3, FS_Subset
  <2>5. ranks \in SUBSET Int /\ ranks # {}
    BY <1>2, <2>2
  <2> HIDE DEF ranks
  <2> QED
    BY <2>4, <2>5, MaxIs
<1>5. ASSUME Rank(t, F) <= last
      PROVE  \E u \in F : u.p >= t.p /\ u.p * m <= AtMost(u, F) * Alpha
  <2>1. last # 0
    <3>1. Rank(t, F) \in Nat /\ Rank(t, F) >= 1
      BY <1>2
    <3> QED
      BY <1>2, <1>4, <1>5, <3>1
  <2>2. PICK s \in within : Rank(s, F) = last
    BY <1>4, <2>1
  <2>3. t \in UpTo(s, F)
    BY <1>5, <2>2, RankGrows
  <2>4. s.p >= t.p
    BY <1>3, <2>3 DEF UpTo
  <2>5. s.p * m <= Rank(s, F) * Alpha
    BY DEF WithinShare
  <2>6. Rank(s, F) \in Nat /\ AtMost(s, F) \in Nat /\ Rank(s, F) <= AtMost(s, F)
    BY RankIs
  <2>7. Rank(s, F) * Alpha <= AtMost(s, F) * Alpha
    BY <2>6
  <2> QED
    BY <1>2, <1>3, <2>4, <2>5, <2>6, <2>7
<1>6. ASSUME NEW u \in F, u.p >= t.p, u.p * m <= AtMost(u, F) * Alpha
      PROVE  Rank(t, F) <= last
  <2>1. PICK w \in F : /\ w.p = u.p /\ Rank(w, F) = AtMost(u, F)
                       /\ \A s \in F : s.p <= u.p => s \in UpTo(w, F)
    BY LastOfEquals
  <2>2. w \in within
    BY <1>6, <2>1 DEF WithinShare
  <2>3. Rank(w, F) <= last
    BY <1>4, <2>2
  <2>4. Rank(t, F) <= Rank(w, F)
    BY <1>3, <1>6, <2>1, RankGrows
  <2>5. last \in Nat
    BY <1>2, <1>4
  <2> QED
    BY <1>2, <2>3, <2>4, <2>5
<1> QED
  BY <1>1, <1>5, <1>6

-----------------------------------------------------------------------------
(* The patterns of a dataset *)

\* A sequence of records of different predictions.
Distinct(e) ==
    /\ \A n \in 1..Len(e) : e[n].id \in Ids
    /\ \A m, n \in 1..Len(e) : m < n => e[m].id # e[n].id

LEMMA DistinctIsShort ==
    ASSUME NEW S, NEW e \in Seq(S), Distinct(e)
    PROVE  Len(e) \in 0..Cardinality(Ids) /\ Cardinality(Ids) \in Nat
<1> DEFINE all == 1..Len(e)
           taken == {e[n].id : n \in all}
           f == [n \in all |-> e[n].id]
<1>1. Len(e) \in Nat
  OBVIOUS
<1>2. IsFiniteSet(all) /\ Cardinality(all) = Len(e)
  BY <1>1, FS_Interval
<1>3. f \in [all -> taken]
  OBVIOUS
<1>4. \A m, n \in all : f[m] = f[n] => m = n
  BY <1>1 DEF Distinct
<1>5. \A z \in taken : \E n \in all : f[n] = z
  OBVIOUS
<1> HIDE DEF f
<1>6. Cardinality(taken) = Cardinality(all)
  BY <1>2, <1>3, <1>4, <1>5, SameSize
<1>7. taken \in SUBSET Ids
  BY DEF Distinct
<1>8. IsFiniteSet(Ids)
  BY RetrievalAssumption DEF RetrievalAssumption
<1>9. Cardinality(taken) <= Cardinality(Ids)
  BY <1>7, <1>8, FS_Subset
<1>10. Cardinality(Ids) \in Nat
  BY <1>8, FS_CardinalityType
<1> QED
  BY <1>1, <1>2, <1>6, <1>9, <1>10

LEMMA PickedIsDistinct ==
    ASSUME NEW S, NEW e \in Seq(S), Distinct(e), NEW P \in SUBSET (1..Len(e))
    PROVE  Picked(e, P) \in Seq(S) /\ Distinct(Picked(e, P))
<1> DEFINE part == Picked(e, P)
<1>1. part \in Seq(S) /\ IsPart(part, e, P)
  BY PickedIs
<1> HIDE DEF part
<1>2. PICK at \in Seq(P) :
        /\ Len(part) = Len(at)
        /\ \A n \in 1..Len(at) : part[n] = e[at[n]]
        /\ \A m, n \in 1..Len(at) : m < n => at[m] < at[n]
  BY <1>1 DEF IsPart
<1>3. \A n \in 1..Len(at) : at[n] \in 1..Len(e)
  BY ElementOfSeq
<1>4. Distinct(part)
  BY <1>2, <1>3 DEF Distinct
<1> QED
  BY <1>1, <1>4 DEF part

LEMMA WinsAre ==
    ASSUME NEW S, NEW e \in Seq(S)
    PROVE  Wins(e) \in 0..Len(e)
<1>1. Len(e) \in Nat
  OBVIOUS
<1>2. IsFiniteSet(1..Len(e)) /\ Cardinality(1..Len(e)) = Len(e)
  BY <1>1, FS_Interval
<1> DEFINE won == {k \in 1..Len(e) : e[k].r > 0}
<1>3. won \in SUBSET (1..Len(e))
  OBVIOUS
<1>4. IsFiniteSet(won) /\ Cardinality(won) <= Len(e)
  BY <1>2, <1>3, FS_Subset
<1>5. Cardinality(won) \in Nat
  BY <1>4, FS_CardinalityType
<1> QED
  BY <1>1, <1>4, <1>5 DEF Wins, Positions

\* The patterns are finitely many, each of a group of its own, and the sample
\* and the p-value of each are integers.
Studied(P) ==
    /\ IsFiniteSet(P)
    /\ \A p \in P : /\ p.at \in Int /\ Len(p.evidence) \in Int
                    /\ PValue(Wins(p.evidence), Len(p.evidence)) \in Int
    /\ \A p, q \in P : p.at = q.at => p = q
    /\ \A p, q \in P : p.group = q.group => p = q

LEMMA PatternsAre ==
    ASSUME NEW S, NEW e \in Seq(S), Distinct(e)
    PROVE  Studied(Patterns(e))
<1> DEFINE P == Patterns(e)
           groups == 1..Len(Groups)
<1>1. /\ Len(Groups) \in Nat
      /\ \A j, k \in groups : Groups[j] = Groups[k] => j = k
      /\ MinEvidence \in Nat /\ MinEvidence > 0 /\ Certain \in Nat
      /\ \A n \in 1..Cardinality(Ids) : \A w \in 0..n : PValue(w, n) \in 0..Certain
  BY LearningAssumption DEF LearningAssumption
<1>2. \A p \in P : p.at \in groups /\ p = CandidatePattern(p.at, e) /\ Len(p.evidence) >= MinEvidence
  BY DEF Patterns, CandidatePattern
<1>3. \A p \in P : p.group = Groups[p.at] /\ p.evidence = MembersOf(Groups[p.at], e)
  BY <1>2 DEF CandidatePattern
<1>4. \A p, q \in P : p.at = q.at => p = q
  BY <1>2
<1>5. \A p, q \in P : p.group = q.group => p = q
  BY <1>1, <1>2, <1>3, <1>4
<1>6. IsFiniteSet(P)
  <2> DEFINE at == {p.at : p \in P}
             f == [k \in at |-> CandidatePattern(k, e)]
  <2>1. IsFiniteSet(groups)
    BY <1>1, FS_Interval
  <2>2. at \in SUBSET groups
    BY <1>2
  <2>3. IsFiniteSet(at)
    BY <2>1, <2>2, FS_Subset
  <2>4. f \in [at -> P]
    BY <1>2
  <2>5. \A j, k \in at : f[j] = f[k] => j = k
    BY DEF CandidatePattern
  <2>6. \A p \in P : \E k \in at : f[k] = p
    BY <1>2
  <2> HIDE DEF f, at
  <2> QED
    BY <2>3, <2>4, <2>5, <2>6, SameSize
<1>7. ASSUME NEW p \in P
      PROVE  Len(p.evidence) \in Int /\ PValue(Wins(p.evidence), Len(p.evidence)) \in Int
  <2> DEFINE n == Len(p.evidence)
  <2>1. p.evidence \in Seq(S) /\ Distinct(p.evidence)
    <3> DEFINE places == {k \in Positions(e) : KeyOf(Groups[p.at][1], e[k]) = Groups[p.at][2]}
    <3>1. places \in SUBSET (1..Len(e))
      BY DEF Positions
    <3>2. p.evidence = Picked(e, places)
      BY <1>3 DEF MembersOf
    <3> QED
      BY <3>1, <3>2, PickedIsDistinct
  <2>2. n \in 0..Cardinality(Ids) /\ Cardinality(Ids) \in Nat /\ Wins(p.evidence) \in 0..n
    BY <2>1, DistinctIsShort, WinsAre
  <2>3. n >= MinEvidence
    BY <1>2
  <2> HIDE DEF n
  <2>4. n \in 1..Cardinality(Ids)
    BY <1>1, <2>2, <2>3
  <2>5. PValue(Wins(p.evidence), n) \in 0..Certain
    BY <1>1, <2>2, <2>4
  <2> QED
    BY <1>1, <2>4, <2>5 DEF n
<1> QED
  BY <1>1, <1>2, <1>4, <1>5, <1>6, <1>7 DEF Studied

\* What FamilyIsCorrected says of the patterns L with their verdicts.
PValueOf(v) == PValue(v.wins, v.sample)

Corrected(L) ==
    \A v \in L :
        v.status = "VALIDATED" <=>
            /\ v.sample >= MinSample
            /\ \E u \in L : /\ PValueOf(u) >= PValueOf(v)
                            /\ PValueOf(u) * Cardinality(L) <= Cardinality({w \in L : PValueOf(w) <= PValueOf(u)}) * Alpha
            /\ ExcludesBaseline(v.wins, v.sample)

LEMMA VerdictIs ==
    ASSUME NEW p, NEW C
    PROVE  /\ ValidatedPattern(p, p.at \in C).group = p.group
           /\ ValidatedPattern(p, p.at \in C).evidence = p.evidence
           /\ PValueOf(ValidatedPattern(p, p.at \in C)) = PValue(Wins(p.evidence), Len(p.evidence))
           /\ ValidatedPattern(p, p.at \in C).sample = Len(p.evidence)
           /\ ValidatedPattern(p, p.at \in C).wins = Wins(p.evidence)
           /\ ValidatedPattern(p, p.at \in C).status = "VALIDATED" <=>
                ~(Len(p.evidence) < MinSample) /\ p.at \in C /\ ExcludesBaseline(Wins(p.evidence), Len(p.evidence))
<1> DEFINE w == Wins(p.evidence)
           n == Len(p.evidence)
<1>1. ValidatedPattern(p, p.at \in C) =
        [group |-> p.group, evidence |-> p.evidence, wins |-> w, sample |-> n,
         drawdown |-> MaxDrawdown(p.evidence), status |-> Classify(w, n, p.at \in C)]
  BY DEF ValidatedPattern
<1>2. Classify(w, n, p.at \in C) = "VALIDATED" <=> ~(n < MinSample) /\ p.at \in C /\ ExcludesBaseline(w, n)
  BY DEF Classify
<1> QED
  BY <1>1, <1>2 DEF PValueOf

LEMMA ValidateCorrects ==
    ASSUME NEW P, Studied(P)
    PROVE  Corrected(Validate(P))
<1> DEFINE L == Validate(P)
           Test(p) == [at |-> p.at, p |-> PValue(Wins(p.evidence), Len(p.evidence))]
           F == {Test(p) : p \in P}
           C == {t.at : t \in BenjaminiHochberg(F)}
           Verdict(p) == ValidatedPattern(p, p.at \in C)
<1>1. Alpha \in Nat /\ MinSample \in Nat
  BY LearningAssumption DEF LearningAssumption
<1>2. L = {Verdict(p) : p \in P}
  BY DEF Validate
<1>3. \A p \in P : /\ Test(p).at = p.at /\ Test(p).p = PValue(Wins(p.evidence), Len(p.evidence))
                   /\ Test(p).at \in Int /\ Test(p).p \in Int
  BY DEF Studied
<1>4. \A p, q \in P : Test(p) = Test(q) => p = q
  BY DEF Studied
<1>5. /\ F = {Test(p) : p \in P}
      /\ C = {t.at : t \in BenjaminiHochberg(F)}
  OBVIOUS
<1>6. \A p \in P : /\ Verdict(p).group = p.group
                   /\ PValueOf(Verdict(p)) = Test(p).p
                   /\ Verdict(p).sample = Len(p.evidence) /\ Verdict(p).wins = Wins(p.evidence)
                   /\ Verdict(p).status = "VALIDATED" <=>
                        ~(Len(p.evidence) < MinSample) /\ p.at \in C /\ ExcludesBaseline(Wins(p.evidence), Len(p.evidence))
  BY VerdictIs
<1>7. \A p, q \in P : Verdict(p) = Verdict(q) => p = q
  <2> HIDE DEF Verdict
  <2> QED
    BY <1>6 DEF Studied
<1>8. \A p \in P : \A t \in F : t.at = p.at => t = Test(p)
  BY DEF Studied
<1> HIDE DEF Test, Verdict, F, C, L
<1>9. /\ IsFiniteSet(F) /\ Cardinality(F) = Cardinality(P)
  <2> DEFINE f == [p \in P |-> Test(p)]
  <2>1. /\ f \in [P -> F] /\ IsFiniteSet(P)
        /\ \A x, y \in P : f[x] = f[y] => x = y
        /\ \A t \in F : \E p \in P : f[p] = t
    BY <1>4, <1>5 DEF Studied
  <2> HIDE DEF f
  <2> QED
    BY <2>1, SameSize
<1>10. Cardinality(L) = Cardinality(P)
  <2> DEFINE f == [p \in P |-> Verdict(p)]
  <2>1. /\ f \in [P -> L] /\ IsFiniteSet(P)
        /\ \A x, y \in P : f[x] = f[y] => x = y
        /\ \A v \in L : \E p \in P : f[p] = v
    BY <1>2, <1>7 DEF Studied
  <2> HIDE DEF f
  <2> QED
    BY <2>1, SameSize
<1>11. Family(F)
  <2>1. \A s, t \in F : s.at = t.at => s = t
    BY <1>3, <1>5, <1>8
  <2> QED
    BY <1>3, <1>5, <1>9, <2>1 DEF Family
<1>12. ASSUME NEW p \in P
       PROVE  Cardinality({w \in L : PValueOf(w) <= Test(p).p}) = AtMost(Test(p), F)
  <2> DEFINE some == {q \in P : Test(q).p <= Test(p).p}
             tests == {s \in F : s.p <= Test(p).p}
             verdicts == {w \in L : PValueOf(w) <= Test(p).p}
             f == [q \in some |-> Test(q)]
             g == [q \in some |-> Verdict(q)]
  <2>1. IsFiniteSet(some)
    BY FS_Subset DEF Studied
  <2>2. /\ f \in [some -> tests]
        /\ \A x, y \in some : f[x] = f[y] => x = y
        /\ \A t \in tests : \E q \in some : f[q] = t
    BY <1>4, <1>5
  <2>3. /\ g \in [some -> verdicts]
        /\ \A x, y \in some : g[x] = g[y] => x = y
        /\ \A v \in verdicts : \E q \in some : g[q] = v
    BY <1>2, <1>6, <1>7
  <2> HIDE DEF f, g, some, tests, verdicts
  <2>4. Cardinality(tests) = Cardinality(some)
    BY <2>1, <2>2, SameSize
  <2>5. Cardinality(verdicts) = Cardinality(some)
    BY <2>1, <2>3, SameSize
  <2> QED
    BY <2>4, <2>5 DEF tests, verdicts, AtMost
<1>13. ASSUME NEW p \in P
       PROVE  p.at \in C <=>
                \E q \in P : /\ Test(q).p >= Test(p).p
                             /\ Test(q).p * Cardinality(P) <= AtMost(Test(q), F) * Alpha
  <2>1. Test(p) \in F
    BY <1>5
  <2>2. p.at \in C <=> Test(p) \in BenjaminiHochberg(F)
    <3>1. BenjaminiHochberg(F) \in SUBSET F
      BY DEF BenjaminiHochberg
    <3> QED
      BY <1>3, <1>5, <1>8, <3>1
  <2>3. Test(p) \in BenjaminiHochberg(F) <=>
          \E u \in F : u.p >= Test(p).p /\ u.p * Cardinality(F) <= AtMost(u, F) * Alpha
    BY <1>1, <1>11, <2>1, BenjaminiHochbergIs
  <2> QED
    BY <1>5, <1>9, <2>2, <2>3
<1>14. ASSUME NEW p \in P
       PROVE  Verdict(p).status = "VALIDATED" <=>
                /\ Verdict(p).sample >= MinSample
                /\ \E u \in L : /\ PValueOf(u) >= PValueOf(Verdict(p))
                                /\ PValueOf(u) * Cardinality(L) <=
                                     Cardinality({w \in L : PValueOf(w) <= PValueOf(u)}) * Alpha
                /\ ExcludesBaseline(Verdict(p).wins, Verdict(p).sample)
  <2> DEFINE AtMostIn(x) == Cardinality({w \in L : PValueOf(w) <= x})
  <2>0. \A q \in P : AtMostIn(Test(q).p) = AtMost(Test(q), F)
    BY <1>12
  <2> HIDE DEF AtMostIn
  <2>a. \A q \in P : PValueOf(Verdict(q)) = Test(q).p /\ AtMostIn(PValueOf(Verdict(q))) = AtMost(Test(q), F)
    BY <1>6, <2>0
  <2>b. p.at \in C <=>
          \E q \in P : /\ PValueOf(Verdict(q)) >= PValueOf(Verdict(p))
                       /\ PValueOf(Verdict(q)) * Cardinality(L) <= AtMostIn(PValueOf(Verdict(q))) * Alpha
    BY <1>10, <1>13, <2>a
  <2>1. p.at \in C <=>
          \E q \in P : /\ PValueOf(Verdict(q)) >= PValueOf(Verdict(p))
                       /\ PValueOf(Verdict(q)) * Cardinality(L) <=
                            Cardinality({w \in L : PValueOf(w) <= PValueOf(Verdict(q))}) * Alpha
    BY <2>b DEF AtMostIn
  <2>2. ~(Len(p.evidence) < MinSample) <=> Verdict(p).sample >= MinSample
    BY <1>1, <1>6 DEF Studied
  <2> QED
    BY <1>2, <1>6, <2>1, <2>2
<1>15. \A v \in L : \E p \in P : v = Verdict(p)
  BY <1>2
<1> QED
  BY <1>14, <1>15 DEF Corrected, L

\* The rows of a dataset, oldest first, are of different predictions.
LEMMA DatasetIsDistinct ==
    ASSUME NEW g \in Seq(Records), Distinct(g)
    PROVE  Sorted(Dataset(g)) \in Seq({LearningRecord(x) : x \in Records}) /\ Distinct(Sorted(Dataset(g)))
<1> DEFINE places == {k \in Positions(g) : g[k].r # None}
           settled == Picked(g, places)
           d == Dataset(g)
           e == Sorted(d)
           Rows == {LearningRecord(x) : x \in Records}
<1>1. places \in SUBSET (1..Len(g))
  BY DEF Positions
<1>2. d = [k \in 1..Len(settled) |-> LearningRecord(settled[k])]
  BY DEF Dataset
<1> HIDE DEF places
<1>3. settled \in Seq(Records) /\ Distinct(settled)
  BY <1>1, PickedIsDistinct
<1> HIDE DEF settled, d
<1>4. \A x : LearningRecord(x).id = x.id
  BY DEF LearningRecord
<1>5. /\ d \in Seq(Rows) /\ Len(d) = Len(settled) /\ Len(d) \in Nat
      /\ \A k \in 1..Len(d) : d[k].id = settled[k].id
  <2> HIDE DEF Rows
  <2>1. \A k \in 1..Len(settled) : LearningRecord(settled[k]) \in Rows
    BY <1>3 DEF Rows
  <2> QED
    BY <1>2, <1>3, <1>4, <2>1
<1>6. Distinct(d)
  BY <1>3, <1>5 DEF Distinct
<1>7. e = [k \in 1..Len(d) |-> d[Len(d) - k + 1]]
  BY DEF Sorted, Reverse
<1> HIDE DEF e, Rows
<1>8. \A k \in 1..Len(d) : Len(d) - k + 1 \in 1..Len(d) /\ d[Len(d) - k + 1] \in Rows
  BY <1>5
<1>9. e \in Seq(Rows) /\ Len(e) = Len(d) /\ \A k \in 1..Len(e) : e[k] = d[Len(d) - k + 1]
  BY <1>5, <1>7, <1>8
<1>10. Distinct(e)
  <2>1. \A k \in 1..Len(e) : e[k].id \in Ids
    BY <1>6, <1>8, <1>9 DEF Distinct
  <2>2. ASSUME NEW m \in 1..Len(e), NEW n \in 1..Len(e), m < n
        PROVE  e[m].id # e[n].id
    <3> DEFINE i == Len(d) - n + 1
               j == Len(d) - m + 1
    <3>1. i \in 1..Len(d) /\ j \in 1..Len(d) /\ i < j
      BY <1>5, <1>9, <2>2
    <3>2. e[m] = d[j] /\ e[n] = d[i]
      BY <1>9
    <3> HIDE DEF i, j
    <3>3. d[i].id # d[j].id
      BY <1>6, <3>1 DEF Distinct
    <3> QED
      BY <3>2, <3>3
  <2> QED
    BY <2>1, <2>2 DEF Distinct
<1> QED
  BY <1>9, <1>10 DEF e, d, Rows

\* The records that a walk has kept.
LEMMA KeptAreDistinct ==
    ASSUME IInv, walk # None
    PROVE  /\ [k \in 1..Len(walk.got) |-> walk.got[k].record] \in Seq(Records)
           /\ Distinct([k \in 1..Len(walk.got) |-> walk.got[k].record])
<1> DEFINE g == [k \in 1..Len(walk.got) |-> walk.got[k].record]
<1>1. walk.got \in Seq(Entries) /\ InTurn
  BY DEF IInv, WalkInv, Walks, Entries
<1>2. Len(walk.got) \in Nat /\ \A k \in 1..Len(walk.got) : walk.got[k].record \in Records
  <2>1. \A k \in 1..Len(walk.got) : walk.got[k] \in Entries
    BY <1>1, ElementOfSeq
  <2> QED
    BY <1>1, <2>1 DEF Entries
<1>3. g \in Seq(Records) /\ Len(g) = Len(walk.got) /\ \A k \in 1..Len(g) : g[k] = walk.got[k].record
  BY <1>2
<1> HIDE DEF g
<1>4. \A k \in 1..Len(g) : g[k].id \in Ids
  BY <1>2, <1>3, RecordIs
<1>5. \A m, n \in 1..Len(g) : m < n => Older(g[n].id, g[m].id)
  BY <1>1, <1>3 DEF InTurn, IdAt
<1>6. \A i \in Ids : ~Older(i, i)
  BY RetrievalAssumption DEF Older, RetrievalAssumption
<1>7. Distinct(g)
  BY <1>4, <1>5, <1>6 DEF Distinct
<1> QED
  BY <1>3, <1>7 DEF g

LEMMA LearnedIsCorrected ==
    ASSUME IInv, BuildDataset
    PROVE  Corrected(learned')
<1> DEFINE g == [k \in 1..Len(walk.got) |-> walk.got[k].record]
<1>1. learned' = Validate(Patterns(Sorted(Dataset(g)))) /\ walk # None
  BY DEF BuildDataset
<1>2. g \in Seq(Records) /\ Distinct(g)
  BY <1>1, KeptAreDistinct
<1> HIDE DEF g
<1> DEFINE e == Sorted(Dataset(g))
           Rows == {LearningRecord(x) : x \in Records}
<1>3. e \in Seq(Rows) /\ Distinct(e)
  BY <1>2, DatasetIsDistinct
<1> HIDE DEF e, Rows
<1>4. Studied(Patterns(e))
  BY <1>3, PatternsAre
<1>5. Corrected(Validate(Patterns(e)))
  BY <1>4, ValidateCorrects
<1> QED
  BY <1>1, <1>5 DEF e

\* A pattern is validated exactly when it is large enough, its interval excludes
\* the coin flip, and the step-up rule of Benjamini and Hochberg over the whole
\* family admits it (statistics.py, _benjamini_hochberg and validate).
THEOREM FamilyIsCorrectedHolds == Spec => []FamilyIsCorrected
<1>1. Init => Corrected(learned)
  BY DEF Init, Corrected
<1>2. IInv /\ Corrected(learned) /\ [Next]_vars => Corrected(learned)'
  <2>1. learned' = learned => Corrected(learned)' = Corrected(learned)
    BY DEF Corrected, PValueOf
  <2>2. IInv /\ BuildDataset => Corrected(learned)'
    <3>1. Corrected(learned)' = Corrected(learned')
      BY DEF Corrected, PValueOf
    <3> QED
      BY <3>1, LearnedIsCorrected
  <2>3. [Next]_vars => BuildDataset \/ learned' = learned
    BY DEF Next, Read, Write, TurnPage, BeginDataset, BeginSimilar, BeginBackfill, AnswerSimilar,
           EmbedNext, EndBackfill, vars, results
  <2> QED
    BY <2>1, <2>2, <2>3
<1>3. Corrected(learned) => FamilyIsCorrected
  BY DEF Corrected, PValueOf, FamilyIsCorrected
<1> QED
  BY <1>1, <1>2, <1>3, InductiveInvariant, PTL DEF Spec

-----------------------------------------------------------------------------
(* The nearest neighbours *)

Fractions == [num : Nat, den : Nat \ {0}]

\* The fractions are ordered as numbers are.
LEMMA AboveOrders ==
    ASSUME NEW a \in Fractions, NEW b \in Fractions, NEW c \in Fractions
    PROVE  /\ ~Above(a, a)
           /\ Above(a, b) => ~Above(b, a)
           /\ ~Above(a, b) /\ ~Above(b, c) => ~Above(a, c)
<1> DEFINE an == a.num
           ad == a.den
           bn == b.num
           bd == b.den
           cn == c.num
           cd == c.den
<1>1. an \in Nat /\ bn \in Nat /\ cn \in Nat /\ ad \in Nat \ {0} /\ bd \in Nat \ {0} /\ cd \in Nat \ {0}
  BY DEF Fractions
<1>2. /\ Above(a, a) <=> an * ad > an * ad
      /\ Above(a, b) <=> an * bd > bn * ad
      /\ Above(b, a) <=> bn * ad > an * bd
      /\ Above(b, c) <=> bn * cd > cn * bd
      /\ Above(a, c) <=> an * cd > cn * ad
  BY DEF Above
<1> HIDE DEF an, ad, bn, bd, cn, cd
<1>3. /\ an * ad \in Nat /\ an * bd \in Nat /\ bn * ad \in Nat
      /\ bn * cd \in Nat /\ cn * bd \in Nat /\ an * cd \in Nat /\ cn * ad \in Nat
  BY <1>1
<1>4. ASSUME an * bd <= bn * ad, bn * cd <= cn * bd
      PROVE  an * cd <= cn * ad
  <2>1. \A x, y, z \in Nat : x <= y => x * z <= y * z
    OBVIOUS
  <2>2. (an * bd) * cd <= (bn * ad) * cd
    BY <1>1, <1>3, <1>4, <2>1
  <2>3. (bn * cd) * ad <= (cn * bd) * ad
    BY <1>1, <1>3, <1>4, <2>1
  <2>4. (bn * ad) * cd = (bn * cd) * ad /\ (an * bd) * cd = (an * cd) * bd /\ (cn * bd) * ad = (cn * ad) * bd
    BY <1>1
  <2>5. (an * cd) * bd <= (cn * ad) * bd
    <3>1. (an * bd) * cd \in Nat /\ (bn * ad) * cd \in Nat /\ (cn * bd) * ad \in Nat
      BY <1>1
    <3> QED
      BY <2>2, <2>3, <2>4, <3>1
  <2>6. \A x, y \in Nat : \A z \in Nat \ {0} : x * z <= y * z => x <= y
    OBVIOUS
  <2> QED
    BY <1>1, <1>3, <2>5, <2>6
<1> QED
  BY <1>2, <1>3, <1>4

LEMMA CosineIs ==
    ASSUME NEW A, NEW B, IsFiniteSet(A), IsFiniteSet(B)
    PROVE  Cosine(A, B) \in Fractions
<1> DEFINE common == Cardinality(A \cap B)
<1>1. A \cap B \in SUBSET A /\ A \cap B \in SUBSET B
  OBVIOUS
<1>2. IsFiniteSet(A \cap B) /\ common <= Cardinality(A) /\ common <= Cardinality(B)
  BY <1>1, FS_Subset
<1>3. common \in Nat /\ Cardinality(A) \in Nat /\ Cardinality(B) \in Nat
  BY <1>2, FS_CardinalityType
<1>4. Cosine(A, B) = IF common = 0 THEN [num |-> 0, den |-> 1]
                     ELSE [num |-> common * common, den |-> Cardinality(A) * Cardinality(B)]
  BY DEF Cosine
<1> HIDE DEF common
<1>5. common # 0 => common * common \in Nat /\ Cardinality(A) * Cardinality(B) \in Nat \ {0}
  <2>1. \A x, y \in Nat \ {0} : x * y \in Nat \ {0}
    OBVIOUS
  <2> QED
    BY <1>2, <1>3, <2>1
<1> QED
  BY <1>4, <1>5 DEF Fractions

\* Scored notes with ids of their own are ordered by Nearer.
NoteOrder(A) == {pair \in A \X A : Nearer(pair[1], pair[2])}

LEMMA NearerOrders ==
    ASSUME NEW A, \A n \in A : n.id \in Int /\ n.score \in Fractions,
           \A m, n \in A : m.id = n.id => m = n
    PROVE  Orders(NoteOrder(A), A)
<1> DEFINE R == NoteOrder(A)
<1>1. \A m, n \in A : <<m, n>> \in R <=> Nearer(m, n)
  BY DEF NoteOrder
<1> HIDE DEF R
<1>2. \A m, n \in A : Nearer(m, n) <=>
        Above(m.score, n.score) \/ (~Above(n.score, m.score) /\ m.id < n.id)
  BY DEF Nearer
<1>3. \A a, b, c \in Fractions :
        /\ ~Above(a, a)
        /\ Above(a, b) => ~Above(b, a)
        /\ ~Above(a, b) /\ ~Above(b, c) => ~Above(a, c)
  BY AboveOrders
<1>4. \A n \in A : ~Nearer(n, n)
  BY <1>2, <1>3
<1>5. ASSUME NEW l \in A, NEW m \in A, NEW n \in A, Nearer(l, m), Nearer(m, n)
      PROVE  Nearer(l, n)
  <2>1. l.id \in Int /\ m.id \in Int /\ n.id \in Int
    OBVIOUS
  <2>2. ~Above(m.score, l.score) /\ ~Above(n.score, m.score)
    BY <1>2, <1>3, <1>5
  <2>3. ~Above(n.score, l.score)
    BY <1>3, <2>2
  <2>4. CASE Above(l.score, m.score)
    <3>1. ~Above(l.score, n.score) => ~Above(l.score, m.score)
      BY <1>3, <2>2
    <3> QED
      BY <1>2, <2>4, <3>1
  <2>5. CASE Above(m.score, n.score)
    <3>1. ~Above(l.score, n.score) => ~Above(m.score, n.score)
      BY <1>3, <2>2
    <3> QED
      BY <1>2, <2>5, <3>1
  <2>6. CASE ~Above(l.score, m.score) /\ ~Above(m.score, n.score)
    <3>1. l.id < n.id
      BY <1>2, <1>5, <2>1, <2>6
    <3> QED
      BY <1>2, <2>3, <3>1
  <2> QED
    BY <2>4, <2>5, <2>6
<1>6. \A m, n \in A : m = n \/ Nearer(m, n) \/ Nearer(n, m)
  <2>1. ASSUME NEW m \in A, NEW n \in A, m # n
        PROVE  Nearer(m, n) \/ Nearer(n, m)
    <3>1. m.id \in Int /\ n.id \in Int /\ m.id # n.id
      BY <2>1
    <3> QED
      BY <1>2, <3>1
  <2> QED
    BY <2>1
<1>7. \A l, m, n \in A : Nearer(l, m) /\ Nearer(m, n) => Nearer(l, n)
  BY <1>5
<1>8. Orders(R, A)
  <2>1. \A x \in A : <<x, x>> \notin R
    BY <1>1, <1>4
  <2>2. \A x, y, z \in A : <<x, y>> \in R /\ <<y, z>> \in R => <<x, z>> \in R
    BY <1>1, <1>7
  <2>3. \A x, y \in A : x = y \/ <<x, y>> \in R \/ <<y, x>> \in R
    BY <1>1, <1>6
  <2> QED
    BY <2>1, <2>2, <2>3 DEF Orders
<1> QED
  BY <1>8 DEF R

\* The function s has at each place a member of `best' whose place in A it is.
Ranked(s, best, R, A) ==
    /\ DOMAIN s = 1..Cardinality(best) /\ s = [p \in DOMAIN s |-> s[p]]
    /\ \A p \in 1..Cardinality(best) :
         (\E n \in best : Place(R, A, n) = p - 1) => s[p] \in best /\ Place(R, A, s[p]) = p - 1

\* The sequence s has the first k of A, or all, in their order.
FirstOf(s, k, best, R, A) ==
    /\ s \in Seq(best) /\ Len(s) <= k /\ Len(s) \in Nat
    /\ \A x \in best : \E n \in 1..Len(s) : s[n] = x
    /\ \A m, n \in 1..Len(s) : m < n => <<s[m], s[n]>> \in R
    /\ \A x \in A \ best : Len(s) = k /\ <<s[k], x>> \in R

LEMMA FirstAre ==
    ASSUME NEW A, IsFiniteSet(A), NEW R, Orders(R, A), NEW k \in Nat \ {0}, NEW s,
           NEW best \in SUBSET A, \A n \in A : n \in best <=> Place(R, A, n) < k,
           Ranked(s, best, R, A)
    PROVE  FirstOf(s, k, best, R, A)
<1>1. best \in SUBSET A
  OBVIOUS
<1>0. /\ DOMAIN s = 1..Cardinality(best) /\ s = [p \in DOMAIN s |-> s[p]]
      /\ \A p \in 1..Cardinality(best) :
           (\E n \in best : Place(R, A, n) = p - 1) => s[p] \in best /\ Place(R, A, s[p]) = p - 1
  BY DEF Ranked
<1>2. IsFiniteSet(best) /\ Cardinality(best) \in Nat /\ Cardinality(A) \in Nat
  BY <1>1, FS_Subset, FS_CardinalityType
<1>3. Orders(R, best)
  BY <1>1 DEF Orders
<1>4. ASSUME NEW n \in A
      PROVE  Place(R, A, n) \in 0..(Cardinality(A) - 1)
  BY PlaceType
<1>5. ASSUME NEW n \in best
      PROVE  Place(R, best, n) = Place(R, A, n)
  <2>1. ASSUME NEW m \in A, <<m, n>> \in R
        PROVE  m \in best
    <3>1. Place(R, A, m) < Place(R, A, n)
      BY <1>1, <2>1, PlaceGrows
    <3> QED
      BY <1>1, <1>2, <1>4, <3>1
  <2>2. Before(R, best, n) = Before(R, A, n)
    BY <1>1, <2>1 DEF Before
  <2> QED
    BY <2>2 DEF Place
<1>6. ASSUME NEW p \in 1..Cardinality(best)
      PROVE  s[p] \in best /\ Place(R, best, s[p]) = p - 1
  <2>1. p - 1 \in 0..(Cardinality(best) - 1)
    BY <1>2
  <2>2. \E n \in best : Place(R, best, n) = p - 1
    <3>1. AllTaken(R, best)
      BY <1>2, <1>3, PlaceIsTaken
    <3> QED
      BY <2>1, <3>1 DEF AllTaken
  <2>3. s[p] \in best /\ Place(R, A, s[p]) = p - 1
    BY <1>0, <1>5, <2>2
  <2> QED
    BY <1>5, <2>3
<1>7. InOrder(R, best, s)
  <2>1. s \in [1..Cardinality(best) -> best]
    BY <1>0, <1>6
  <2> QED
    BY <1>6, <2>1 DEF InOrder
<1>8. /\ s \in Seq(best) /\ Len(s) = Cardinality(best) /\ Len(s) \in Nat
      /\ \A x \in best : \E n \in 1..Len(s) : s[n] = x
      /\ \A m, n \in 1..Len(s) : m < n => <<s[m], s[n]>> \in R
  BY <1>2, <1>3, <1>7, InOrderIs
<1>9. Len(s) <= k
  <2>1. CASE Len(s) = 0
    BY <2>1
  <2>2. CASE Len(s) # 0
    <3> DEFINE c == Len(s)
    <3>1. c \in 1..Cardinality(best) /\ c = Cardinality(best)
      BY <1>8, <2>2
    <3> HIDE DEF c
    <3>2. s[c] \in best /\ Place(R, best, s[c]) = c - 1
      BY <1>6, <3>1
    <3>3. c - 1 < k
      BY <1>5, <3>2
    <3> QED
      BY <1>2, <3>1, <3>3 DEF c
  <2> QED
    BY <2>1, <2>2
<1>10. ASSUME NEW x \in A \ best
       PROVE  Len(s) = k /\ <<s[k], x>> \in R
  <2>1. Place(R, A, x) >= k /\ Place(R, A, x) \in 0..(Cardinality(A) - 1)
    BY <1>2, <1>4
  <2>2. k - 1 \in 0..(Cardinality(A) - 1)
    BY <1>2, <2>1
  <2>3. PICK l \in A : Place(R, A, l) = k - 1
    <3>1. AllTaken(R, A)
      BY PlaceIsTaken
    <3> QED
      BY <2>2, <3>1 DEF AllTaken
  <2>4. l \in best
    BY <2>3
  <2>5. PICK n \in 1..Len(s) : s[n] = l
    BY <1>8, <2>4
  <2>6. n \in 1..Cardinality(best)
    BY <1>8
  <2>7. Place(R, best, s[n]) = n - 1 /\ Place(R, best, l) = Place(R, A, l)
    BY <1>5, <1>6, <2>4, <2>6
  <2>8. n = k
    BY <1>8, <2>3, <2>5, <2>7
  <2>9. x # l /\ <<x, l>> \notin R
    <3>1. ASSUME <<x, l>> \in R PROVE Place(R, A, x) < Place(R, A, l)
      BY <3>1, PlaceGrows
    <3> QED
      BY <1>2, <2>1, <2>3, <2>4, <3>1
  <2>10. <<l, x>> \in R
    BY <2>9 DEF Orders
  <2> QED
    BY <1>8, <1>9, <2>5, <2>8, <2>10
<1> QED
  BY <1>8, <1>9, <1>10 DEF FirstOf

\* Candidates of a search: finitely many, each of a prediction of its own.
Candidates(C) ==
    /\ IsFiniteSet(C)
    /\ \A c \in C : c.record.id \in Int /\ IsFiniteSet(c.vector)
    /\ \A c, d \in C : c.record.id = d.record.id => c = d

NoteOf(query, c) ==
    [id |-> c.record.id, score |-> Cosine(query, c.vector), result |-> c.record.result, r |-> c.record.r]

\* The notes `near' are the nearest of the candidates.
AreNearest(near, query, self, C, threshold, k) ==
    /\ Len(near) \in Nat /\ Len(near) <= k
    /\ \A p \in 1..Len(near) : near[p].id # self
    /\ \A p, q \in 1..Len(near) : p < q => Nearer(near[p], near[q])
    /\ \A c \in C :
         \/ c.record.id = self
         \/ Above(threshold, Cosine(query, c.vector))
         \/ \E p \in 1..Len(near) : near[p].id = c.record.id
         \/ Len(near) = k /\ Nearer(near[k], NoteOf(query, c))

LEMMA NeighboursAre ==
    ASSUME NEW query, IsFiniteSet(query), NEW self, NEW C, Candidates(C), NEW threshold, NEW k \in Nat \ {0}
    PROVE  AreNearest(Neighbours(query, self, C, threshold, k), query, self, C, threshold, k)
<1> DEFINE others == {d \in C : d.record.id # self}
           scored == {NoteOf(query, c) : c \in others}
           A == {n \in scored : ~Above(threshold, n.score)}
           R == NoteOrder(A)
           place(n) == Cardinality({m \in A : Nearer(m, n)}) + 1
           best == {n \in A : place(n) <= k}
           near == Neighbours(query, self, C, threshold, k)
<1>1. near = [p \in 1..Cardinality(best) |-> CHOOSE n \in best : place(n) = p]
  BY DEF Neighbours, NoteOf
<1>2. \A c \in C : /\ NoteOf(query, c).id = c.record.id /\ NoteOf(query, c).score = Cosine(query, c.vector)
                   /\ NoteOf(query, c).id \in Int /\ NoteOf(query, c).score \in Fractions
  BY CosineIs DEF NoteOf, Candidates
<1>3. IsFiniteSet(A)
  <2> DEFINE f == [c \in others |-> NoteOf(query, c)]
  <2>1. IsFiniteSet(others)
    BY FS_Subset DEF Candidates
  <2>2. /\ f \in [others -> scored]
        /\ \A x, y \in others : f[x] = f[y] => x = y
        /\ \A z \in scored : \E x \in others : f[x] = z
    BY <1>2 DEF Candidates
  <2> HIDE DEF f, others, scored
  <2>3. IsFiniteSet(scored)
    BY <2>1, <2>2, SameSize
  <2> QED
    BY <2>3, FS_Subset
<1>4. \A n \in A : n.id \in Int /\ n.score \in Fractions /\ n.id # self
  BY <1>2
<1>5. \A m, n \in A : m.id = n.id => m = n
  BY <1>2 DEF Candidates
<1>6. ASSUME NEW c \in C
      PROVE  \/ c.record.id = self
             \/ Above(threshold, Cosine(query, c.vector))
             \/ NoteOf(query, c) \in A
  BY <1>2
<1> HIDE DEF A
<1>7. Orders(R, A)
  BY <1>4, <1>5, NearerOrders
<1>8. \A m, n : <<m, n>> \in R => Nearer(m, n)
  BY DEF NoteOrder
<1>9. ASSUME NEW n \in A
      PROVE  place(n) = Place(R, A, n) + 1 /\ Place(R, A, n) \in Int
  <2>1. {m \in A : Nearer(m, n)} = Before(R, A, n)
    BY DEF Before, NoteOrder
  <2>2. Place(R, A, n) \in 0..(Cardinality(A) - 1) /\ Cardinality(A) \in Nat
    BY <1>3, <1>7, PlaceType, FS_CardinalityType
  <2> QED
    BY <2>1, <2>2 DEF Place
<1> HIDE DEF R, place
<1>10. \A n \in A : n \in best <=> Place(R, A, n) < k
  BY <1>9
<1>11. best \in SUBSET A
  OBVIOUS
<1> HIDE DEF best, near
<1>12. ASSUME NEW p \in 1..Cardinality(best), \E n \in best : Place(R, A, n) = p - 1
       PROVE  near[p] \in best /\ Place(R, A, near[p]) = p - 1
  <2>1. near[p] = CHOOSE n \in best : place(n) = p
    BY <1>1
  <2>2. p \in Int
    BY <1>3, <1>11, FS_Subset, FS_CardinalityType
  <2>3. \E n \in best : place(n) = p
    BY <1>9, <1>11, <1>12, <2>2
  <2>4. near[p] \in best /\ place(near[p]) = p
    BY <2>1, <2>3
  <2> QED
    BY <1>9, <1>11, <2>2, <2>4
<1>13. FirstOf(near, k, best, R, A)
  <2>1. DOMAIN near = 1..Cardinality(best) /\ near = [p \in DOMAIN near |-> near[p]]
    BY <1>1
  <2>2. Ranked(near, best, R, A)
    BY <1>12, <2>1 DEF Ranked
  <2> QED
    BY <1>3, <1>7, <1>10, <1>11, <2>2, FirstAre
<1>14. /\ near \in Seq(best) /\ Len(near) <= k /\ Len(near) \in Nat
       /\ \A x \in best : \E n \in 1..Len(near) : near[n] = x
       /\ \A m, n \in 1..Len(near) : m < n => <<near[m], near[n]>> \in R
       /\ \A x \in A \ best : Len(near) = k /\ <<near[k], x>> \in R
  BY <1>13 DEF FirstOf
<1>15. \A p \in 1..Len(near) : near[p].id # self
  BY <1>4, <1>11, <1>14
<1>16. ASSUME NEW c \in C, c.record.id # self, ~Above(threshold, Cosine(query, c.vector))
       PROVE  \/ \E p \in 1..Len(near) : near[p].id = c.record.id
              \/ Len(near) = k /\ Nearer(near[k], NoteOf(query, c))
  <2>1. NoteOf(query, c) \in A
    BY <1>6, <1>16
  <2>2. CASE NoteOf(query, c) \in best
    BY <1>2, <1>14, <2>2
  <2>3. CASE NoteOf(query, c) \notin best
    BY <1>8, <1>14, <2>1, <2>3
  <2> QED
    BY <2>2, <2>3
<1> QED
  BY <1>8, <1>14, <1>15, <1>16 DEF AreNearest, near

LEMMA VectorsAreFinite ==
    ASSUME NEW vector \in Embeddings
    PROVE  IsFiniteSet(vector)
<1>1. PICK record \in Records : vector = FeatureVector(record)
  BY DEF Embeddings
<1>2. \A name, value : IsFiniteSet(OneHot(name, value))
  <2>1. \A name, value : OneHot(name, value) = {} \/ OneHot(name, value) = {<<name, value>>}
    BY DEF OneHot
  <2>2. IsFiniteSet({})
    BY FS_EmptySet
  <2>3. \A x : IsFiniteSet({x})
    BY FS_Singleton
  <2>4. ASSUME NEW name, NEW value
        PROVE  IsFiniteSet(OneHot(name, value))
    <3>1. IsFiniteSet({<<name, value>>})
      BY <2>3
    <3>2. OneHot(name, value) = {} \/ OneHot(name, value) = {<<name, value>>}
      BY <2>1
    <3> QED
      BY <2>2, <3>1, <3>2
  <2> QED
    BY <2>4
<1>3. \A A, B : IsFiniteSet(A) /\ IsFiniteSet(B) => IsFiniteSet(A \cup B)
  BY FS_Union
<1> DEFINE reasoning == OneHot("reasoning_present", IF record.built THEN TRUE ELSE None)
           embedding == OneHot("embedding_present", IF record.embedded THEN TRUE ELSE None)
           symbol == OneHot("symbol", record.context.symbol)
           regime == OneHot("market_regime", record.context.regime)
           result == OneHot("trade_result", record.result)
<1>4. vector = symbol \cup regime \cup result \cup reasoning \cup embedding
  BY <1>1 DEF FeatureVector
<1>5. IsFiniteSet(symbol) /\ IsFiniteSet(regime) /\ IsFiniteSet(result) /\ IsFiniteSet(reasoning) /\ IsFiniteSet(embedding)
  BY <1>2
<1> HIDE DEF symbol, regime, result, reasoning, embedding
<1> QED
  BY <1>3, <1>4, <1>5

LEMMA WalkHasCandidates ==
    ASSUME IInv, walk # None, walk.kind = "similar"
    PROVE  Candidates(Range(walk.got)) /\ IsFiniteSet(walk.query)
<1> DEFINE all == 1..Len(walk.got)
           C == Range(walk.got)
<1>1. walk.got \in Seq(Entries) /\ InTurn /\ KeptAsIs /\ walk.query \in Embeddings \cup {{}}
  BY DEF IInv, WalkInv, Walks, Entries
<1>2. Len(walk.got) \in Nat /\ DOMAIN walk.got = all
  BY <1>1
<1>3. C = {walk.got[n] : n \in all}
  BY <1>2 DEF Range
<1>4. ASSUME NEW n \in all
      PROVE  IdAt(n) \in Ids /\ IsFiniteSet(walk.got[n].vector)
  <2>1. walk.got[n].record \in Records /\ walk.got[n].vector \in Embeddings \cup {None}
    <3>1. walk.got[n] \in Entries
      BY <1>1, ElementOfSeq
    <3> QED
      BY <3>1 DEF Entries
  <2>2. walk.got[n].vector # None
    BY <1>1 DEF KeptAsIs
  <2> QED
    BY <2>1, <2>2, RecordIs, VectorsAreFinite DEF IdAt
<1>5. \A i \in Ids : ~Older(i, i) /\ i \in Int
  BY RetrievalAssumption DEF Older, RetrievalAssumption
<1>6. \A m, n \in all : IdAt(m) = IdAt(n) => m = n
  BY <1>1, <1>2, <1>4, <1>5 DEF InTurn
<1>7. IsFiniteSet(C)
  <2> DEFINE f == [n \in all |-> walk.got[n]]
  <2>1. IsFiniteSet(all)
    BY <1>2, FS_Interval
  <2>2. /\ f \in [all -> C]
        /\ \A m, n \in all : f[m] = f[n] => m = n
        /\ \A c \in C : \E n \in all : f[n] = c
    BY <1>3, <1>6 DEF IdAt
  <2> HIDE DEF f, all, C
  <2> QED
    BY <2>1, <2>2, SameSize
<1>8. \A c, d \in C : c.record.id = d.record.id => c = d
  BY <1>3, <1>6 DEF IdAt
<1>9. \A c \in C : c.record.id \in Int /\ IsFiniteSet(c.vector)
  BY <1>3, <1>4, <1>5 DEF IdAt
<1>10. IsFiniteSet(walk.query)
  BY <1>1, VectorsAreFinite, FS_EmptySet
<1> QED
  BY <1>7, <1>8, <1>9, <1>10 DEF Candidates

\* What NeighboursAreTheNearest says of the answer f.
Nearest(f) ==
    f # None =>
        LET near == f.neighbours
            scored(s) == [id |-> s.id, score |-> Cosine(f.query, s.vector)]
            before(m, n) == Above(m.score, n.score) \/ (~Above(n.score, m.score) /\ m.id < n.id)
            listed == {near[p].id : p \in 1..Len(near)}
        IN  /\ f.self \notin listed /\ Len(near) <= Neighbourhood
            /\ \A p, q \in 1..Len(near) : p < q => before(near[p], near[q])
            /\ \A s \in f.steady :
                  \/ s.id \in listed \cup {f.self}
                  \/ Above(Threshold, scored(s).score)
                  \/ Len(near) = Neighbourhood /\ before(near[Len(near)], scored(s))
                  \/ f.capped /\ Older(s.id, f.oldest)

LEMMA AnswerIsNearest ==
    ASSUME IInv, AnswerSimilar
    PROVE  Nearest(found')
<1> DEFINE C == Range(walk.got)
           near == Neighbours(walk.query, walk.self, C, Threshold, Neighbourhood)
           steady == {s \in walk.steady : s.vector # None /\ vectors[s.id] = s.vector}
           oldest == IF walk.got = <<>> THEN None ELSE walk.got[Len(walk.got)].record.id
           capped == Len(walk.got) >= CandidateCap
           listed == {near[p].id : p \in 1..Len(near)}
           Scored(s) == [id |-> s.id, score |-> Cosine(walk.query, s.vector)]
<1>1. walk # None /\ walk.kind = "similar" /\ walk.ended
  BY DEF AnswerSimilar
<1>2. /\ found'.neighbours = near /\ found'.self = walk.self /\ found'.query = walk.query
      /\ found'.oldest = oldest /\ found'.steady = steady
      /\ found'.capped <=> capped
  BY DEF AnswerSimilar
<1>3. Neighbourhood \in Nat \ {0} /\ CandidateCap \in Nat \ {0}
  BY KnowledgeAssumption DEF KnowledgeAssumption
<1>4. AreNearest(near, walk.query, walk.self, C, Threshold, Neighbourhood)
  BY <1>1, <1>3, WalkHasCandidates, NeighboursAre
<1>5. walk.got \in Seq(Entries) /\ Len(walk.got) \in Nat
  BY <1>1 DEF IInv, WalkInv, Walks, Entries
<1>6. \A n \in 1..Len(walk.got) : walk.got[n] \in C /\ walk.got[n].record.id = IdAt(n)
  BY <1>5 DEF Range, IdAt
<1> HIDE DEF near, C, listed
<1>7. ASSUME NEW s \in steady
      PROVE  \/ s.id \in listed \cup {walk.self}
             \/ Above(Threshold, Scored(s).score)
             \/ Len(near) = Neighbourhood /\ Nearer(near[Len(near)], Scored(s))
             \/ capped /\ Older(s.id, oldest)
  <2>1. /\ s \in walk.steady /\ s.vector # None /\ vectors[s.id] = s.vector
        /\ AccountedFor(s) /\ StoodStill(s)
    BY <1>1 DEF IInv, WalkInv
  <2>2. ~Ahead(s.id)
    BY <1>1 DEF Ahead
  <2>3. \/ \E n \in 1..Len(walk.got) : IdAt(n) = s.id
        \/ Len(walk.got) >= CandidateCap /\ Older(s.id, IdAt(Len(walk.got)))
    BY <1>1, <2>1, <2>2 DEF AccountedFor
  <2>4. CASE Len(walk.got) >= CandidateCap /\ Older(s.id, IdAt(Len(walk.got)))
    <3>1. walk.got # <<>> /\ oldest = IdAt(Len(walk.got))
      BY <1>3, <1>5, <2>4 DEF IdAt
    <3> QED
      BY <2>4, <3>1
  <2>5. ASSUME NEW n \in 1..Len(walk.got), IdAt(n) = s.id
        PROVE  \/ s.id \in listed \cup {walk.self}
               \/ Above(Threshold, Scored(s).score)
               \/ Len(near) = Neighbourhood /\ Nearer(near[Len(near)], Scored(s))
    <3>1. walk.got[n] \in C /\ walk.got[n].record.id = s.id
      BY <1>6, <2>5
    <3>2. walk.got[n].vector = s.vector
      BY <1>1, <2>1, <2>5 DEF StoodStill
    <3>3. /\ NoteOf(walk.query, walk.got[n]).id = Scored(s).id
          /\ NoteOf(walk.query, walk.got[n]).score = Scored(s).score
      BY <3>1, <3>2 DEF NoteOf
    <3>4. \/ s.id = walk.self
          \/ Above(Threshold, Cosine(walk.query, s.vector))
          \/ \E p \in 1..Len(near) : near[p].id = s.id
          \/ Len(near) = Neighbourhood /\ Nearer(near[Neighbourhood], NoteOf(walk.query, walk.got[n]))
      BY <1>4, <3>1, <3>2 DEF AreNearest
    <3>5. \A m : Nearer(m, NoteOf(walk.query, walk.got[n])) => Nearer(m, Scored(s))
      BY <3>3 DEF Nearer
    <3> QED
      BY <3>4, <3>5 DEF listed
  <2> QED
    BY <2>3, <2>4, <2>5
<1>8. walk.self \notin listed /\ Len(near) <= Neighbourhood
      /\ \A p, q \in 1..Len(near) : p < q => Nearer(near[p], near[q])
  BY <1>4 DEF AreNearest, listed
<1> QED
  BY <1>2, <1>7, <1>8 DEF Nearest, Nearer, listed

\* The neighbours of a search are the nearest of the settled trades whose vectors
\* stood still, none twice and never the query itself (search.py, search).
THEOREM NeighboursAreTheNearestHolds == Spec => []NeighboursAreTheNearest
<1>1. Init => Nearest(found)
  BY DEF Init, Nearest
<1>2. IInv /\ Nearest(found) /\ [Next]_vars => Nearest(found)'
  <2>1. Nearest(found)' = Nearest(found')
    BY DEF Nearest, Cosine, Above, Older
  <2>2. [Next]_vars => AnswerSimilar \/ found' = found
    BY DEF Next, Read, Write, TurnPage, BeginDataset, BeginSimilar, BeginBackfill, BuildDataset,
           EmbedNext, EndBackfill, vars, results
  <2>3. found' = found => Nearest(found') = Nearest(found)
    OBVIOUS
  <2> QED
    BY <2>1, <2>2, <2>3, AnswerIsNearest
<1>3. Nearest(found) => NeighboursAreTheNearest
  BY DEF Nearest, NeighboursAreTheNearest
<1> QED
  BY <1>1, <1>2, <1>3, InductiveInvariant, PTL DEF Spec

-----------------------------------------------------------------------------
(* The evidence of the recommendations *)

\* The key that prediction i has in a dimension once its row says so.
KeyAt(dimension, i, row) == KeyOf(dimension, RecordWith(i, row, FALSE, FALSE))

LEMMA KeyIs ==
    ASSUME NEW dimension \in Dimensions, NEW i, NEW row, NEW record,
           record.context = Context(i), record.result = TradeResult(row.status)
    PROVE  KeyOf(dimension, record) = KeyAt(dimension, i, row)
<1> DEFINE other == RecordWith(i, row, FALSE, FALSE)
<1>1. other.context = record.context /\ other.result = record.result
  BY DEF RecordWith
<1> HIDE DEF other
<1>2. /\ dimension = "symbol" => KeyOf(dimension, record) = record.context.symbol
      /\ dimension = "symbol" => KeyOf(dimension, other) = other.context.symbol
      /\ dimension = "market_regime" => KeyOf(dimension, record) = record.context.regime
      /\ dimension = "market_regime" => KeyOf(dimension, other) = other.context.regime
  BY DEF KeyOf
<1>3. /\ dimension = "confidence_bucket" => KeyOf(dimension, record) = ConfidenceBucket(record.context.conf)
      /\ dimension = "confidence_bucket" => KeyOf(dimension, other) = ConfidenceBucket(other.context.conf)
      /\ dimension = "outcome_category" => KeyOf(dimension, record) = record.result
      /\ dimension = "outcome_category" => KeyOf(dimension, other) = other.result
  BY DEF KeyOf
<1>4. KeyOf(dimension, record) = KeyOf(dimension, other)
  BY <1>1, <1>2, <1>3 DEF Dimensions
<1> QED
  BY <1>4 DEF KeyAt, other

\* What Earned says of the advice A when the rows are R.
EarnedBy(A, steady, R) ==
    \A a \in A :
        LET member(i) == KeyAt(a.group[1], i, R[i]) = a.group[2]
            won == {i \in a.support : R[i].r > 0}
        IN  /\ a.group[1] \in Dimensions
            /\ \A i \in a.support : i \in Ids /\ R[i] # None /\ R[i].r # None /\ member(i)
            /\ {i \in steady : R[i].r # None /\ member(i)} \subseteq a.support
            /\ a.sample = Cardinality(a.support) /\ a.sample >= MinSample
            /\ a.type = "HISTORICAL_STRENGTH" => 2 * Cardinality(won) > a.sample
            /\ a.type = "HISTORICAL_WEAKNESS" => 2 * Cardinality(won) < a.sample

LEMMA EarnedKeeps ==
    ASSUME NEW A, NEW steady, NEW R, NEW R2, EarnedBy(A, steady, R),
           \A i \in Ids : R[i] # None /\ R[i].r # None => R2[i] = R[i],
           \A i \in steady : R2[i] = R[i]
    PROVE  EarnedBy(A, steady, R2)
<1> SUFFICES ASSUME NEW a \in A
             PROVE  LET member(i) == KeyAt(a.group[1], i, R2[i]) = a.group[2]
                        won == {i \in a.support : R2[i].r > 0}
                    IN  /\ a.group[1] \in Dimensions
                        /\ \A i \in a.support : i \in Ids /\ R2[i] # None /\ R2[i].r # None /\ member(i)
                        /\ {i \in steady : R2[i].r # None /\ member(i)} \subseteq a.support
                        /\ a.sample = Cardinality(a.support) /\ a.sample >= MinSample
                        /\ a.type = "HISTORICAL_STRENGTH" => 2 * Cardinality(won) > a.sample
                        /\ a.type = "HISTORICAL_WEAKNESS" => 2 * Cardinality(won) < a.sample
  BY DEF EarnedBy
<1>1. \A i \in a.support : R2[i] = R[i]
  BY DEF EarnedBy
<1>2. {i \in a.support : R2[i].r > 0} = {i \in a.support : R[i].r > 0}
  BY <1>1
<1> QED
  BY <1>1, <1>2 DEF EarnedBy

\* The rows of a dataset say what the table R does.
Tells(e, R) ==
    \A n \in 1..Len(e) : /\ e[n].id \in Ids /\ R[e[n].id] # None
                         /\ e[n].context = Context(e[n].id)
                         /\ e[n].r = R[e[n].id].r /\ e[n].r # None
                         /\ e[n].result = TradeResult(R[e[n].id].status)

LEMMA PickedHas ==
    ASSUME NEW S, NEW e \in Seq(S), NEW P \in SUBSET (1..Len(e))
    PROVE  /\ \A n \in 1..Len(Picked(e, P)) : \E k \in P : Picked(e, P)[n] = e[k]
           /\ \A k \in P : \E n \in 1..Len(Picked(e, P)) : Picked(e, P)[n] = e[k]
<1> DEFINE part == Picked(e, P)
<1>1. part \in Seq(S) /\ IsPart(part, e, P)
  BY PickedIs
<1> HIDE DEF part
<1>2. PICK at \in Seq(P) :
        /\ Len(part) = Len(at)
        /\ \A n \in 1..Len(at) : part[n] = e[at[n]]
        /\ \A k \in P : \E n \in 1..Len(at) : at[n] = k
  BY <1>1 DEF IsPart
<1>3. \A n \in 1..Len(at) : at[n] \in P
  BY ElementOfSeq
<1>4. ASSUME NEW n \in 1..Len(part)
      PROVE  \E k \in P : part[n] = e[k]
  <2>1. n \in 1..Len(at)
    BY <1>2
  <2> QED
    BY <1>2, <1>3, <2>1
<1>5. ASSUME NEW k \in P
      PROVE  \E n \in 1..Len(part) : part[n] = e[k]
  <2>1. PICK n \in 1..Len(at) : at[n] = k
    BY <1>2
  <2> QED
    BY <1>2, <2>1
<1> QED
  BY <1>4, <1>5 DEF part

\* A dataset has the settled of its records, and nothing else.
LEMMA DatasetHas ==
    ASSUME NEW g \in Seq(Records)
    PROVE  LET e == Sorted(Dataset(g))
           IN  /\ Len(e) \in Nat
               /\ \A n \in 1..Len(e) : \E m \in 1..Len(g) : g[m].r # None /\ e[n] = LearningRecord(g[m])
               /\ \A m \in 1..Len(g) : g[m].r # None => \E n \in 1..Len(e) : e[n] = LearningRecord(g[m])
<1> DEFINE places == {k \in Positions(g) : g[k].r # None}
           settled == Picked(g, places)
           d == Dataset(g)
           e == Sorted(d)
<1>1. /\ places \in SUBSET (1..Len(g))
      /\ \A k \in places : k \in 1..Len(g) /\ g[k].r # None
      /\ \A k \in 1..Len(g) : g[k].r # None => k \in places
  BY DEF Positions
<1>2. d = [k \in 1..Len(settled) |-> LearningRecord(settled[k])]
  BY DEF Dataset
<1> HIDE DEF places
<1>3. settled \in Seq(Records)
  BY <1>1, PickedIs
<1>4. /\ \A n \in 1..Len(settled) : \E k \in places : settled[n] = g[k]
      /\ \A k \in places : \E n \in 1..Len(settled) : settled[n] = g[k]
  BY <1>1, PickedHas
<1> HIDE DEF settled, d
<1>5. Len(d) = Len(settled) /\ Len(d) \in Nat /\ \A n \in 1..Len(d) : d[n] = LearningRecord(settled[n])
  BY <1>2, <1>3
<1>6. e = [k \in 1..Len(d) |-> d[Len(d) - k + 1]]
  BY DEF Sorted, Reverse
<1> HIDE DEF e
<1>7. \A k \in 1..Len(d) : Len(d) - k + 1 \in 1..Len(d)
  BY <1>5
<1>8. Len(e) = Len(d) /\ \A k \in 1..Len(e) : e[k] = d[Len(d) - k + 1]
  BY <1>5, <1>6
<1>9. ASSUME NEW n \in 1..Len(e)
      PROVE  \E m \in 1..Len(g) : g[m].r # None /\ e[n] = LearningRecord(g[m])
  <2>1. PICK k \in 1..Len(d) : e[n] = d[k]
    BY <1>7, <1>8
  <2>2. PICK m \in places : settled[k] = g[m]
    BY <1>4, <1>5
  <2> QED
    BY <1>1, <1>5, <2>1, <2>2
<1>10. ASSUME NEW m \in 1..Len(g), g[m].r # None
       PROVE  \E n \in 1..Len(e) : e[n] = LearningRecord(g[m])
  <2>1. PICK k \in 1..Len(d) : settled[k] = g[m]
    BY <1>1, <1>4, <1>5, <1>10
  <2> DEFINE n == Len(d) - k + 1
  <2>2. n \in 1..Len(d) /\ Len(d) - n + 1 = k
    BY <1>5
  <2> HIDE DEF n
  <2>3. e[n] = d[k]
    BY <1>8, <2>2
  <2> QED
    BY <1>5, <1>8, <2>1, <2>2, <2>3
<1> QED
  BY <1>5, <1>8, <1>9, <1>10 DEF e, d

\* The dataset of a walk tells of the rows as they are, and of every steady one.
LEMMA DatasetTells ==
    ASSUME IInv, BuildDataset
    PROVE  LET e == Sorted(Dataset([k \in 1..Len(walk.got) |-> walk.got[k].record]))
           IN  /\ Tells(e, rows)
               /\ \A s \in walk.steady : rows[s.id].r # None => \E n \in 1..Len(e) : e[n].id = s.id
<1> DEFINE g == [k \in 1..Len(walk.got) |-> walk.got[k].record]
           e == Sorted(Dataset(g))
<1>1. walk # None /\ walk.kind = "dataset" /\ walk.ended
  BY DEF BuildDataset
<1>2. g \in Seq(Records)
  BY <1>1, KeptAreDistinct
<1>3. walk.got \in Seq(Entries) /\ KeptAsIs
  BY <1>1 DEF IInv, WalkInv, Walks, Entries
<1>4. Len(g) = Len(walk.got) /\ \A m \in 1..Len(g) : g[m] = walk.got[m].record
  BY <1>3
<1> HIDE DEF g
<1>5. /\ \A n \in 1..Len(e) : \E m \in 1..Len(g) : g[m].r # None /\ e[n] = LearningRecord(g[m])
      /\ \A m \in 1..Len(g) : g[m].r # None => \E n \in 1..Len(e) : e[n] = LearningRecord(g[m])
  BY <1>2, DatasetHas
<1> HIDE DEF e
<1>6. ASSUME NEW m \in 1..Len(g)
      PROVE  /\ LearningRecord(g[m]).id = g[m].id
             /\ LearningRecord(g[m]).id \in Ids /\ rows[g[m].id] # None
             /\ LearningRecord(g[m]).context = Context(g[m].id)
             /\ LearningRecord(g[m]).r = rows[g[m].id].r /\ g[m].r = rows[g[m].id].r /\ g[m].r # None
             /\ LearningRecord(g[m]).result = TradeResult(rows[g[m].id].status)
  <2>1. /\ g[m].id \in Recorded /\ g[m].r # None
        /\ g[m] = RecordWith(g[m].id, rows[g[m].id], g[m].built, g[m].embedded)
    BY <1>1, <1>3, <1>4 DEF KeptAsIs
  <2> QED
    BY <2>1 DEF Recorded, LearningRecord, RecordWith
<1>7. Tells(e, rows)
  <2> SUFFICES ASSUME NEW n \in 1..Len(e)
               PROVE  /\ e[n].id \in Ids /\ rows[e[n].id] # None
                      /\ e[n].context = Context(e[n].id)
                      /\ e[n].r = rows[e[n].id].r /\ e[n].r # None
                      /\ e[n].result = TradeResult(rows[e[n].id].status)
    BY DEF Tells
  <2>1. PICK m \in 1..Len(g) : e[n] = LearningRecord(g[m])
    BY <1>5
  <2>2. /\ e[n].id = g[m].id /\ e[n].id \in Ids /\ rows[g[m].id] # None
        /\ e[n].context = Context(g[m].id)
        /\ e[n].r = rows[g[m].id].r /\ rows[g[m].id].r # None
        /\ e[n].result = TradeResult(rows[g[m].id].status)
    BY <1>6, <2>1
  <2> QED
    BY <2>2
<1>8. ASSUME NEW s \in walk.steady, rows[s.id].r # None
      PROVE  \E n \in 1..Len(e) : e[n].id = s.id
  <2>1. AccountedFor(s) /\ ~Ahead(s.id)
    BY <1>1 DEF IInv, WalkInv, Ahead
  <2>2. PICK m \in 1..Len(walk.got) : IdAt(m) = s.id
    BY <1>1, <1>8, <2>1 DEF AccountedFor
  <2>3. m \in 1..Len(g) /\ g[m].id = s.id
    BY <1>4, <2>2 DEF IdAt
  <2>4. g[m].r # None
    BY <1>6, <2>3
  <2>5. PICK n \in 1..Len(e) : e[n] = LearningRecord(g[m])
    BY <1>5, <2>3, <2>4
  <2> QED
    BY <1>6, <2>3, <2>5
<1> QED
  BY <1>7, <1>8 DEF e, g

\* The evidence of a pattern is all that has its key, once each.
LEMMA PatternHas ==
    ASSUME NEW S, NEW e \in Seq(S), Distinct(e), NEW p \in Patterns(e)
    PROVE  /\ p.group[1] \in Dimensions
           /\ p.evidence \in Seq(S) /\ Distinct(p.evidence) /\ Len(p.evidence) \in Nat
           /\ \A n \in 1..Len(p.evidence) : \E k \in 1..Len(e) :
                p.evidence[n] = e[k] /\ KeyOf(p.group[1], e[k]) = p.group[2]
           /\ \A k \in 1..Len(e) : KeyOf(p.group[1], e[k]) = p.group[2] =>
                \E n \in 1..Len(p.evidence) : p.evidence[n] = e[k]
<1> DEFINE group == p.group
           places == {k \in Positions(e) : KeyOf(group[1], e[k]) = group[2]}
<1>1. PICK k \in 1..Len(Groups) : p = CandidatePattern(k, e)
  BY DEF Patterns
<1>2. group = Groups[k] /\ p.evidence = MembersOf(group, e)
  BY <1>1 DEF CandidatePattern
<1>3. group[1] \in Dimensions
  BY <1>2, LearningAssumption DEF LearningAssumption
<1>4. p.evidence = Picked(e, places)
  BY <1>2 DEF MembersOf
<1>5. /\ places \in SUBSET (1..Len(e))
      /\ \A j \in places : j \in 1..Len(e) /\ KeyOf(group[1], e[j]) = group[2]
      /\ \A j \in 1..Len(e) : KeyOf(group[1], e[j]) = group[2] => j \in places
  BY DEF Positions
<1> HIDE DEF places
<1>6. p.evidence \in Seq(S) /\ Distinct(p.evidence)
  BY <1>4, <1>5, PickedIsDistinct
<1>7. /\ \A n \in 1..Len(p.evidence) : \E j \in places : p.evidence[n] = e[j]
      /\ \A j \in places : \E n \in 1..Len(p.evidence) : p.evidence[n] = e[j]
  BY <1>4, <1>5, PickedHas
<1>8. Len(p.evidence) \in Nat
  BY <1>6
<1> QED
  BY <1>3, <1>5, <1>6, <1>7, <1>8

\* How many predictions a sequence of their records is about, and how many of
\* these were won.
LEMMA SupportIs ==
    ASSUME NEW S, NEW v \in Seq(S), Distinct(v), NEW R, Tells(v, R), NEW support,
           support = {v[n].id : n \in 1..Len(v)}
    PROVE  /\ Cardinality(support) = Len(v)
           /\ Cardinality({i \in support : R[i].r > 0}) = Wins(v)
<1> DEFINE all == 1..Len(v)
           winners == {n \in all : v[n].r > 0}
           won == {i \in support : R[i].r > 0}
           f == [n \in all |-> v[n].id]
           g == [n \in winners |-> v[n].id]
<1>1. Len(v) \in Nat
  OBVIOUS
<1>2. IsFiniteSet(all) /\ Cardinality(all) = Len(v)
  BY <1>1, FS_Interval
<1>3. IsFiniteSet(winners)
  <2>1. winners \in SUBSET all
    OBVIOUS
  <2> QED
    BY <1>2, <2>1, FS_Subset
<1>4. \A m, n \in all : v[m].id = v[n].id => m = n
  BY <1>1 DEF Distinct
<1>5. \A n \in all : v[n].r = R[v[n].id].r
  BY DEF Tells
<1>6. /\ f \in [all -> support]
      /\ \A m, n \in all : f[m] = f[n] => m = n
      /\ \A i \in support : \E n \in all : f[n] = i
  BY <1>4
<1>7. /\ g \in [winners -> won]
      /\ \A m, n \in winners : g[m] = g[n] => m = n
      /\ \A i \in won : \E n \in winners : g[n] = i
  BY <1>4, <1>5
<1>8. Wins(v) = Cardinality(winners)
  BY DEF Wins, Positions
<1> HIDE DEF f, g, all, winners, won
<1>9. Cardinality(support) = Cardinality(all)
  BY <1>2, <1>6, SameSize
<1>10. Cardinality(won) = Cardinality(winners)
  BY <1>3, <1>7, SameSize
<1> QED
  BY <1>2, <1>8, <1>9, <1>10 DEF won

LEMMA AdviceIsEarned ==
    ASSUME NEW S, NEW e \in Seq(S), Distinct(e), NEW R, Tells(e, R), NEW steady,
           \A i \in steady : R[i].r # None => \E n \in 1..Len(e) : e[n].id = i
    PROVE  EarnedBy(Recommend(Validate(Patterns(e))), steady, R)
<1> DEFINE A == Recommend(Validate(Patterns(e)))
<1>1. MinSample \in Nat /\ Z2 \in Nat
  BY LearningAssumption DEF LearningAssumption
<1> SUFFICES ASSUME NEW a \in A
             PROVE  LET member(i) == KeyAt(a.group[1], i, R[i]) = a.group[2]
                        won == {i \in a.support : R[i].r > 0}
                    IN  /\ a.group[1] \in Dimensions
                        /\ \A i \in a.support : i \in Ids /\ R[i] # None /\ R[i].r # None /\ member(i)
                        /\ {i \in steady : R[i].r # None /\ member(i)} \subseteq a.support
                        /\ a.sample = Cardinality(a.support) /\ a.sample >= MinSample
                        /\ a.type = "HISTORICAL_STRENGTH" => 2 * Cardinality(won) > a.sample
                        /\ a.type = "HISTORICAL_WEAKNESS" => 2 * Cardinality(won) < a.sample
  BY DEF EarnedBy
<1> DEFINE family == {[at |-> p.at, p |-> PValue(Wins(p.evidence), Len(p.evidence))] : p \in Patterns(e)}
           C == {t.at : t \in BenjaminiHochberg(family)}
<1>2. Validate(Patterns(e)) = {ValidatedPattern(p, p.at \in C) : p \in Patterns(e)}
  BY DEF Validate
<1> HIDE DEF C
<1>3. PICK w \in Validate(Patterns(e)) : w.status = "VALIDATED" /\ a = Recommendation(w)
  BY DEF Recommend
<1>4. PICK p \in Patterns(e) : w = ValidatedPattern(p, p.at \in C)
  BY <1>2
<1> DEFINE v == p.evidence
<1>5. /\ w.group = p.group /\ w.evidence = v /\ w.sample = Len(v) /\ w.wins = Wins(v)
      /\ ~(Len(v) < MinSample) /\ ExcludesBaseline(Wins(v), Len(v))
  BY <1>3, <1>4, VerdictIs
<1>6. /\ p.group[1] \in Dimensions
      /\ v \in Seq(S) /\ Distinct(v) /\ Len(v) \in Nat
      /\ \A n \in 1..Len(v) : \E k \in 1..Len(e) : v[n] = e[k] /\ KeyOf(p.group[1], e[k]) = p.group[2]
      /\ \A k \in 1..Len(e) : KeyOf(p.group[1], e[k]) = p.group[2] => \E n \in 1..Len(v) : v[n] = e[k]
  BY PatternHas
<1> HIDE DEF v
<1>7. /\ a.group = p.group /\ a.sample = Len(v) /\ a.support = {v[n].id : n \in 1..Len(v)}
      /\ a.type = RecommendationType(w)
  BY <1>3, <1>5 DEF Recommendation, Positions
<1>8. Tells(v, R)
  BY <1>6 DEF Tells
<1>9. ASSUME NEW k \in 1..Len(e)
      PROVE  KeyOf(p.group[1], e[k]) = KeyAt(p.group[1], e[k].id, R[e[k].id])
  BY <1>6, KeyIs DEF Tells
<1>10. Cardinality(a.support) = Len(v) /\ Cardinality({i \in a.support : R[i].r > 0}) = Wins(v)
  BY <1>6, <1>7, <1>8, SupportIs
<1>11. ASSUME NEW i \in a.support
       PROVE  i \in Ids /\ R[i] # None /\ R[i].r # None /\ KeyAt(a.group[1], i, R[i]) = a.group[2]
  <2>1. PICK n \in 1..Len(v) : i = v[n].id
    BY <1>7
  <2>2. PICK k \in 1..Len(e) : v[n] = e[k] /\ KeyOf(p.group[1], e[k]) = p.group[2]
    BY <1>6
  <2>3. i \in Ids /\ R[i] # None /\ R[i].r # None
    BY <1>8, <2>1 DEF Tells
  <2> QED
    BY <1>7, <1>9, <2>1, <2>2, <2>3
<1>12. ASSUME NEW i \in steady, R[i].r # None, KeyAt(a.group[1], i, R[i]) = a.group[2]
       PROVE  i \in a.support
  <2>1. PICK k \in 1..Len(e) : e[k].id = i
    BY <1>12
  <2>2. PICK n \in 1..Len(v) : v[n] = e[k]
    BY <1>6, <1>7, <1>9, <1>12, <2>1
  <2> QED
    BY <1>7, <2>1, <2>2
<1>13. Wins(v) \in 0..Len(v)
  BY <1>6, WinsAre
<1>14. a.type = "HISTORICAL_STRENGTH" => 2 * Wins(v) > Len(v)
  BY <1>5, <1>7 DEF RecommendationType
<1>15. a.type = "HISTORICAL_WEAKNESS" => 2 * Wins(v) < Len(v)
  <2>1. a.type = "HISTORICAL_WEAKNESS" => ~(2 * Wins(v) > Len(v))
    BY <1>5, <1>7 DEF RecommendationType
  <2>2. 2 * Wins(v) # Len(v)
    <3>1. Z2 * Len(v) \in Nat
      BY <1>1, <1>6
    <3>2. 2 * Wins(v) = Len(v) => (2 * Wins(v) - Len(v)) * (2 * Wins(v) - Len(v)) = 0
      BY <1>6, <1>13
    <3> QED
      BY <1>5, <3>1, <3>2 DEF ExcludesBaseline
  <2> QED
    BY <1>6, <1>13, <2>1, <2>2
<1>16. a.sample = Cardinality(a.support) /\ a.sample >= MinSample
  <2>1. Len(v) >= MinSample
    BY <1>1, <1>5, <1>6
  <2> QED
    BY <1>7, <1>10, <2>1
<1> QED
  BY <1>6, <1>7, <1>10, <1>11, <1>12, <1>14, <1>15, <1>16

\* The advice is earned by the rows as they are now, which will stay.
AdviceInv ==
    advice # {} =>
        /\ \A i \in dataset.steady : i \in Recorded /\ rows[i] # Pending
        /\ EarnedBy(advice, dataset.steady, rows)

LEMMA BuildDatasetEarns ==
    ASSUME IInv, BuildDataset
    PROVE  AdviceInv'
<1> DEFINE g == [k \in 1..Len(walk.got) |-> walk.got[k].record]
           e == Sorted(Dataset(g))
           steady == {s.id : s \in walk.steady}
           Rows == {LearningRecord(x) : x \in Records}
<1>1. /\ walk # None /\ walk.kind = "dataset" /\ rows' = rows
      /\ advice' = Recommend(Validate(Patterns(e))) /\ dataset'.steady = steady
  BY DEF BuildDataset
<1>2. g \in Seq(Records) /\ Distinct(g)
  BY <1>1, KeptAreDistinct
<1>3. e \in Seq(Rows) /\ Distinct(e)
  <2> HIDE DEF g
  <2> QED
    BY <1>2, DatasetIsDistinct
<1>4. /\ Tells(e, rows)
      /\ \A s \in walk.steady : rows[s.id].r # None => \E n \in 1..Len(e) : e[n].id = s.id
  BY DatasetTells
<1> HIDE DEF e, Rows
<1>5. \A i \in steady : rows[i].r # None => \E n \in 1..Len(e) : e[n].id = i
  BY <1>4
<1>6. \A i \in steady : i \in Recorded /\ rows[i] # Pending
  BY <1>1 DEF IInv, WalkInv, AccountedFor
<1> HIDE DEF steady
<1>7. EarnedBy(Recommend(Validate(Patterns(e))), steady, rows)
  BY <1>3, <1>4, <1>5, AdviceIsEarned
<1>8. Recorded' = Recorded
  BY <1>1 DEF Recorded
<1>9. EarnedBy(advice, dataset.steady, rows)' = EarnedBy(advice', dataset'.steady, rows')
  BY DEF EarnedBy, KeyAt, KeyOf, RecordWith, ConfidenceBucket, TradeResult
<1> QED
  BY <1>1, <1>6, <1>7, <1>8, <1>9 DEF AdviceInv

LEMMA AdviceStands ==
    ASSUME IInv, AdviceInv, [Next]_vars, ~BuildDataset
    PROVE  AdviceInv'
<1>1. UNCHANGED <<dataset, advice>>
  BY DEF Next, Read, Write, TurnPage, BeginDataset, BeginSimilar, BeginBackfill, AnswerSimilar,
         EmbedNext, EndBackfill, vars, results
<1>2. \A i \in Recorded : i \in Recorded' /\ (rows[i] # Pending => rows'[i] = rows[i])
  <2>1. CASE Write
    <3>1. PICK i \in Ids : OneWrite(i)
      BY <2>1 DEF Write, OneWrite
    <3>2. Grows
      BY <3>1, InsertStep, SettleStep, BuildStep, RebuildStep DEF IInv, OneWrite
    <3> QED
      BY <3>2 DEF Grows
  <2>2. ~Write => rows' = rows
    BY DEF Next, Read, TurnPage, BeginDataset, BeginSimilar, BeginBackfill, BuildDataset, AnswerSimilar,
           EmbedNext, EndBackfill, vars
  <2> QED
    BY <2>1, <2>2 DEF Recorded
<1>3. CASE advice = {}
  BY <1>1, <1>3 DEF AdviceInv
<1>4. CASE advice # {}
  <2>1. \A i \in dataset.steady : i \in Recorded /\ rows[i] # Pending
    BY <1>4 DEF AdviceInv
  <2>2. \A i \in dataset.steady : i \in Recorded' /\ rows'[i] # Pending /\ rows'[i] = rows[i]
    BY <1>2, <2>1
  <2>3. \A i \in Ids : rows[i] # None /\ rows[i].r # None => rows'[i] = rows[i]
    BY <1>2 DEF Recorded, Pending
  <2>4. EarnedBy(advice, dataset.steady, rows')
    BY <1>4, <2>2, <2>3, EarnedKeeps DEF AdviceInv
  <2>5. EarnedBy(advice, dataset.steady, rows)' = EarnedBy(advice', dataset'.steady, rows')
    BY DEF EarnedBy, KeyAt, KeyOf, RecordWith, ConfidenceBucket, TradeResult
  <2> QED
    BY <1>1, <2>2, <2>4, <2>5 DEF AdviceInv
<1> QED
  BY <1>3, <1>4

LEMMA AdviceIsOfTheRows ==
    ASSUME IInv, AdviceInv
    PROVE  Earned
<1> SUFFICES ASSUME NEW a \in advice
             PROVE  LET member(i) == KeyOf(a.group[1], Compose(i)) = a.group[2]
                        won == {i \in a.support : rows[i].r > 0}
                    IN  /\ \A i \in a.support : rows[i].r # None /\ member(i)
                        /\ {i \in dataset.steady : rows[i].r # None /\ member(i)} \subseteq a.support
                        /\ a.sample = Cardinality(a.support) /\ a.sample >= MinSample
                        /\ a.type = "HISTORICAL_STRENGTH" => 2 * Cardinality(won) > a.sample
                        /\ a.type = "HISTORICAL_WEAKNESS" => 2 * Cardinality(won) < a.sample
  BY DEF Earned
<1>1. /\ \A i \in dataset.steady : i \in Recorded
      /\ EarnedBy(advice, dataset.steady, rows)
  BY DEF AdviceInv
<1>2. \A i \in a.support : i \in Recorded
  BY <1>1 DEF EarnedBy, Recorded
<1>3. a.group[1] \in Dimensions
  BY <1>1 DEF EarnedBy
<1>4. ASSUME NEW i \in Recorded
      PROVE  KeyOf(a.group[1], Compose(i)) = KeyAt(a.group[1], i, rows[i])
  <2>1. Compose(i).context = Context(i) /\ Compose(i).result = TradeResult(rows[i].status)
    BY DEF Compose, RecordOf, RecordWith
  <2> QED
    BY <1>3, <2>1, KeyIs
<1> QED
  BY <1>1, <1>2, <1>4 DEF EarnedBy

-----------------------------------------------------------------------------
(* A later pass over the tables *)

SettledIds == {i \in Recorded : rows[i] # Pending /\ OfSymbol(None, i)}

PassRecords == Sorted(Dataset(Completed(None)))

LEMMA CompletedIs ==
    ASSUME IInv
    PROVE  /\ Completed(None) \in Seq(Records) /\ Distinct(Completed(None))
           /\ \A n \in 1..Len(Completed(None)) : \E i \in SettledIds : Completed(None)[n] = Compose(i)
           /\ \A i \in SettledIds : \E n \in 1..Len(Completed(None)) : Completed(None)[n] = Compose(i)
<1> DEFINE ids == NewestFirst(SettledIds)
           g == Completed(None)
<1>1. SettledIds \in SUBSET Ids
  BY DEF SettledIds, Recorded
<1>2. /\ ids \in Seq(SettledIds)
      /\ \A i \in SettledIds : \E n \in 1..Len(ids) : ids[n] = i
      /\ \A m, n \in 1..Len(ids) : m < n => Older(ids[n], ids[m])
  BY <1>1, NewestFirstIs
<1>3. g = [k \in 1..Len(ids) |-> Compose(ids[k])]
  BY DEF Completed, Composed, SettledIds
<1> HIDE DEF ids, g
<1>4. \A k \in 1..Len(ids) : ids[k] \in SettledIds /\ ids[k] \in Recorded /\ ids[k] \in Ids
  BY <1>1, <1>2 DEF SettledIds
<1>5. \A k \in 1..Len(ids) : Compose(ids[k]) \in Records /\ Compose(ids[k]).id = ids[k]
  BY <1>4, ComposeIs DEF IInv
<1>6. g \in Seq(Records) /\ Len(g) = Len(ids) /\ \A k \in 1..Len(g) : g[k] = Compose(ids[k])
  BY <1>2, <1>3, <1>5
<1>7. \A i \in Ids : ~Older(i, i)
  BY RetrievalAssumption DEF Older, RetrievalAssumption
<1>8. Distinct(g)
  <2>1. ASSUME NEW m \in 1..Len(g), NEW n \in 1..Len(g), m < n
        PROVE  g[m].id # g[n].id
    <3>1. Older(ids[n], ids[m])
      BY <1>2, <1>6, <2>1
    <3> QED
      BY <1>4, <1>5, <1>6, <1>7, <3>1
  <2> QED
    BY <1>4, <1>5, <1>6, <2>1 DEF Distinct
<1> QED
  BY <1>2, <1>4, <1>6, <1>8 DEF g

LEMMA PassIs ==
    ASSUME IInv
    PROVE  /\ PassRecords \in Seq({LearningRecord(x) : x \in Records}) /\ Distinct(PassRecords)
           /\ Pass.verdicts = Validate(Patterns(PassRecords))
           /\ Pass.advice = Recommend(Validate(Patterns(PassRecords)))
           /\ Tells(PassRecords, rows)
           /\ \A i \in SettledIds : rows[i].r # None => \E n \in 1..Len(PassRecords) : PassRecords[n].id = i
<1> DEFINE g == Completed(None)
           settled == Dataset(g)
           e == PassRecords
           Rows == {LearningRecord(x) : x \in Records}
<1>1. /\ g \in Seq(Records) /\ Distinct(g)
      /\ \A n \in 1..Len(g) : \E i \in SettledIds : g[n] = Compose(i)
      /\ \A i \in SettledIds : \E n \in 1..Len(g) : g[n] = Compose(i)
  BY CompletedIs
<1>2. Pass.verdicts = Validate(Patterns([k \in Positions(settled) |-> settled[Len(settled) + 1 - k]]))
      /\ Pass.advice = Recommend(Validate(Patterns([k \in Positions(settled) |-> settled[Len(settled) + 1 - k]])))
  BY DEF Pass
<1>3. e = Sorted(settled)
  BY DEF PassRecords
<1> HIDE DEF g, e, Rows
<1>4. e \in Seq(Rows) /\ Distinct(e)
  BY <1>1, <1>3, DatasetIsDistinct DEF Rows
<1>5. /\ Len(e) \in Nat
      /\ \A n \in 1..Len(e) : \E m \in 1..Len(g) : g[m].r # None /\ e[n] = LearningRecord(g[m])
      /\ \A m \in 1..Len(g) : g[m].r # None => \E n \in 1..Len(e) : e[n] = LearningRecord(g[m])
  BY <1>1, <1>3, DatasetHas
<1>6. Len(settled) \in Nat
  <2> DEFINE places == {j \in Positions(g) : g[j].r # None}
  <2>1. settled = [k \in 1..Len(Picked(g, places)) |-> LearningRecord(Picked(g, places)[k])]
    BY DEF Dataset
  <2>2. places \in SUBSET (1..Len(g))
    BY DEF Positions
  <2>3. Picked(g, places) \in Seq(Records)
    BY <1>1, <2>2, PickedIs
  <2>4. Len(Picked(g, places)) \in Nat
    BY <2>3
  <2> HIDE DEF settled, places
  <2> QED
    BY <2>1, <2>4
<1>7. e = [k \in 1..Len(settled) |-> settled[Len(settled) - k + 1]]
  BY <1>3 DEF Sorted, Reverse
<1> HIDE DEF settled
<1>8. [k \in Positions(settled) |-> settled[Len(settled) + 1 - k]] = e
  <2>1. \A k \in 1..Len(settled) : Len(settled) + 1 - k = Len(settled) - k + 1
    BY <1>6
  <2> QED
    BY <1>7, <2>1 DEF Positions
<1>9. ASSUME NEW i \in SettledIds
      PROVE  /\ i \in Ids /\ rows[i] # None
             /\ LearningRecord(Compose(i)).id = i
             /\ LearningRecord(Compose(i)).context = Context(i)
             /\ LearningRecord(Compose(i)).r = rows[i].r /\ Compose(i).r = rows[i].r
             /\ LearningRecord(Compose(i)).result = TradeResult(rows[i].status)
  BY DEF SettledIds, Recorded, LearningRecord, Compose, RecordOf, RecordWith
<1>10. Tells(e, rows)
  <2> SUFFICES ASSUME NEW n \in 1..Len(e)
               PROVE  /\ e[n].id \in Ids /\ rows[e[n].id] # None
                      /\ e[n].context = Context(e[n].id)
                      /\ e[n].r = rows[e[n].id].r /\ e[n].r # None
                      /\ e[n].result = TradeResult(rows[e[n].id].status)
    BY DEF Tells
  <2>1. PICK m \in 1..Len(g) : g[m].r # None /\ e[n] = LearningRecord(g[m])
    BY <1>5
  <2>2. PICK i \in SettledIds : g[m] = Compose(i)
    BY <1>1
  <2>3. /\ e[n].id = i /\ i \in Ids /\ rows[i] # None
        /\ e[n].context = Context(i)
        /\ e[n].r = rows[i].r /\ rows[i].r # None
        /\ e[n].result = TradeResult(rows[i].status)
    BY <1>9, <2>1, <2>2
  <2> QED
    BY <2>3
<1>11. ASSUME NEW i \in SettledIds, rows[i].r # None
       PROVE  \E n \in 1..Len(e) : e[n].id = i
  <2>1. PICK m \in 1..Len(g) : g[m] = Compose(i)
    BY <1>1
  <2>2. g[m].r # None
    BY <1>9, <1>11, <2>1
  <2>3. PICK n \in 1..Len(e) : e[n] = LearningRecord(g[m])
    BY <1>5, <2>2
  <2> QED
    BY <1>9, <2>1, <2>3
<1> QED
  BY <1>2, <1>4, <1>8, <1>10, <1>11 DEF e, Rows

LEMMA VerdictsAre ==
    ASSUME NEW P, Studied(P)
    PROVE  /\ IsFiniteSet(Validate(P))
           /\ \A v, w \in Validate(P) : v.group = w.group => v = w
           /\ \A v \in Validate(P) : v.status \in {"VALIDATED", "HYPOTHESIS", "INSUFFICIENT_DATA"}
<1> DEFINE family == {[at |-> p.at, p |-> PValue(Wins(p.evidence), Len(p.evidence))] : p \in P}
           C == {t.at : t \in BenjaminiHochberg(family)}
           V == Validate(P)
           Verdict(p) == ValidatedPattern(p, p.at \in C)
           f == [p \in P |-> Verdict(p)]
<1>1. V = {Verdict(p) : p \in P}
  BY DEF Validate
<1> HIDE DEF C, V
<1>2. \A p \in P : Verdict(p).group = p.group
  BY VerdictIs
<1>3. \A p \in P : Verdict(p).status \in {"VALIDATED", "HYPOTHESIS", "INSUFFICIENT_DATA"}
  <2>1. \A w, n, c : Classify(w, n, c) \in {"VALIDATED", "HYPOTHESIS", "INSUFFICIENT_DATA"}
    BY DEF Classify
  <2>2. \A p \in P : Verdict(p).status = Classify(Wins(p.evidence), Len(p.evidence), p.at \in C)
    BY DEF ValidatedPattern
  <2> QED
    BY <2>1, <2>2
<1> HIDE DEF Verdict
<1>4. /\ f \in [P -> V] /\ IsFiniteSet(P)
      /\ \A x, y \in P : f[x] = f[y] => x = y
      /\ \A v \in V : \E p \in P : f[p] = v
  BY <1>1, <1>2 DEF Studied
<1> HIDE DEF f
<1>5. IsFiniteSet(V)
  BY <1>4, SameSize
<1>6. \A v, w \in V : v.group = w.group => v = w
  BY <1>1, <1>2 DEF Studied
<1> QED
  BY <1>1, <1>3, <1>5, <1>6 DEF V

\* The counts of the learning pages add up.
LEMMA CountsAddUp ==
    ASSUME NEW V, IsFiniteSet(V),
           \A v, w \in V : v.group = w.group => v = w,
           \A v \in V : v.status \in {"VALIDATED", "HYPOTHESIS", "INSUFFICIENT_DATA"}
    PROVE  /\ Counts(V)["VALIDATED"] = Cardinality(Recommend(V))
           /\ Counts(V)["VALIDATED"] + Counts(V)["HYPOTHESIS"] + Counts(V)["INSUFFICIENT_DATA"] = Cardinality(V)
<1> DEFINE A == {v \in V : v.status = "VALIDATED"}
           B == {v \in V : v.status = "HYPOTHESIS"}
           C == {v \in V : v.status = "INSUFFICIENT_DATA"}
           f == [v \in A |-> Recommendation(v)]
<1>1. /\ Counts(V)["VALIDATED"] = Cardinality(A)
      /\ Counts(V)["HYPOTHESIS"] = Cardinality(B)
      /\ Counts(V)["INSUFFICIENT_DATA"] = Cardinality(C)
  BY DEF Counts
<1>2. IsFiniteSet(A) /\ IsFiniteSet(B) /\ IsFiniteSet(C)
  BY FS_Subset
<1>3. \A v \in V : Recommendation(v).group = v.group
  BY DEF Recommendation
<1>4. /\ f \in [A -> Recommend(V)]
      /\ \A x, y \in A : f[x] = f[y] => x = y
      /\ \A a \in Recommend(V) : \E v \in A : f[v] = a
  BY <1>3 DEF Recommend
<1>5. V = (A \cup B) \cup C /\ A \cap B = {} /\ (A \cup B) \cap C = {}
  OBVIOUS
<1> HIDE DEF A, B, C, f
<1>6. Cardinality(Recommend(V)) = Cardinality(A)
  BY <1>2, <1>4, SameSize
<1>7. /\ Cardinality(A) \in Nat /\ Cardinality(B) \in Nat /\ Cardinality(C) \in Nat
  BY <1>2, FS_CardinalityType
<1>8. IsFiniteSet(A \cup B) /\ Cardinality(A \cup B) = Cardinality(A) + Cardinality(B)
  <2>1. IsFiniteSet(A \cup B) /\ Cardinality(A \cup B) = Cardinality(A) + Cardinality(B) - Cardinality(A \cap B)
    BY <1>2, FS_Union
  <2>2. Cardinality(A \cap B) = 0
    BY <1>5, FS_EmptySet
  <2> QED
    BY <1>7, <2>1, <2>2
<1>9. Cardinality(V) = Cardinality(A \cup B) + Cardinality(C)
  <2>1. Cardinality(V) = Cardinality(A \cup B) + Cardinality(C) - Cardinality((A \cup B) \cap C)
    BY <1>2, <1>5, <1>8, FS_Union
  <2>2. Cardinality((A \cup B) \cap C) = 0
    BY <1>5, FS_EmptySet
  <2> QED
    BY <1>7, <1>8, <2>1, <2>2
<1> QED
  BY <1>1, <1>6, <1>7, <1>8, <1>9

LEMMA AdviceIsTraceable ==
    ASSUME IInv, AdviceInv, walk = None, advice # {}
    PROVE  Traceable
<1> DEFINE now == Pass
           e == PassRecords
           V == Validate(Patterns(e))
           A == Recommend(V)
           Rows == {LearningRecord(x) : x \in Records}
<1>1. /\ e \in Seq(Rows) /\ Distinct(e) /\ now.verdicts = V /\ now.advice = A
      /\ Tells(e, rows)
      /\ \A i \in SettledIds : rows[i].r # None => \E n \in 1..Len(e) : e[n].id = i
  BY PassIs
<1> HIDE DEF now, e, Rows
<1>2. EarnedBy(A, SettledIds, rows)
  BY <1>1, AdviceIsEarned
<1>3. Studied(Patterns(e))
  BY <1>1, PatternsAre
<1>4. /\ IsFiniteSet(V)
      /\ \A v, w \in V : v.group = w.group => v = w
      /\ \A v \in V : v.status \in {"VALIDATED", "HYPOTHESIS", "INSUFFICIENT_DATA"}
  BY <1>3, VerdictsAre
<1> HIDE DEF V
<1>5. /\ Counts(V)["VALIDATED"] = Cardinality(A)
      /\ Counts(V)["VALIDATED"] + Counts(V)["HYPOTHESIS"] + Counts(V)["INSUFFICIENT_DATA"] = Cardinality(V)
  BY <1>4, CountsAddUp
<1>6. ASSUME NEW a \in advice, NEW support \in EvidenceOf(RecommendationKey(a), A)
      PROVE  a.support \subseteq support
  <2> HIDE DEF A
  <2>1. PICK b \in A : RecommendationKey(b) = RecommendationKey(a) /\ support = b.support
    BY DEF EvidenceOf
  <2>2. b.group = a.group
    BY <2>1 DEF RecommendationKey
  <2>3. ASSUME NEW i \in a.support
        PROVE  i \in b.support
    <3>1. /\ i \in Ids /\ rows[i] # None /\ rows[i].r # None
          /\ KeyAt(b.group[1], i, rows[i]) = b.group[2]
      BY <2>2 DEF AdviceInv, EarnedBy
    <3>2. i \in SettledIds
      BY <3>1 DEF SettledIds, Recorded, OfSymbol, Pending
    <3> QED
      BY <1>2, <3>1, <3>2 DEF EarnedBy
  <2> QED
    BY <2>1, <2>3
<1>7. ASSUME NEW a \in A, NEW asked, asked = [AnyPattern EXCEPT !.status = "VALIDATED", !.category = CategoryOf(a.group[1])]
      PROVE  /\ \E v \in FilterPatterns(V, asked) : v.group = a.group /\ v.sample = Cardinality(a.support)
             /\ \E tier \in {"HIGH", "MEDIUM", "LOW"} : a \in FilterAdvice(A, asked.category, tier)
  <2>1. PICK v \in V : v.status = "VALIDATED" /\ a = Recommendation(v)
    BY DEF Recommend
  <2>2. a.group = v.group /\ a.sample = v.sample /\ a.confidence = RecommendationConfidence(v)
    BY <2>1 DEF Recommendation
  <2>3. a.sample = Cardinality(a.support)
    BY <1>2 DEF EarnedBy
  <2>4. asked = [symbol |-> None, regime |-> None, status |-> "VALIDATED", category |-> CategoryOf(a.group[1])]
    BY <1>7 DEF AnyPattern
  <2>5. v \in FilterPatterns(V, asked)
    BY <2>1, <2>2, <2>4 DEF FilterPatterns
  <2>6. a.confidence \in {"HIGH", "MEDIUM", "LOW"}
    BY <2>2 DEF RecommendationConfidence
  <2>7. \E tier \in {"HIGH", "MEDIUM", "LOW"} : a \in FilterAdvice(A, asked.category, tier)
    BY <2>4, <2>6 DEF FilterAdvice
  <2> QED
    BY <2>2, <2>3, <2>5, <2>7
<1> HIDE DEF A
<1> QED
  BY <1>1, <1>5, <1>6, <1>7 DEF Traceable, now

\* A recommendation stands: the completed trades that it cites earn it, all that
\* there were when its dataset was begun, and every later pass that still gives
\* it has them (recommendations.py, generate; api/learning.py).
THEOREM RecommendationsStandHolds == Spec => []RecommendationsStand
<1>1. Init => AdviceInv
  BY DEF Init, AdviceInv
<1>2. IInv /\ AdviceInv /\ [Next]_vars => AdviceInv'
  BY BuildDatasetEarns, AdviceStands
<1>3. IInv /\ AdviceInv => RecommendationsStand
  <2>1. ~(walk = None /\ advice # {}) => Traceable
    BY DEF Traceable
  <2> QED
    BY <2>1, AdviceIsOfTheRows, AdviceIsTraceable DEF RecommendationsStand
<1> QED
  BY <1>1, <1>2, <1>3, InductiveInvariant, PTL DEF Spec

-----------------------------------------------------------------------------
(* Induction, over numbers and over finite sets *)

\* A set of numbers that holds 0 and goes on up to N holds 0..N.
LEMMA Induction ==
    ASSUME NEW N \in Nat, NEW T, 0 \in T, \A n \in 1..N : n - 1 \in T => n \in T
    PROVE  \A n \in 0..N : n \in T
<1> DEFINE missing == {n \in 0..N : n \notin T}
<1> SUFFICES ASSUME missing # {}
             PROVE  FALSE
  OBVIOUS
<1>1. missing \subseteq Nat
  OBVIOUS
<1>2. PICK m \in missing : \A k \in missing : <<k, m>> \notin OpToRel(<, Nat)
  BY <1>1, WFMin, NatLessThanWellFounded, Zenon
<1>3. m \in 1..N /\ m \notin T /\ m - 1 \in 0..N
  OBVIOUS
<1>4. m - 1 \notin missing
  <2> SUFFICES ASSUME m - 1 \in missing
               PROVE  FALSE
    OBVIOUS
  <2>1. <<m - 1, m>> \in OpToRel(<, Nat)
    BY <1>1, <1>3 DEF OpToRel
  <2> QED
    BY <1>2, <2>1
<1> QED
  BY <1>3, <1>4

\* A family of parts that holds the empty one and, with every smaller part,
\* the part itself, holds the finite set.
LEMMA SetInduction ==
    ASSUME NEW S, IsFiniteSet(S), NEW F, {} \in F,
           \A A \in SUBSET S : A # {} /\ (\A x \in A : A \ {x} \in F) => A \in F
    PROVE  S \in F
<1> DEFINE T == {n \in 0..Cardinality(S) : \A A \in SUBSET S : Cardinality(A) = n => A \in F}
<1>1. /\ Cardinality(S) \in Nat
      /\ \A A \in SUBSET S : IsFiniteSet(A) /\ Cardinality(A) \in Nat
  BY FS_CardinalityType, FS_Subset
<1>2. 0 \in T
  <2>1. \A A \in SUBSET S : Cardinality(A) = 0 => A = {}
    BY <1>1, FS_EmptySet
  <2>2. 0 \in 0..Cardinality(S)
    BY <1>1
  <2> QED
    BY <2>1, <2>2
<1>3. ASSUME NEW n \in 1..Cardinality(S), n - 1 \in T
      PROVE  n \in T
  <2> SUFFICES ASSUME NEW A \in SUBSET S, Cardinality(A) = n
               PROVE  A \in F
    BY <1>1
  <2>1. A # {}
    BY <1>1, FS_EmptySet
  <2>2. \A x \in A : A \ {x} \in F
    <3> SUFFICES ASSUME NEW x \in A
                 PROVE  A \ {x} \in F
      OBVIOUS
    <3>1. A \ {x} \in SUBSET S /\ Cardinality(A \ {x}) = n - 1
      BY <1>1, FS_RemoveElement
    <3> QED
      BY <1>3, <3>1
  <2> QED
    BY <2>1, <2>2
<1> HIDE DEF T
<1>4. Cardinality(S) \in T
  BY <1>1, <1>2, <1>3, Induction
<1> QED
  BY <1>4 DEF T

-----------------------------------------------------------------------------
(* Sums over finite sets.  SumFunctionOnSet is a fold, which takes what it  *)
(* adds next by choice; the order does not matter.                          *)

Choice(T) == CHOOSE x \in T : TRUE

SumTable(f, S) ==
    CHOOSE iter : iter = [s \in SUBSET S |-> IF s = {} THEN 0 ELSE f[Choice(s)] + iter[s \ {Choice(s)}]]

\* The sum of the library is a fold over a table of parts.
LEMMA SumUnfolds ==
    ASSUME NEW f, NEW S
    PROVE  SumFunctionOnSet(f, S) = SumTable(f, S)[S]
BY DEF SumFunctionOnSet, FoldFunctionOnSet, MapThenFoldSet, SumTable, Choice

IsTable(h, f, D) ==
    \A s \in D : h[s] = IF s = {} THEN 0 ELSE f[Choice(s)] + h[s \ {Choice(s)}]

\* The table of a fold exists, for every finite set.
LEMMA TableExists ==
    ASSUME NEW S, IsFiniteSet(S), NEW f, \A x \in S : f[x] \in Int
    PROVE  \E h \in [SUBSET S -> Int] : IsTable(h, f, SUBSET S)
<1> DEFINE Small(n) == {A \in SUBSET S : Cardinality(A) <= n}
           Tabled(n) == \E h \in [Small(n) -> Int] : IsTable(h, f, Small(n))
           T == {n \in 0..Cardinality(S) : Tabled(n)}
<1>1. /\ Cardinality(S) \in Nat
      /\ \A A \in SUBSET S : IsFiniteSet(A) /\ Cardinality(A) \in 0..Cardinality(S)
  BY FS_CardinalityType, FS_Subset
<1>2. Tabled(0)
  <2>1. \A A \in Small(0) : A = {}
    BY <1>1, FS_EmptySet
  <2> DEFINE h == [A \in Small(0) |-> 0]
  <2>2. h \in [Small(0) -> Int] /\ \A A \in Small(0) : h[A] = 0
    OBVIOUS
  <2> HIDE DEF h
  <2>3. IsTable(h, f, Small(0))
    BY <2>1, <2>2 DEF IsTable
  <2> QED
    BY <2>2, <2>3
<1>3. ASSUME NEW n \in 1..Cardinality(S), Tabled(n - 1)
      PROVE  Tabled(n)
  <2>1. PICK g \in [Small(n - 1) -> Int] : IsTable(g, f, Small(n - 1))
    BY <1>3
  <2> DEFINE rest(A) == A \ {Choice(A)}
             h == [A \in Small(n) |-> IF A \in Small(n - 1) THEN g[A] ELSE f[Choice(A)] + g[rest(A)]]
  <2>2. ASSUME NEW A \in Small(n), A # {}
        PROVE  /\ Choice(A) \in S /\ rest(A) \in Small(n - 1) /\ rest(A) \in Small(n)
    <3>1. Choice(A) \in A
      BY <2>2 DEF Choice
    <3>2. IsFiniteSet(A) /\ Cardinality(A) \in Nat
      BY <1>1
    <3>3. Cardinality(rest(A)) = Cardinality(A) - 1
      BY <3>1, <3>2, FS_RemoveElement
    <3> QED
      BY <3>1, <3>2, <3>3
  <2>3. ASSUME NEW A \in Small(n), A \notin Small(n - 1)
        PROVE  A # {}
    BY <1>1, <2>3, FS_EmptySet
  <2>4. ASSUME NEW A \in Small(n)
        PROVE  h[A] \in Int
    <3> HIDE DEF Small, rest
    <3>1. CASE A \in Small(n - 1)
      BY <2>1, <3>1
    <3>2. CASE A \notin Small(n - 1)
      BY <2>1, <2>2, <2>3, <3>2
    <3> QED
      BY <3>1, <3>2
  <2>5. h \in [Small(n) -> Int]
    BY <2>4
  <2>6. ASSUME NEW A \in Small(n)
        PROVE  h[A] = IF A = {} THEN 0 ELSE f[Choice(A)] + h[rest(A)]
    <3>0. h[A] = IF A \in Small(n - 1) THEN g[A] ELSE f[Choice(A)] + g[rest(A)]
      OBVIOUS
    <3>1. A # {} => h[rest(A)] = g[rest(A)]
      <4> HIDE DEF Small, rest
      <4> QED
        BY <2>2
    <3> HIDE DEF h, Small
    <3>2. CASE A \in Small(n - 1)
      BY <2>1, <3>0, <3>1, <3>2 DEF IsTable
    <3>3. CASE A \notin Small(n - 1)
      BY <2>3, <3>0, <3>1, <3>3
    <3> QED
      BY <3>2, <3>3
  <2>7. IsTable(h, f, Small(n))
    <3> HIDE DEF h, Small
    <3> QED
      BY <2>6 DEF IsTable
  <2> HIDE DEF h, Small
  <2> QED
    BY <2>5, <2>7
<1>4. Cardinality(S) \in T
  <2> HIDE DEF Tabled
  <2>1. 0 \in T /\ \A n \in 1..Cardinality(S) : n - 1 \in T => n \in T
    BY <1>1, <1>2, <1>3
  <2> HIDE DEF T
  <2> QED
    BY <1>1, <2>1, Induction
<1>5. Small(Cardinality(S)) = SUBSET S
  BY <1>1
<1>6. Tabled(Cardinality(S))
  BY <1>4
<1> HIDE DEF Small
<1> QED
  BY <1>5, <1>6

\* The table that the fold chooses is one.
LEMMA SumTableIs ==
    ASSUME NEW S, IsFiniteSet(S), NEW f, \A x \in S : f[x] \in Int
    PROVE  SumTable(f, S) \in [SUBSET S -> Int] /\ IsTable(SumTable(f, S), f, SUBSET S)
<1>1. PICK h \in [SUBSET S -> Int] : IsTable(h, f, SUBSET S)
  BY TableExists
<1>2. h = [s \in SUBSET S |-> IF s = {} THEN 0 ELSE f[Choice(s)] + h[s \ {Choice(s)}]]
  BY <1>1 DEF IsTable
<1> DEFINE t == SumTable(f, S)
<1>3. t = [s \in SUBSET S |-> IF s = {} THEN 0 ELSE f[Choice(s)] + t[s \ {Choice(s)}]]
  BY <1>2 DEF SumTable
<1> HIDE DEF t
<1>4. IsTable(t, f, SUBSET S)
  BY <1>3 DEF IsTable
<1>5. ASSUME NEW A \in SUBSET S
      PROVE  t[A] = h[A]
  <2> DEFINE F == {B \in SUBSET A : t[B] = h[B]}
  <2>1. IsFiniteSet(A)
    BY FS_Subset
  <2>2. {} \in F
    BY <1>1, <1>4 DEF IsTable
  <2>3. ASSUME NEW B \in SUBSET A, B # {}, \A x \in B : B \ {x} \in F
        PROVE  B \in F
    <3>1. Choice(B) \in B
      BY <2>3 DEF Choice
    <3>2. t[B \ {Choice(B)}] = h[B \ {Choice(B)}]
      BY <2>3, <3>1
    <3>3. /\ t[B] = f[Choice(B)] + t[B \ {Choice(B)}]
          /\ h[B] = f[Choice(B)] + h[B \ {Choice(B)}]
      BY <1>1, <1>4, <2>3 DEF IsTable
    <3> QED
      BY <3>2, <3>3
  <2> HIDE DEF F
  <2>4. A \in F
    BY <2>1, <2>2, <2>3, SetInduction
  <2> QED
    BY <2>4 DEF F
<1>6. t \in [SUBSET S -> Int]
  <2>1. t = [s \in SUBSET S |-> t[s]]
    BY <1>3
  <2> QED
    BY <1>5, <2>1
<1> QED
  BY <1>4, <1>6 DEF t

\* Sums over a finite set and over the parts of it.
LEMMA SumStep ==
    ASSUME NEW S, IsFiniteSet(S), NEW f, \A x \in S : f[x] \in Int
    PROVE  \A A \in SUBSET S :
              /\ SumFunctionOnSet(f, A) \in Int
              /\ SumFunctionOnSet(f, A) = IF A = {} THEN 0
                                         ELSE f[Choice(A)] + SumFunctionOnSet(f, A \ {Choice(A)})
<1> DEFINE Sum(A) == SumFunctionOnSet(f, A)
           F == {A \in SUBSET S : \A B \in SUBSET S : A \subseteq B => SumTable(f, B)[A] = Sum(A)}
<1>1. \A B \in SUBSET S : SumTable(f, B) \in [SUBSET B -> Int] /\ IsTable(SumTable(f, B), f, SUBSET B)
  <2> SUFFICES ASSUME NEW B \in SUBSET S
               PROVE  SumTable(f, B) \in [SUBSET B -> Int] /\ IsTable(SumTable(f, B), f, SUBSET B)
    OBVIOUS
  <2>1. IsFiniteSet(B) /\ \A x \in B : f[x] \in Int
    BY FS_Subset
  <2> QED
    BY <2>1, SumTableIs
<1>2. \A A : Sum(A) = SumTable(f, A)[A]
  BY SumUnfolds
<1> HIDE DEF Sum
<1>3. \A A, B \in SUBSET S : A \subseteq B =>
        /\ A = {} => SumTable(f, B)[A] = 0
        /\ A # {} => SumTable(f, B)[A] = f[Choice(A)] + SumTable(f, B)[A \ {Choice(A)}]
  BY <1>1 DEF IsTable
<1>4. {} \in F
  BY <1>2, <1>3
<1>5. ASSUME NEW A \in SUBSET S, A # {}, \A x \in A : A \ {x} \in F
      PROVE  A \in F
  <2>1. Choice(A) \in A
    BY <1>5 DEF Choice
  <2>2. \A B \in SUBSET S : A \subseteq B => SumTable(f, B)[A \ {Choice(A)}] = Sum(A \ {Choice(A)})
    BY <1>5, <2>1
  <2>3. \A B \in SUBSET S : A \subseteq B => SumTable(f, B)[A] = f[Choice(A)] + Sum(A \ {Choice(A)})
    BY <1>3, <1>5, <2>2
  <2> QED
    BY <1>2, <2>3
<1>6. \A A \in SUBSET S : A \in F
  <2> SUFFICES ASSUME NEW A \in SUBSET S
               PROVE  A \in F
    OBVIOUS
  <2>1. IsFiniteSet(A)
    BY FS_Subset
  <2> HIDE DEF F
  <2> QED
    BY <1>4, <1>5, <2>1, SetInduction
<1>7. ASSUME NEW A \in SUBSET S, A # {}
      PROVE  Sum(A) = f[Choice(A)] + Sum(A \ {Choice(A)})
  <2>1. Choice(A) \in A /\ A \ {Choice(A)} \in SUBSET S
    BY <1>7 DEF Choice
  <2>2. SumTable(f, A)[A \ {Choice(A)}] = Sum(A \ {Choice(A)})
    BY <1>6, <2>1
  <2> QED
    BY <1>2, <1>3, <1>7, <2>2
<1>8. \A A \in SUBSET S : Sum(A) \in Int
  BY <1>1, <1>2
<1> QED
  BY <1>2, <1>3, <1>7, <1>8 DEF Sum

\* A sum takes its members in any order.
LEMMA SumIs ==
    ASSUME NEW S, IsFiniteSet(S), NEW f, \A x \in S : f[x] \in Int
    PROVE  /\ SumFunctionOnSet(f, {}) = 0
           /\ \A A \in SUBSET S : SumFunctionOnSet(f, A) \in Int
           /\ \A A \in SUBSET S : \A x \in A :
                 SumFunctionOnSet(f, A) = f[x] + SumFunctionOnSet(f, A \ {x})
<1> DEFINE Sum(A) == SumFunctionOnSet(f, A)
           F == {A \in SUBSET S : \A x \in A : Sum(A) = f[x] + Sum(A \ {x})}
<1>1. \A A \in SUBSET S :
        /\ Sum(A) \in Int
        /\ A = {} => Sum(A) = 0
        /\ A # {} => Sum(A) = f[Choice(A)] + Sum(A \ {Choice(A)})
  BY SumStep
<1> HIDE DEF Sum
<1>2. {} \in F
  OBVIOUS
<1>3. ASSUME NEW A \in SUBSET S, A # {}, \A x \in A : A \ {x} \in F
      PROVE  A \in F
  <2> SUFFICES ASSUME NEW x \in A
               PROVE  Sum(A) = f[x] + Sum(A \ {x})
    OBVIOUS
  <2> DEFINE c == Choice(A)
  <2>1. c \in A
    BY DEF Choice
  <2>2. Sum(A) = f[c] + Sum(A \ {c})
    BY <1>1
  <2> HIDE DEF c
  <2>3. CASE x = c
    BY <2>2, <2>3
  <2>4. CASE x # c
    <3> DEFINE rest == (A \ {c}) \ {x}
    <3>1. Sum(A \ {c}) = f[x] + Sum(rest)
      BY <1>3, <2>1, <2>4
    <3>2. (A \ {x}) \ {c} = rest
      OBVIOUS
    <3>3. Sum(A \ {x}) = f[c] + Sum(rest)
      <4>1. Sum(A \ {x}) = f[c] + Sum((A \ {x}) \ {c})
        BY <1>3, <2>1, <2>4
      <4> HIDE DEF rest
      <4> QED
        BY <3>2, <4>1
    <3>4. rest \in SUBSET S
      OBVIOUS
    <3> HIDE DEF rest
    <3>5. f[x] \in Int /\ f[c] \in Int /\ Sum(rest) \in Int
      BY <1>1, <2>1, <3>4
    <3> QED
      BY <2>2, <3>1, <3>3, <3>5
  <2> QED
    BY <2>3, <2>4
<1>4. ASSUME NEW A \in SUBSET S
      PROVE  A \in F
  <2>1. IsFiniteSet(A)
    BY FS_Subset
  <2> HIDE DEF F
  <2> QED
    BY <1>2, <1>3, <2>1, SetInduction
<1>5. \A A \in SUBSET S : \A x \in A : Sum(A) = f[x] + Sum(A \ {x})
  BY <1>4
<1>6. Sum({}) = 0
  BY <1>1
<1> QED
  BY <1>1, <1>5, <1>6 DEF Sum

\* The sum depends on the values over the set.
LEMMA SumOfEqual ==
    ASSUME NEW S, IsFiniteSet(S), NEW f, NEW g, \A x \in S : f[x] \in Int /\ g[x] = f[x]
    PROVE  SumFunctionOnSet(g, S) = SumFunctionOnSet(f, S)
<1> DEFINE F == {A \in SUBSET S : SumFunctionOnSet(g, A) = SumFunctionOnSet(f, A)}
<1>1. \A x \in S : f[x] \in Int /\ g[x] \in Int
  OBVIOUS
<1>2. {} \in F
  BY <1>1, SumIs
<1>3. ASSUME NEW A \in SUBSET S, A # {}, \A x \in A : A \ {x} \in F
      PROVE  A \in F
  <2>1. PICK x \in A : TRUE
    BY <1>3
  <2>2. SumFunctionOnSet(f, A) = f[x] + SumFunctionOnSet(f, A \ {x})
    BY <1>1, SumIs
  <2>3. SumFunctionOnSet(g, A) = g[x] + SumFunctionOnSet(g, A \ {x})
    BY <1>1, SumIs
  <2> QED
    BY <1>3, <2>1, <2>2, <2>3
<1> HIDE DEF F
<1>4. S \in F
  BY <1>2, <1>3, SetInduction
<1> QED
  BY <1>4 DEF F

\* What is zero outside a part sums up to the sum over the part.
LEMMA SumOfPart ==
    ASSUME NEW S, IsFiniteSet(S), NEW P \in SUBSET S,
           NEW f, \A x \in S : f[x] \in Int, \A x \in S \ P : f[x] = 0
    PROVE  SumFunctionOnSet(f, S) = SumFunctionOnSet(f, P)
<1> DEFINE F == {A \in SUBSET S : SumFunctionOnSet(f, A) = SumFunctionOnSet(f, A \cap P)}
<1>1. {} \in F
  <2>1. {} \cap P = {}
    OBVIOUS
  <2> QED
    BY <2>1
<1>2. ASSUME NEW A \in SUBSET S, A # {}, \A x \in A : A \ {x} \in F
      PROVE  A \in F
  <2>1. PICK x \in A : TRUE
    BY <1>2
  <2>2. SumFunctionOnSet(f, A) = f[x] + SumFunctionOnSet(f, A \ {x})
    BY SumIs
  <2>3. SumFunctionOnSet(f, A \ {x}) = SumFunctionOnSet(f, (A \ {x}) \cap P)
    BY <1>2
  <2>4. CASE x \in P
    <3>1. (A \ {x}) \cap P = (A \cap P) \ {x} /\ x \in A \cap P /\ A \cap P \in SUBSET S
      BY <2>4
    <3>2. SumFunctionOnSet(f, A \cap P) = f[x] + SumFunctionOnSet(f, (A \cap P) \ {x})
      BY <3>1, SumIs
    <3> QED
      BY <2>2, <2>3, <3>1, <3>2
  <2>5. CASE x \notin P
    <3>1. (A \ {x}) \cap P = A \cap P /\ A \cap P \in SUBSET S
      BY <2>5
    <3>2. SumFunctionOnSet(f, A \cap P) \in Int
      BY <3>1, SumIs
    <3>3. f[x] = 0
      BY <2>5
    <3>4. SumFunctionOnSet(f, A \ {x}) = SumFunctionOnSet(f, A \cap P)
      BY <2>3, <3>1
    <3>5. SumFunctionOnSet(f, A) = SumFunctionOnSet(f, A \cap P)
      BY <2>2, <3>2, <3>3, <3>4
    <3> QED
      BY <3>5
  <2> QED
    BY <2>4, <2>5
<1> HIDE DEF F
<1>3. S \in F
  BY <1>1, <1>2, SetInduction
<1>4. S \cap P = P
  OBVIOUS
<1> QED
  BY <1>3, <1>4 DEF F

\* The sum of ones counts.
LEMMA SumCounts ==
    ASSUME NEW S, IsFiniteSet(S), NEW f, \A x \in S : f[x] = 1
    PROVE  SumFunctionOnSet(f, S) = Cardinality(S)
<1> DEFINE F == {A \in SUBSET S : SumFunctionOnSet(f, A) = Cardinality(A)}
<1>1. {} \in F
  BY SumIs, FS_EmptySet
<1>2. ASSUME NEW A \in SUBSET S, A # {}, \A x \in A : A \ {x} \in F
      PROVE  A \in F
  <2>1. PICK x \in A : TRUE
    BY <1>2
  <2>2. SumFunctionOnSet(f, A) = 1 + SumFunctionOnSet(f, A \ {x})
    BY SumIs
  <2>3. IsFiniteSet(A) /\ Cardinality(A) \in Nat /\ Cardinality(A \ {x}) = Cardinality(A) - 1
    BY FS_Subset, FS_CardinalityType, FS_RemoveElement
  <2> QED
    BY <1>2, <2>2, <2>3
<1> HIDE DEF F
<1>3. S \in F
  BY <1>1, <1>2, SetInduction
<1> QED
  BY <1>3 DEF F

\* Values that are told apart, each under one name.
LEMMA SumOfImage ==
    ASSUME NEW S, IsFiniteSet(S), NEW h, \A x, y \in S : h[x] = h[y] => x = y,
           NEW g, \A x \in S : g[h[x]] \in Int,
           NEW f, \A x \in S : f[x] = g[h[x]],
           NEW T, T = {h[x] : x \in S}
    PROVE  IsFiniteSet(T) /\ SumFunctionOnSet(g, T) = SumFunctionOnSet(f, S)
<1> DEFINE Image(A) == {h[x] : x \in A}
           F == {A \in SUBSET S : IsFiniteSet(Image(A))}
           G == {A \in SUBSET S : SumFunctionOnSet(g, Image(A)) = SumFunctionOnSet(f, A)}
<1>0. T = Image(S)
  OBVIOUS
<1>1. Image({}) = {}
  OBVIOUS
<1>2. ASSUME NEW A \in SUBSET S, NEW x \in A
      PROVE  /\ Image(A \ {x}) = Image(A) \ {h[x]} /\ h[x] \in Image(A)
             /\ Image(A) = Image(A \ {x}) \cup {h[x]}
  OBVIOUS
<1>3. S \in F
  <2>1. {} \in F
    BY <1>1, FS_EmptySet
  <2>2. ASSUME NEW A \in SUBSET S, A # {}, \A x \in A : A \ {x} \in F
        PROVE  A \in F
    <3>1. PICK x \in A : TRUE
      BY <2>2
    <3>2. IsFiniteSet(Image(A \ {x}))
      BY <2>2
    <3>3. Image(A) = Image(A \ {x}) \cup {h[x]}
      BY <1>2
    <3> HIDE DEF Image
    <3>4. IsFiniteSet(Image(A \ {x}) \cup {h[x]})
      BY <3>2, FS_AddElement
    <3> QED
      BY <3>3, <3>4
  <2> HIDE DEF F
  <2> QED
    BY <2>1, <2>2, SetInduction
<1>4. IsFiniteSet(T)
  BY <1>0, <1>3
<1>5. \A A \in SUBSET S : Image(A) \in SUBSET T
  OBVIOUS
<1>6. \A z \in T : g[z] \in Int
  OBVIOUS
<1> HIDE DEF Image
<1>7. {} \in G
  <2>1. SumFunctionOnSet(f, {}) = 0
    BY SumIs
  <2>2. SumFunctionOnSet(g, {}) = 0
    BY <1>4, <1>6, SumIs
  <2> QED
    BY <1>1, <2>1, <2>2
<1>8. ASSUME NEW A \in SUBSET S, A # {}, \A x \in A : A \ {x} \in G
      PROVE  A \in G
  <2>1. PICK x \in A : TRUE
    BY <1>8
  <2>2. SumFunctionOnSet(f, A) = f[x] + SumFunctionOnSet(f, A \ {x})
    BY SumIs
  <2>3. SumFunctionOnSet(g, Image(A)) = g[h[x]] + SumFunctionOnSet(g, Image(A) \ {h[x]})
    <3>1. IsFiniteSet(T) /\ \A z \in T : g[z] \in Int
      BY <1>4, <1>6
    <3>2. /\ SumFunctionOnSet(g, {}) = 0
          /\ \A D \in SUBSET T : SumFunctionOnSet(g, D) \in Int
          /\ \A D \in SUBSET T : \A y \in D :
                SumFunctionOnSet(g, D) = g[y] + SumFunctionOnSet(g, D \ {y})
      BY <3>1, SumIs
    <3>3. Image(A) \in SUBSET T /\ h[x] \in Image(A)
      BY <1>2, <1>5
    <3> DEFINE C == Image(A)
               z == h[x]
    <3> HIDE DEF C, z
    <3>4. C \in SUBSET T /\ z \in C
      BY <3>3 DEF C, z
    <3>5. SumFunctionOnSet(g, C) = g[z] + SumFunctionOnSet(g, C \ {z})
      BY <3>2, <3>4
    <3> QED
      BY <3>5 DEF C, z
  <2>4. SumFunctionOnSet(g, Image(A \ {x})) = SumFunctionOnSet(f, A \ {x})
    BY <1>8
  <2>5. Image(A \ {x}) = Image(A) \ {h[x]}
    BY <1>2
  <2> QED
    BY <2>2, <2>3, <2>4, <2>5
<1>9. S \in G
  <2> HIDE DEF G
  <2> QED
    BY <1>7, <1>8, SetInduction
<1> QED
  BY <1>0, <1>4, <1>9

\* The sums of the parts add up to the sum of the whole.
LEMMA SumOfParts ==
    ASSUME NEW S, IsFiniteSet(S), NEW B, IsFiniteSet(B), NEW key, \A x \in S : key[x] \in B,
           NEW f, \A x \in S : f[x] \in Int,
           NEW part, NEW q,
           \A b \in B : part[b] = {x \in S : key[x] = b} /\ q[b] = SumFunctionOnSet(f, part[b])
    PROVE  SumFunctionOnSet(q, B) = SumFunctionOnSet(f, S)
<1> DEFINE Part(A, b) == {x \in A : key[x] = b}
           sums(A) == [b \in B |-> SumFunctionOnSet(f, Part(A, b))]
           F == {A \in SUBSET S : SumFunctionOnSet(sums(A), B) = SumFunctionOnSet(f, A)}
<1>1. \A A \in SUBSET S : \A b \in B : sums(A)[b] \in Int
  <2>1. \A A \in SUBSET S : \A b \in B : Part(A, b) \in SUBSET S
    OBVIOUS
  <2> HIDE DEF Part
  <2> QED
    BY <2>1, SumIs
<1>2. {} \in F
  <2>1. \A b \in B : Part({}, b) = {}
    OBVIOUS
  <2>2. SumFunctionOnSet(f, {}) = 0
    BY SumIs
  <2>3. \A b \in B : sums({})[b] = 0
    BY <2>1, <2>2
  <2> HIDE DEF sums
  <2>4. SumFunctionOnSet(sums({}), B) = SumFunctionOnSet(sums({}), {})
    BY <2>3, SumOfPart
  <2>5. SumFunctionOnSet(sums({}), {}) = 0
    BY <2>3, SumIs
  <2> QED
    BY <2>2, <2>4, <2>5
<1>3. ASSUME NEW A \in SUBSET S, A # {}, \A x \in A : A \ {x} \in F
      PROVE  A \in F
  <2>1. PICK x \in A : TRUE
    BY <1>3
  <2> DEFINE C == A \ {x}
             k == key[x]
  <2>2. C \in SUBSET S /\ k \in B
    OBVIOUS
  <2>3. \A b \in B \ {k} : Part(A, b) = Part(C, b)
    OBVIOUS
  <2>4. Part(A, k) \in SUBSET S /\ x \in Part(A, k) /\ Part(C, k) = Part(A, k) \ {x}
    OBVIOUS
  <2>5. sums(A)[k] = SumFunctionOnSet(f, Part(A, k)) /\ sums(C)[k] = SumFunctionOnSet(f, Part(C, k))
    BY <2>2
  <2>6. \A b \in B \ {k} : sums(A)[b] = sums(C)[b]
    BY <2>3
  <2> HIDE DEF Part, sums, k
  <2>7. SumFunctionOnSet(f, Part(A, k)) = f[x] + SumFunctionOnSet(f, Part(A, k) \ {x})
    BY <2>4, SumIs
  <2>8. sums(A)[k] = f[x] + sums(C)[k]
    BY <2>4, <2>5, <2>7
  <2>9. SumFunctionOnSet(sums(A), B) = sums(A)[k] + SumFunctionOnSet(sums(A), B \ {k})
    BY <1>1, <2>2, SumIs
  <2>10. /\ SumFunctionOnSet(sums(C), B) = sums(C)[k] + SumFunctionOnSet(sums(C), B \ {k})
         /\ SumFunctionOnSet(sums(C), B \ {k}) \in Int
    BY <1>1, <2>2, SumIs
  <2>11. SumFunctionOnSet(sums(A), B \ {k}) = SumFunctionOnSet(sums(C), B \ {k})
    <3>1. IsFiniteSet(B \ {k})
      BY FS_Subset
    <3>2. \A b \in B \ {k} : sums(C)[b] \in Int
      BY <1>1, <2>2
    <3> QED
      BY <2>6, <3>1, <3>2, SumOfEqual
  <2>12. SumFunctionOnSet(f, A) = f[x] + SumFunctionOnSet(f, C)
    BY SumIs
  <2>13. SumFunctionOnSet(sums(C), B) = SumFunctionOnSet(f, C)
    BY <1>3
  <2>14. f[x] \in Int /\ sums(C)[k] \in Int
    BY <1>1, <2>2
  <2> HIDE DEF C
  <2>15. SumFunctionOnSet(sums(A), B) = SumFunctionOnSet(f, A)
    BY <2>8, <2>9, <2>10, <2>11, <2>12, <2>13, <2>14
  <2> QED
    BY <2>15
<1>4. S \in F
  <2> HIDE DEF F
  <2> QED
    BY <1>2, <1>3, SetInduction
<1>5. SumFunctionOnSet(q, B) = SumFunctionOnSet(sums(S), B)
  <2>1. \A b \in B : sums(S)[b] \in Int
    BY <1>1
  <2>2. \A b \in B : q[b] = sums(S)[b]
    OBVIOUS
  <2> HIDE DEF sums
  <2> QED
    BY <2>1, <2>2, SumOfEqual
<1> QED
  BY <1>4, <1>5

-----------------------------------------------------------------------------
(* The curve of a sequence of records *)

\* Every record has a result.
AllSettled(s) == Len(s) \in Nat /\ \A k \in Positions(s) : s[k].r \in Int

Result(s) == [k \in Positions(s) |-> s[k].r]

\* The cumulative result of the first k records.
Prefix(s, k) == SumFunctionOnSet(Result(s), 1..k)

\* The cumulative result grows by each record's own.
LEMMA PrefixIs ==
    ASSUME NEW s, AllSettled(s)
    PROVE  /\ Prefix(s, 0) = 0
           /\ \A k \in 0..Len(s) : Prefix(s, k) \in Int
           /\ \A k \in 1..Len(s) : Prefix(s, k) = Prefix(s, k - 1) + s[k].r
           /\ IsFiniteSet(Positions(s)) /\ \A k \in Positions(s) : Result(s)[k] = s[k].r /\ s[k].r \in Int
<1>1. /\ IsFiniteSet(Positions(s)) /\ Positions(s) = 1..Len(s) /\ Len(s) \in Nat
      /\ \A k \in Positions(s) : Result(s)[k] = s[k].r /\ s[k].r \in Int
  <2>1. Len(s) \in Nat /\ Positions(s) = 1..Len(s) /\ \A k \in Positions(s) : s[k].r \in Int
    BY DEF AllSettled, Positions
  <2>2. IsFiniteSet(1..Len(s))
    BY <2>1, FS_Interval
  <2>3. \A k \in Positions(s) : Result(s)[k] = s[k].r
    BY DEF Result
  <2> QED
    BY <2>1, <2>2, <2>3
<1> DEFINE f == Result(s)
           D == Positions(s)
<1>2. IsFiniteSet(D) /\ \A x \in D : f[x] \in Int
  BY <1>1
<1> HIDE DEF f, D
<1>3. /\ SumFunctionOnSet(f, {}) = 0
      /\ \A A \in SUBSET D : SumFunctionOnSet(f, A) \in Int
      /\ \A A \in SUBSET D : \A x \in A : SumFunctionOnSet(f, A) = f[x] + SumFunctionOnSet(f, A \ {x})
  BY <1>2, SumIs
<1>4. Prefix(s, 0) = 0
  <2>1. 1..0 = {}
    OBVIOUS
  <2>2. Prefix(s, 0) = SumFunctionOnSet(f, 1..0)
    BY DEF Prefix, f
  <2> QED
    BY <1>3, <2>1, <2>2
<1>5. \A k \in 0..Len(s) : Prefix(s, k) \in Int
  <2>1. \A k \in 0..Len(s) : 1..k \in SUBSET D
    BY <1>1 DEF D
  <2>2. \A k : Prefix(s, k) = SumFunctionOnSet(f, 1..k)
    BY DEF Prefix, f
  <2> QED
    BY <1>3, <2>1, <2>2
<1>6. ASSUME NEW k \in 1..Len(s)
      PROVE  Prefix(s, k) = Prefix(s, k - 1) + s[k].r
  <2>1. (1..k) \ {k} = 1..(k - 1) /\ k \in 1..k /\ 1..k \in SUBSET D /\ k \in Positions(s)
    BY <1>1 DEF D
  <2>2. SumFunctionOnSet(f, 1..k) = f[k] + SumFunctionOnSet(f, (1..k) \ {k})
    BY <1>3, <2>1
  <2>3. Prefix(s, k - 1) \in Int
    BY <1>1, <1>5
  <2>4. SumFunctionOnSet(f, (1..k) \ {k}) = Prefix(s, k - 1) /\ SumFunctionOnSet(f, 1..k) = Prefix(s, k)
    BY <2>1 DEF Prefix, f
  <2>5. f[k] = s[k].r /\ s[k].r \in Int
    BY <1>1, <2>1 DEF f
  <2> QED
    BY <2>2, <2>3, <2>4, <2>5
<1> QED
  BY <1>1, <1>4, <1>5, <1>6

\* The maximum of two numbers.
LEMMA MaxOfTwo ==
    ASSUME NEW a \in Int, NEW b \in Int
    PROVE  Max({a, b}) = IF a >= b THEN a ELSE b
<1>1. IsFiniteSet({a, b})
  <2>1. IsFiniteSet({a} \cup {b})
    BY FS_Singleton, FS_AddElement
  <2>2. {a, b} = {a} \cup {b}
    OBVIOUS
  <2> QED
    BY <2>1, <2>2
<1>2. Max({a, b}) \in {a, b} /\ \A x \in {a, b} : x <= Max({a, b})
  BY <1>1, MaxIs
<1> QED
  BY <1>2

Level == [equity |-> 0, peak |-> 0, fall |-> 0]

CurveStep(s, k, c) ==
    LET equity == c.equity + s[k].r
        peak == Max({c.peak, equity})
    IN  [equity |-> equity, peak |-> peak, fall |-> Max({c.fall, peak - equity})]

IsCurve(w, s, n) == w[0] = Level /\ \A k \in 1..n : w[k] = CurveStep(s, k, w[k - 1])

\* The curve can be drawn over any number of records.
LEMMA CurveExists ==
    ASSUME NEW s, NEW N \in Nat
    PROVE  \E w : IsCurve(w, s, N)
<1> DEFINE Drawn(m) == \E w : IsCurve(w, s, m)
           T == {m \in 0..N : Drawn(m)}
<1>1. Drawn(0)
  <2> DEFINE w == [n \in 0..0 |-> Level]
  <2>1. w[0] = Level
    OBVIOUS
  <2> HIDE DEF w
  <2>2. IsCurve(w, s, 0)
    BY <2>1 DEF IsCurve
  <2> QED
    BY <2>2
<1>2. ASSUME NEW m \in 1..N, Drawn(m - 1)
      PROVE  Drawn(m)
  <2>1. PICK v : IsCurve(v, s, m - 1)
    BY <1>2
  <2> DEFINE w == [n \in 0..m |-> IF n = m THEN CurveStep(s, m, v[m - 1]) ELSE v[n]]
  <2>2. \A n \in 0..m : w[n] = IF n = m THEN CurveStep(s, m, v[m - 1]) ELSE v[n]
    OBVIOUS
  <2> HIDE DEF w
  <2>3. w[0] = Level
    BY <2>1, <2>2 DEF IsCurve
  <2>4. ASSUME NEW n \in 1..m
        PROVE  w[n] = CurveStep(s, n, w[n - 1])
    <3>1. n - 1 \in 0..m /\ n - 1 # m /\ n \in 0..m
      OBVIOUS
    <3>2. w[n - 1] = v[n - 1]
      BY <2>2, <3>1
    <3>3. CASE n = m
      BY <2>2, <3>1, <3>2, <3>3
    <3>4. CASE n # m
      <4>1. n \in 1..(m - 1)
        BY <3>4
      <4>2. v[n] = CurveStep(s, n, v[n - 1])
        BY <2>1, <4>1 DEF IsCurve
      <4> QED
        BY <2>2, <3>1, <3>2, <3>4, <4>2
    <3> QED
      BY <3>3, <3>4
  <2>5. IsCurve(w, s, m)
    BY <2>3, <2>4 DEF IsCurve
  <2> QED
    BY <2>5
<1> HIDE DEF Drawn
<1>3. 0 \in T /\ (\A n \in 1..N : n - 1 \in T => n \in T)
  BY <1>1, <1>2
<1> HIDE DEF T
<1>4. N \in T
  BY <1>3, Induction
<1> QED
  BY <1>4 DEF T, Drawn

\* The curve of the model is what its step draws.
LEMMA CurveIsWalk ==
    ASSUME NEW s, AllSettled(s)
    PROVE  \E w : IsCurve(w, s, Len(s)) /\ Curve(s) = w[Len(s)]
<1> DEFINE n == Len(s)
           step == CHOOSE w : w = [k \in 0..n |-> IF k = 0 THEN Level ELSE CurveStep(s, k, w[k - 1])]
<1>1. n \in Nat
  BY DEF AllSettled
<1>2. Curve(s) = step[n]
  BY DEF Curve, CurveStep, Level
<1> HIDE DEF n
<1>3. PICK v : IsCurve(v, s, n)
  BY <1>1, CurveExists
<1>4. \E w : w = [k \in 0..n |-> IF k = 0 THEN Level ELSE CurveStep(s, k, w[k - 1])]
  <2> DEFINE w == [k \in 0..n |-> v[k]]
  <2>1. \A k \in 0..n : w[k] = v[k]
    OBVIOUS
  <2>2. \A k \in 0..n : k # 0 => k \in 1..n /\ k - 1 \in 0..n
    BY <1>1
  <2>3. \A k \in 0..n : w[k] = IF k = 0 THEN Level ELSE CurveStep(s, k, w[k - 1])
    <3> HIDE DEF w
    <3> QED
      BY <1>3, <2>1, <2>2 DEF IsCurve
  <2>4. w = [k \in 0..n |-> IF k = 0 THEN Level ELSE CurveStep(s, k, w[k - 1])]
    BY <2>3
  <2> QED
    BY <2>4
<1>5. step = [k \in 0..n |-> IF k = 0 THEN Level ELSE CurveStep(s, k, step[k - 1])]
  BY <1>4
<1> HIDE DEF step
<1>6. IsCurve(step, s, n)
  <2>1. 0 \in 0..n /\ \A k \in 1..n : k \in 0..n /\ k # 0
    BY <1>1
  <2> QED
    BY <1>5, <2>1 DEF IsCurve
<1> QED
  BY <1>2, <1>6 DEF n

\* The deepest fall is from some place of the curve to a later one.
IsDeepest(d, s, n) ==
    /\ \A a, b \in 0..n : a <= b => Prefix(s, a) - Prefix(s, b) <= d
    /\ \E a, b \in 0..n : a <= b /\ d = Prefix(s, a) - Prefix(s, b)

\* The curve ends at the total and its fall is the deepest there is.
LEMMA CurveIs ==
    ASSUME NEW s, AllSettled(s)
    PROVE  /\ Curve(s).equity = Prefix(s, Len(s))
           /\ MaxDrawdown(s) \in Int /\ IsDeepest(MaxDrawdown(s), s, Len(s))
<1> DEFINE n == Len(s)
           P(k) == Prefix(s, k)
<1>1. PICK w : IsCurve(w, s, n) /\ Curve(s) = w[n]
  BY CurveIsWalk
<1>2. n \in Nat /\ \A k \in 1..n : s[k].r \in Int
  BY DEF AllSettled, Positions
<1>3. /\ P(0) = 0
      /\ \A k \in 0..n : P(k) \in Int
      /\ \A k \in 1..n : P(k) = P(k - 1) + s[k].r
  BY PrefixIs
<1> DEFINE Fits(k) ==
               /\ w[k].equity = P(k) /\ w[k].peak \in Int /\ w[k].fall \in Int
               /\ \A a \in 0..k : P(a) <= w[k].peak
               /\ \E a \in 0..k : w[k].peak = P(a)
               /\ \A a, b \in 0..k : a <= b => P(a) - P(b) <= w[k].fall
               /\ \E a, b \in 0..k : a <= b /\ w[k].fall = P(a) - P(b)
           T == {k \in 0..n : Fits(k)}
<1> HIDE DEF n, P
<1>4. Fits(0)
  <2>1. w[0] = Level
    BY <1>1 DEF IsCurve
  <2>2. w[0].equity = 0 /\ w[0].peak = 0 /\ w[0].fall = 0
    BY <2>1 DEF Level
  <2>3. \A a \in 0..0 : a = 0
    OBVIOUS
  <2>4. 0 \in 0..0
    OBVIOUS
  <2> QED
    BY <1>3, <2>2, <2>3, <2>4
<1>5. ASSUME NEW k \in 1..n, Fits(k - 1)
      PROVE  Fits(k)
  <2> DEFINE c == w[k - 1]
             d == w[k]
             e == c.equity + s[k].r
             top == Max({c.peak, e})
  <2>1. d = [equity |-> e, peak |-> top, fall |-> Max({c.fall, top - e})]
    BY <1>1 DEF IsCurve, CurveStep
  <2>2. d.equity = e /\ d.peak = top /\ d.fall = Max({c.fall, top - e})
    BY <2>1
  <2>3. k \in 0..n /\ k - 1 \in 0..n /\ k \in Nat
    BY <1>2
  <2>4. c.equity = P(k - 1) /\ c.peak \in Int /\ c.fall \in Int
    BY <1>5
  <2>5. e = P(k) /\ e \in Int
    BY <1>3, <2>3, <2>4
  <2> HIDE DEF e, c, d
  <2>6. top = IF c.peak >= e THEN c.peak ELSE e
    BY <2>4, <2>5, MaxOfTwo
  <2> HIDE DEF top
  <2>7. top \in Int /\ top - e \in Int
    BY <2>4, <2>5, <2>6
  <2>8. d.fall = IF c.fall >= top - e THEN c.fall ELSE top - e
    BY <2>2, <2>4, <2>7, MaxOfTwo
  <2>9. \A a \in 0..k : a = k \/ a \in 0..(k - 1)
    BY <2>3
  <2>10. \A a \in 0..k : P(a) \in Int
    BY <1>2, <1>3
  <2>11. /\ \A a \in 0..(k - 1) : P(a) <= c.peak
         /\ \E a \in 0..(k - 1) : c.peak = P(a)
         /\ \A a, b \in 0..(k - 1) : a <= b => P(a) - P(b) <= c.fall
         /\ \E a, b \in 0..(k - 1) : a <= b /\ c.fall = P(a) - P(b)
    BY <1>5 DEF c
  <2>12. \A a \in 0..k : P(a) <= top
    BY <2>4, <2>5, <2>6, <2>9, <2>10, <2>11
  <2>13. PICK h \in 0..k : top = P(h)
    <3>1. PICK a \in 0..(k - 1) : c.peak = P(a)
      BY <2>11
    <3>2. a \in 0..k /\ k \in 0..k
      BY <2>3
    <3> QED
      BY <2>5, <2>6, <3>1, <3>2
  <2>14. ASSUME NEW a \in 0..k, NEW b \in 0..k, a <= b
         PROVE  P(a) - P(b) <= d.fall
    <3>1. CASE b = k
      <4>1. P(a) <= top /\ P(a) \in Int
        BY <2>10, <2>12
      <4> QED
        BY <2>4, <2>5, <2>7, <2>8, <3>1, <4>1
    <3>2. CASE b # k
      <4>1. a \in 0..(k - 1) /\ b \in 0..(k - 1)
        BY <2>3, <2>14, <3>2
      <4>2. P(a) - P(b) <= c.fall /\ P(a) \in Int /\ P(b) \in Int
        BY <2>10, <2>11, <2>14, <4>1
      <4> QED
        BY <2>4, <2>7, <2>8, <4>2
    <3> QED
      BY <3>1, <3>2
  <2>15. \E a, b \in 0..k : a <= b /\ d.fall = P(a) - P(b)
    <3>1. CASE c.fall >= top - e
      <4>1. PICK a \in 0..(k - 1), b \in 0..(k - 1) : a <= b /\ c.fall = P(a) - P(b)
        BY <2>11
      <4>2. a \in 0..k /\ b \in 0..k
        BY <2>3
      <4> QED
        BY <2>8, <3>1, <4>1, <4>2
    <3>2. CASE ~(c.fall >= top - e)
      <4>1. h <= k /\ k \in 0..k
        BY <2>3
      <4> QED
        BY <2>5, <2>8, <2>13, <3>2, <4>1
    <3> QED
      BY <3>1, <3>2
  <2>16. d.fall \in Int
    BY <2>4, <2>7, <2>8
  <2> HIDE DEF Fits
  <2>17. /\ d.equity = P(k) /\ d.peak \in Int /\ d.fall \in Int
         /\ \A a \in 0..k : P(a) <= d.peak
         /\ \E a \in 0..k : d.peak = P(a)
         /\ \A a, b \in 0..k : a <= b => P(a) - P(b) <= d.fall
         /\ \E a, b \in 0..k : a <= b /\ d.fall = P(a) - P(b)
    BY <2>2, <2>5, <2>7, <2>12, <2>13, <2>14, <2>15, <2>16
  <2> QED
    BY <2>17 DEF Fits, d
<1> HIDE DEF Fits
<1>6. n \in T
  <2>1. 0 \in T /\ \A k \in 1..n : k - 1 \in T => k \in T
    BY <1>2, <1>4, <1>5
  <2> HIDE DEF T
  <2> QED
    BY <1>2, <2>1, Induction
<1>7. Fits(n)
  BY <1>6
<1>8. w[n].equity = P(n)
  BY <1>7 DEF Fits
<1>9. w[n].fall \in Int /\ IsDeepest(w[n].fall, s, n)
  BY <1>7 DEF Fits, IsDeepest, P
<1> QED
  BY <1>1, <1>8, <1>9 DEF n, P, MaxDrawdown

-----------------------------------------------------------------------------
(* The figures of a report as sums *)

Figures == {"resolved", "wins", "losses", "total", "gain", "loss"}

\* What a record adds to a figure; one without a result adds nothing.
Share(figure, r) ==
    IF r = None THEN 0
    ELSE CASE figure = "resolved" -> 1
           [] figure = "wins" -> IF r > 0 THEN 1 ELSE 0
           [] figure = "losses" -> IF r < 0 THEN 1 ELSE 0
           [] figure = "total" -> r
           [] figure = "gain" -> IF r > 0 THEN r ELSE 0
           [] figure = "loss" -> IF r < 0 THEN -r ELSE 0

Shares(figure, s) == [k \in Positions(s) |-> Share(figure, s[k].r)]

FigureOf(figure, s) == SumFunctionOnSet(Shares(figure, s), Positions(s))

\* Every record has a result or none.
Reported(s) == Len(s) \in Nat /\ \A k \in Positions(s) : s[k].r = None \/ s[k].r \in Int

\* Every record has a share in a figure, and none if it has no result.
LEMMA SharesAre ==
    ASSUME NEW s, Reported(s), NEW figure \in Figures
    PROVE  /\ IsFiniteSet(Positions(s))
           /\ \A k \in Positions(s) :
                 /\ Shares(figure, s)[k] = Share(figure, s[k].r) /\ Shares(figure, s)[k] \in Int
                 /\ s[k].r = None => Shares(figure, s)[k] = 0
<1>1. Len(s) \in Nat /\ Positions(s) = 1..Len(s)
  BY DEF Reported, Positions
<1>2. IsFiniteSet(Positions(s))
  BY <1>1, FS_Interval
<1>3. ASSUME NEW k \in Positions(s)
      PROVE  /\ Shares(figure, s)[k] = Share(figure, s[k].r) /\ Shares(figure, s)[k] \in Int
             /\ s[k].r = None => Shares(figure, s)[k] = 0
  <2>1. Shares(figure, s)[k] = Share(figure, s[k].r)
    BY DEF Shares
  <2>2. s[k].r = None \/ s[k].r \in Int
    BY DEF Reported
  <2> DEFINE r == s[k].r
  <2> HIDE DEF r
  <2>3. Share(figure, r) \in Int /\ (r = None => Share(figure, r) = 0)
    BY <2>2 DEF Share, Figures, r
  <2> QED
    BY <2>1, <2>3 DEF r
<1> QED
  BY <1>2, <1>3

\* A part of the records, picked out, has the figure of its places.
LEMMA FigureOfPicked ==
    ASSUME NEW S, NEW s \in Seq(S), Reported(s), NEW P \in SUBSET Positions(s), NEW figure \in Figures
    PROVE  /\ Reported(Picked(s, P))
           /\ FigureOf(figure, Picked(s, P)) = SumFunctionOnSet(Shares(figure, s), P)
<1> DEFINE part == Picked(s, P)
           D == Positions(part)
<1>1. part \in Seq(S) /\ IsPart(part, s, P)
  BY PickedIs DEF Positions
<1> HIDE DEF part
<1>2. PICK at \in Seq(P) :
        /\ Len(part) = Len(at) /\ Len(at) = Cardinality(P)
        /\ \A n \in 1..Len(at) : part[n] = s[at[n]]
        /\ \A k \in P : \E n \in 1..Len(at) : at[n] = k
        /\ \A m, n \in 1..Len(at) : m < n => at[m] < at[n]
  BY <1>1 DEF IsPart
<1>3. Len(at) \in Nat /\ D = 1..Len(at) /\ \A n \in D : at[n] \in P /\ at[n] \in Positions(s)
  <2>1. \A n \in 1..Len(at) : at[n] \in P
    BY ElementOfSeq
  <2>2. Len(at) \in Nat /\ D = 1..Len(at)
    BY <1>2 DEF Positions
  <2> QED
    BY <2>1, <2>2
<1>4. Reported(part)
  BY <1>2, <1>3 DEF Reported
<1>5. \A n \in D : Shares(figure, part)[n] = Shares(figure, s)[at[n]] /\ Shares(figure, s)[at[n]] \in Int
  <2>1. \A n \in D : Shares(figure, part)[n] = Share(figure, part[n].r)
    BY <1>4, SharesAre
  <2>2. \A n \in D : /\ Shares(figure, s)[at[n]] = Share(figure, s[at[n]].r)
                     /\ Shares(figure, s)[at[n]] \in Int
    BY <1>3, SharesAre
  <2> QED
    BY <1>2, <1>3, <2>1, <2>2
<1>6. \A m, n \in D : at[m] = at[n] => m = n
  <2>1. \A k \in P : k \in Int
    BY DEF Positions
  <2> QED
    BY <1>2, <1>3, <2>1
<1>7. P = {at[n] : n \in D}
  BY <1>2, <1>3
<1>8. IsFiniteSet(D)
  BY <1>3, FS_Interval
<1> HIDE DEF D
<1> DEFINE f == Shares(figure, part)
           g == Shares(figure, s)
<1> HIDE DEF f, g
<1>9. (\A n \in D : g[at[n]] \in Int) /\ (\A n \in D : f[n] = g[at[n]])
  BY <1>5 DEF f, g
<1>10. SumFunctionOnSet(g, P) = SumFunctionOnSet(f, D)
  BY <1>6, <1>7, <1>8, <1>9, SumOfImage
<1> QED
  BY <1>4, <1>10 DEF part, D, f, g, FigureOf

\* What has no result does not show in a figure.
LEMMA FigureOfSettled ==
    ASSUME NEW S, NEW s \in Seq(S), Reported(s), NEW figure \in Figures, NEW P \in SUBSET Positions(s)
    PROVE  SumFunctionOnSet(Shares(figure, s), {k \in P : s[k].r # None}) = SumFunctionOnSet(Shares(figure, s), P)
<1> DEFINE f == Shares(figure, s)
           Q == {k \in P : s[k].r # None}
<1>1. IsFiniteSet(P)
  BY SharesAre, FS_Subset
<1>2. (\A k \in P : f[k] \in Int) /\ \A k \in P \ Q : f[k] = 0
  BY SharesAre
<1>3. Q \in SUBSET P
  OBVIOUS
<1> HIDE DEF f, Q
<1>4. SumFunctionOnSet(f, P) = SumFunctionOnSet(f, Q)
  BY <1>1, <1>2, <1>3, SumOfPart
<1> QED
  BY <1>4 DEF f, Q

\* A figure whose shares are ones and zeros counts the records.
LEMMA CountIs ==
    ASSUME NEW s, Reported(s), NEW figure \in Figures, NEW P \in SUBSET Positions(s),
           \A k \in Positions(s) : Share(figure, s[k].r) = IF k \in P THEN 1 ELSE 0
    PROVE  FigureOf(figure, s) = Cardinality(P)
<1> DEFINE f == Shares(figure, s)
           D == Positions(s)
<1>1. IsFiniteSet(D) /\ \A k \in D : f[k] = Share(figure, s[k].r)
  BY SharesAre
<1>2. (\A k \in D : f[k] \in Int) /\ (\A k \in D \ P : f[k] = 0) /\ \A k \in P : f[k] = 1
  BY <1>1
<1>3. P \in SUBSET D
  OBVIOUS
<1> HIDE DEF f, D
<1>4. SumFunctionOnSet(f, D) = SumFunctionOnSet(f, P)
  BY <1>1, <1>2, <1>3, SumOfPart
<1>5. IsFiniteSet(P)
  BY <1>1, <1>3, FS_Subset
<1>6. SumFunctionOnSet(f, P) = Cardinality(P)
  BY <1>2, <1>5, SumCounts
<1> QED
  BY <1>4, <1>6 DEF FigureOf, f, D

\* Gains and losses are what the records won and lost.
LEMMA GrossIs ==
    ASSUME NEW s, AllSettled(s), \A k \in Positions(s) : s[k].r # None
    PROVE  /\ FigureOf("gain", s) = Gross(s, 1)
           /\ FigureOf("loss", s) = Gross(s, -1)
<1> DEFINE D == Positions(s)
           won == [k \in D |-> Max({0, 1 * s[k].r})]
           lost == [k \in D |-> Max({0, (-1) * s[k].r})]
<1>1. Reported(s)
  BY DEF Reported, AllSettled
<1>2. IsFiniteSet(D)
  BY <1>1, SharesAre DEF Figures
<1>3. ASSUME NEW k \in D
      PROVE  /\ Share("gain", s[k].r) = won[k] /\ won[k] \in Int
             /\ Share("loss", s[k].r) = lost[k] /\ lost[k] \in Int
  <2> DEFINE r == s[k].r
  <2>1. r \in Int /\ r # None
    BY DEF AllSettled
  <2>2. won[k] = Max({0, 1 * r}) /\ lost[k] = Max({0, (-1) * r})
    OBVIOUS
  <2> HIDE DEF r, won, lost
  <2>3. 0 \in Int /\ 1 * r \in Int /\ (-1) * r \in Int /\ 1 * r = r /\ (-1) * r = -r
    BY <2>1
  <2>4. Max({0, 1 * r}) = IF 0 >= 1 * r THEN 0 ELSE 1 * r
    BY <2>3, MaxOfTwo
  <2>5. Max({0, (-1) * r}) = IF 0 >= (-1) * r THEN 0 ELSE (-1) * r
    BY <2>3, MaxOfTwo
  <2>6. Share("gain", r) = IF r > 0 THEN r ELSE 0
    BY <2>1 DEF Share
  <2>7. Share("loss", r) = IF r < 0 THEN -r ELSE 0
    BY <2>1 DEF Share
  <2>8. Share("gain", r) = won[k] /\ won[k] \in Int
    BY <2>1, <2>2, <2>3, <2>4, <2>6
  <2>9. Share("loss", r) = lost[k] /\ lost[k] \in Int
    BY <2>1, <2>2, <2>3, <2>5, <2>7
  <2> QED
    BY <2>8, <2>9 DEF r
<1>4. Gross(s, 1) = SumFunctionOnSet(won, D) /\ Gross(s, -1) = SumFunctionOnSet(lost, D)
  <2>1. DOMAIN won = D /\ DOMAIN lost = D
    OBVIOUS
  <2>2. Gross(s, 1) = SumFunction(won) /\ Gross(s, -1) = SumFunction(lost)
    BY DEF Gross
  <2> HIDE DEF won, lost, D
  <2> QED
    BY <2>1, <2>2 DEF SumFunction
<1> HIDE DEF won, lost
<1>5. \A k \in D : /\ Shares("gain", s)[k] = Share("gain", s[k].r)
                   /\ Shares("loss", s)[k] = Share("loss", s[k].r)
  BY <1>1, SharesAre DEF Figures
<1> HIDE DEF D
<1>6. SumFunctionOnSet(Shares("gain", s), D) = SumFunctionOnSet(won, D)
  BY <1>2, <1>3, <1>5, SumOfEqual
<1>7. SumFunctionOnSet(Shares("loss", s), D) = SumFunctionOnSet(lost, D)
  BY <1>2, <1>3, <1>5, SumOfEqual
<1> QED
  BY <1>4, <1>6, <1>7 DEF FigureOf, D

\* Of records that all have a result, each figure is the sum of the shares.
LEMMA FiguresAre ==
    ASSUME NEW s, AllSettled(s), \A k \in Positions(s) : s[k].r # None
    PROVE  /\ FigureOf("resolved", s) = Len(s)
           /\ FigureOf("wins", s) = Wins(s)
           /\ FigureOf("losses", s) = Losses(s)
           /\ FigureOf("total", s) = Curve(s).equity
<1>1. Reported(s) /\ Len(s) \in Nat /\ Positions(s) = 1..Len(s)
  BY DEF Reported, AllSettled, Positions
<1>2. FigureOf("resolved", s) = Len(s)
  <2> DEFINE P == Positions(s)
  <2>1. \A k \in Positions(s) : Share("resolved", s[k].r) = IF k \in P THEN 1 ELSE 0
    BY DEF Share
  <2>2. FigureOf("resolved", s) = Cardinality(Positions(s))
    <3>1. P \in SUBSET Positions(s) /\ "resolved" \in Figures
      BY DEF Figures
    <3> HIDE DEF P
    <3>2. FigureOf("resolved", s) = Cardinality(P)
      BY <1>1, <2>1, <3>1, CountIs
    <3> QED
      BY <3>2 DEF P
  <2>3. Cardinality(1..Len(s)) = Len(s)
    <3> DEFINE n == Len(s)
    <3>1. n \in Nat
      BY <1>1
    <3> HIDE DEF n
    <3>2. Cardinality(1..n) = IF 1 > n THEN 0 ELSE n - 1 + 1
      BY <3>1, FS_Interval
    <3> QED
      BY <3>1, <3>2 DEF n
  <2> QED
    BY <1>1, <2>2, <2>3
<1>3. FigureOf("wins", s) = Wins(s)
  <2> DEFINE won == {k \in Positions(s) : s[k].r > 0}
  <2>1. \A k \in Positions(s) : Share("wins", s[k].r) = IF k \in won THEN 1 ELSE 0
    BY DEF Share
  <2>2. won \in SUBSET Positions(s)
    OBVIOUS
  <2>3. FigureOf("wins", s) = Cardinality(won)
    <3> HIDE DEF won
    <3> QED
      BY <1>1, <2>1, <2>2, CountIs DEF Figures
  <2> QED
    BY <2>3 DEF Wins
<1>4. FigureOf("losses", s) = Losses(s)
  <2> DEFINE lost == {k \in Positions(s) : s[k].r < 0}
  <2>1. \A k \in Positions(s) : Share("losses", s[k].r) = IF k \in lost THEN 1 ELSE 0
    BY DEF Share
  <2>2. lost \in SUBSET Positions(s)
    OBVIOUS
  <2>3. FigureOf("losses", s) = Cardinality(lost)
    <3> HIDE DEF lost
    <3> QED
      BY <1>1, <2>1, <2>2, CountIs DEF Figures
  <2> QED
    BY <2>3 DEF Losses
<1>5. FigureOf("total", s) = Curve(s).equity
  <2> DEFINE D == Positions(s)
             f == Result(s)
             g == Shares("total", s)
  <2>1. IsFiniteSet(D) /\ \A k \in D : f[k] = s[k].r /\ s[k].r \in Int
    BY PrefixIs
  <2>2. \A k \in D : g[k] = Share("total", s[k].r)
    BY <1>1, SharesAre DEF Figures
  <2>3. \A k \in D : Share("total", s[k].r) = s[k].r
    BY DEF Share
  <2> HIDE DEF D, f, g
  <2>4. SumFunctionOnSet(g, D) = SumFunctionOnSet(f, D)
    BY <2>1, <2>2, <2>3, SumOfEqual
  <2>5. SumFunctionOnSet(f, D) = Prefix(s, Len(s))
    BY <1>1 DEF Prefix, D, f
  <2>6. Curve(s).equity = Prefix(s, Len(s))
    BY CurveIs
  <2> QED
    BY <2>4, <2>5, <2>6 DEF FigureOf, D, g
<1> QED
  BY <1>2, <1>3, <1>4, <1>5

\* The aggregate of any records counts and adds up those that have a result.
LEMMA AggregateIs ==
    ASSUME NEW S, NEW s \in Seq(S), Reported(s), NEW figure \in Figures
    PROVE  Aggregate(s)[figure] = FigureOf(figure, s)
<1> DEFINE places == {k \in Positions(s) : s[k].r # None}
           resolved == Picked(s, places)
<1>1. places \in SUBSET Positions(s)
  OBVIOUS
<1>2. Reported(resolved) /\ FigureOf(figure, resolved) = SumFunctionOnSet(Shares(figure, s), places)
  BY <1>1, FigureOfPicked
<1>3. SumFunctionOnSet(Shares(figure, s), places) = FigureOf(figure, s)
  <2>1. Positions(s) \in SUBSET Positions(s)
    OBVIOUS
  <2> QED
    BY <2>1, FigureOfSettled DEF FigureOf
<1>4. \A n \in Positions(resolved) : resolved[n].r # None
  <2>1. IsPart(resolved, s, places)
    BY <1>1, PickedIs DEF Positions
  <2> HIDE DEF resolved
  <2>2. PICK at \in Seq(places) :
          Len(resolved) = Len(at) /\ \A n \in 1..Len(at) : resolved[n] = s[at[n]]
    BY <2>1 DEF IsPart
  <2>3. \A n \in 1..Len(at) : at[n] \in places
    BY ElementOfSeq
  <2> QED
    BY <2>2, <2>3 DEF Positions
<1>5. AllSettled(resolved)
  BY <1>2, <1>4 DEF AllSettled, Reported
<1>6. Aggregate(s) =
        [resolved |-> Len(resolved), wins |-> Wins(resolved), losses |-> Losses(resolved),
         total |-> Curve(resolved).equity, gain |-> Gross(resolved, 1), loss |-> Gross(resolved, -1),
         drawdown |-> MaxDrawdown(resolved)]
  BY DEF Aggregate
<1> HIDE DEF resolved
<1>7. /\ Aggregate(s)["resolved"] = FigureOf("resolved", resolved)
      /\ Aggregate(s)["wins"] = FigureOf("wins", resolved)
      /\ Aggregate(s)["losses"] = FigureOf("losses", resolved)
      /\ Aggregate(s)["total"] = FigureOf("total", resolved)
      /\ Aggregate(s)["gain"] = FigureOf("gain", resolved)
      /\ Aggregate(s)["loss"] = FigureOf("loss", resolved)
  BY <1>4, <1>5, <1>6, FiguresAre, GrossIs
<1>8. Aggregate(s)[figure] = FigureOf(figure, resolved)
  BY <1>7 DEF Figures
<1> QED
  BY <1>2, <1>3, <1>8

\* The rows of a breakdown add up to the figure of the whole.
LEMMA RowsAddUp ==
    ASSUME NEW S, NEW s \in Seq(S), Reported(s), NEW figure \in Figures, NEW by
    PROVE  SumFunction([g \in Grouped(s, by) |-> g.stats[figure]]) = FigureOf(figure, s)
<1> DEFINE D == Positions(s)
           key == [k \in D |-> BucketValue(by, s[k])]
           B == {BucketValue(by, s[k]) : k \in D}
           of(b) == Aggregate(Picked(s, {k \in D : BucketValue(by, s[k]) = b}))
           row == [b \in B |-> [bucket |-> b, stats |-> of(b)]]
           table == Grouped(s, by)
           value == [g \in table |-> g.stats[figure]]
           q == [b \in B |-> of(b)[figure]]
           f == Shares(figure, s)
<1>1. IsFiniteSet(D) /\ \A k \in D : f[k] \in Int
  BY SharesAre
<1>2. IsFiniteSet(B)
  <2>1. key \in Surjection(D, B)
    BY DEF Surjection
  <2> HIDE DEF key, B, D
  <2> QED
    BY <1>1, <2>1, FS_Surjection
<1>3. \A k \in D : key[k] \in B
  OBVIOUS
<1>4. \A b \in B : q[b] = SumFunctionOnSet(f, {k \in D : key[k] = b})
  <2> SUFFICES ASSUME NEW b \in B
               PROVE  q[b] = SumFunctionOnSet(f, {k \in D : key[k] = b})
    OBVIOUS
  <2> DEFINE P == {k \in D : BucketValue(by, s[k]) = b}
             part == Picked(s, P)
  <2>1. P \in SUBSET Positions(s) /\ P = {k \in D : key[k] = b}
    OBVIOUS
  <2>2. q[b] = Aggregate(part)[figure]
    OBVIOUS
  <2> HIDE DEF P, q, key
  <2>3. Reported(part) /\ FigureOf(figure, part) = SumFunctionOnSet(f, P)
    BY <2>1, FigureOfPicked
  <2>4. part \in Seq(S)
    BY <2>1, PickedIs DEF Positions
  <2> HIDE DEF part
  <2>5. Aggregate(part)[figure] = FigureOf(figure, part)
    BY <2>3, <2>4, AggregateIs
  <2> QED
    BY <2>1, <2>2, <2>3, <2>5
<1>5. table = {row[b] : b \in B}
  BY DEF Grouped
<1>6. \A b \in B : row[b].bucket = b /\ row[b].stats = of(b)
  OBVIOUS
<1>7. \A b \in B : row[b] \in table /\ value[row[b]] = q[b]
  BY <1>5, <1>6
<1>8. DOMAIN value = table
  OBVIOUS
<1> HIDE DEF D, key, B, of, row, table, value, q, f
<1>9. \A b \in B : q[b] \in Int
  <2>1. \A b \in B : {k \in D : key[k] = b} \in SUBSET D
    OBVIOUS
  <2>2. \A A \in SUBSET D : SumFunctionOnSet(f, A) \in Int
    BY <1>1, SumIs
  <2> QED
    BY <1>4, <2>1, <2>2
<1>10. SumFunctionOnSet(value, table) = SumFunctionOnSet(q, B)
  <2>1. \A b, c \in B : row[b] = row[c] => b = c
    BY <1>6
  <2>2. (\A b \in B : value[row[b]] \in Int) /\ \A b \in B : q[b] = value[row[b]]
    BY <1>7, <1>9
  <2> QED
    BY <1>2, <1>5, <2>1, <2>2, SumOfImage
<1>11. SumFunctionOnSet(q, B) = SumFunctionOnSet(f, D)
  <2> DEFINE part == [b \in B |-> {k \in D : key[k] = b}]
  <2>1. \A b \in B : part[b] = {k \in D : key[k] = b} /\ q[b] = SumFunctionOnSet(f, part[b])
    BY <1>4
  <2> HIDE DEF part
  <2> QED
    BY <1>1, <1>2, <1>3, <2>1, SumOfParts
<1>12. SumFunction(value) = FigureOf(figure, s)
  BY <1>8, <1>10, <1>11 DEF SumFunction, FigureOf, D, f
<1> QED
  BY <1>12 DEF value, table

-----------------------------------------------------------------------------
(* The worst run of records *)

\* A member of a set that none exceeds is its maximum.
LEMMA MaxIsThe ==
    ASSUME NEW S \in SUBSET Int, NEW d \in S, \A x \in S : x <= d
    PROVE  Max(S) = d
<1>1. \A y \in S : d >= y
  OBVIOUS
<1>2. Max(S) \in S /\ \A y \in S : Max(S) >= y
  BY <1>1 DEF Max
<1> DEFINE m == Max(S)
<1> HIDE DEF m
<1>3. m \in Int /\ d \in Int /\ m >= d /\ m <= d
  BY <1>2 DEF m
<1>4. m = d
  BY <1>3
<1> QED
  BY <1>4 DEF m

\* A run of consecutive records loses what the curve falls over it.
LEMMA RunIs ==
    ASSUME NEW s, AllSettled(s), NEW i \in 1..Len(s), NEW j \in 1..Len(s)
    PROVE  SumFunction([k \in i..j |-> s[k].r]) = IF j < i THEN 0 ELSE Prefix(s, j) - Prefix(s, i - 1)
<1> DEFINE D == Positions(s)
           f == Result(s)
           run == [k \in i..j |-> s[k].r]
           P(k) == Prefix(s, k)
           n == Len(s)
           T == {m \in 0..n : m >= i - 1 => SumFunctionOnSet(f, i..m) = P(m) - P(i - 1)}
<1>1. n \in Nat /\ D = 1..n /\ i \in 1..n /\ j \in 1..n
  BY DEF AllSettled, Positions
<1>2. IsFiniteSet(D) /\ \A k \in D : f[k] = s[k].r /\ f[k] \in Int
  BY PrefixIs
<1>3. /\ \A k \in 0..n : P(k) \in Int
      /\ \A k \in 1..n : P(k) = P(k - 1) + f[k]
  <2>1. \A k \in 1..n : f[k] = s[k].r
    BY <1>1, <1>2
  <2> QED
    BY <2>1, PrefixIs
<1> HIDE DEF f, D
<1>4. /\ SumFunctionOnSet(f, {}) = 0
      /\ \A A \in SUBSET D : SumFunctionOnSet(f, A) \in Int
      /\ \A A \in SUBSET D : \A x \in A : SumFunctionOnSet(f, A) = f[x] + SumFunctionOnSet(f, A \ {x})
  <2>1. IsFiniteSet(D) /\ \A x \in D : f[x] \in Int
    BY <1>2
  <2> QED
    BY <2>1, SumIs
<1> HIDE DEF P, n
<1>5. ASSUME NEW m \in 0..n, m = i - 1
      PROVE  SumFunctionOnSet(f, i..m) = P(m) - P(i - 1)
  <2>1. i..m = {} /\ i - 1 \in 0..n
    BY <1>1, <1>5
  <2> QED
    BY <1>3, <1>4, <1>5, <2>1
<1>6. 0 \in T
  <2>1. 0 \in 0..n /\ (0 >= i - 1 => 0 = i - 1)
    BY <1>1
  <2> QED
    BY <1>5, <2>1
<1>7. ASSUME NEW m \in 1..n, m - 1 \in T
      PROVE  m \in T
  <2>1. m \in 0..n /\ m - 1 \in 0..n /\ i - 1 \in 0..n
    BY <1>1
  <2>2. CASE m = i - 1
    BY <1>5, <2>1, <2>2
  <2>3. CASE m >= i
    <3>1. (i..m) \ {m} = i..(m - 1) /\ m \in i..m /\ i..m \in SUBSET D
      BY <1>1, <2>3
    <3>2. SumFunctionOnSet(f, i..m) = f[m] + SumFunctionOnSet(f, (i..m) \ {m})
      BY <1>4, <3>1
    <3>3. SumFunctionOnSet(f, (i..m) \ {m}) = SumFunctionOnSet(f, i..(m - 1))
      BY <3>1
    <3>4. SumFunctionOnSet(f, i..(m - 1)) = P(m - 1) - P(i - 1)
      BY <1>1, <1>7, <2>3
    <3>5. P(m) = P(m - 1) + f[m] /\ P(m - 1) \in Int /\ P(i - 1) \in Int /\ f[m] \in Int
      BY <1>1, <1>2, <1>3, <2>1
    <3>6. SumFunctionOnSet(f, i..m) = P(m) - P(i - 1)
      BY <3>2, <3>3, <3>4, <3>5
    <3> QED
      BY <2>1, <3>6
  <2>4. CASE ~(m >= i - 1)
    BY <2>1, <2>4
  <2> QED
    BY <1>1, <2>2, <2>3, <2>4
<1>8. j \in T
  <2>1. \A k \in 1..n : k - 1 \in T => k \in T
    BY <1>7
  <2>2. j \in 0..n
    BY <1>1
  <2> HIDE DEF T
  <2> QED
    BY <1>1, <1>6, <2>1, <2>2, Induction
<1>9. SumFunction(run) = SumFunctionOnSet(run, i..j)
  <2>1. DOMAIN run = i..j
    OBVIOUS
  <2> HIDE DEF run
  <2> QED
    BY <2>1 DEF SumFunction
<1>10. SumFunctionOnSet(run, i..j) = SumFunctionOnSet(f, i..j)
  <2>1. i..j \in SUBSET D
    BY <1>1
  <2>2. IsFiniteSet(i..j) /\ \A k \in i..j : f[k] \in Int /\ run[k] = f[k]
    BY <1>2, <2>1, FS_Subset
  <2> HIDE DEF run
  <2> QED
    BY <2>2, SumOfEqual
<1>11. CASE j < i
  <2>1. i..j = {}
    BY <1>1, <1>11
  <2>2. SumFunctionOnSet(f, i..j) = 0
    BY <1>4, <2>1
  <2> QED
    BY <1>9, <1>10, <1>11, <2>2
<1>12. CASE ~(j < i)
  <2>1. j >= i - 1
    BY <1>1, <1>12
  <2>2. SumFunctionOnSet(f, i..j) = P(j) - P(i - 1)
    BY <1>8, <2>1
  <2> QED
    BY <1>9, <1>10, <1>12, <2>2 DEF P
<1> QED
  BY <1>11, <1>12

\* The deepest fall of the curve is the loss of the worst run of records.
LEMMA DeepestIsWorst ==
    ASSUME NEW s, AllSettled(s), NEW d \in Int, IsDeepest(d, s, Len(s))
    PROVE  Max({0} \cup {LossOfRun(s, i, j) : i, j \in 1..Len(s)}) = d
<1> DEFINE n == Len(s)
           P(k) == Prefix(s, k)
           loss(i, j) == LossOfRun(s, i, j)
           L == {0} \cup {loss(i, j) : i, j \in 1..n}
<1>1. n \in Nat
  BY DEF AllSettled
<1>2. \A k \in 0..n : P(k) \in Int
  BY PrefixIs
<1>3. \A i, j \in 1..n : loss(i, j) = IF j < i THEN 0 ELSE P(i - 1) - P(j)
  <2> SUFFICES ASSUME NEW i \in 1..n, NEW j \in 1..n
               PROVE  loss(i, j) = IF j < i THEN 0 ELSE P(i - 1) - P(j)
    OBVIOUS
  <2>1. SumFunction([k \in i..j |-> s[k].r]) = IF j < i THEN 0 ELSE P(j) - P(i - 1)
    BY RunIs
  <2> DEFINE sum == SumFunction([k \in i..j |-> s[k].r])
  <2>2. loss(i, j) = -sum
    BY DEF LossOfRun
  <2>3. i - 1 \in 0..n /\ j \in 0..n
    BY <1>1
  <2> HIDE DEF sum, loss, P, n
  <2>4. P(i - 1) \in Int /\ P(j) \in Int
    BY <1>2, <2>3
  <2>5. sum = IF j < i THEN 0 ELSE P(j) - P(i - 1)
    BY <2>1 DEF sum, P
  <2> QED
    BY <2>2, <2>4, <2>5
<1>4. /\ \A a, b \in 0..n : a <= b => P(a) - P(b) <= d
      /\ \E a, b \in 0..n : a <= b /\ d = P(a) - P(b)
  BY DEF IsDeepest
<1> HIDE DEF n, P, loss
<1>5. /\ \A x \in L : x = 0 \/ \E i, j \in 1..n : x = loss(i, j)
      /\ 0 \in L /\ \A i, j \in 1..n : loss(i, j) \in L
  OBVIOUS
<1> HIDE DEF L
<1>6. 0 <= d
  <2>1. 0 \in 0..n
    BY <1>1
  <2> QED
    BY <1>2, <1>4, <2>1
<1>7. ASSUME NEW i \in 1..n, NEW j \in 1..n
      PROVE  loss(i, j) \in Int /\ loss(i, j) <= d
  <2>1. i - 1 \in 0..n /\ j \in 0..n
    BY <1>1
  <2>2. P(i - 1) \in Int /\ P(j) \in Int
    BY <1>2, <2>1
  <2>3. CASE j < i
    BY <1>3, <1>6, <2>3
  <2>4. CASE ~(j < i)
    <3>1. i - 1 <= j
      BY <2>4
    <3>2. P(i - 1) - P(j) <= d
      BY <1>4, <2>1, <3>1
    <3> QED
      BY <1>3, <2>2, <2>4, <3>2
  <2> QED
    BY <2>3, <2>4
<1>8. ASSUME NEW x \in L
      PROVE  x \in Int /\ x <= d
  <2>1. CASE x = 0
    BY <1>6, <2>1
  <2>2. ASSUME NEW i \in 1..n, NEW j \in 1..n, x = loss(i, j)
        PROVE  x \in Int /\ x <= d
    BY <1>7, <2>2
  <2> QED
    BY <1>5, <2>1, <2>2
<1>9. d \in L
  <2>1. PICK a \in 0..n, b \in 0..n : a <= b /\ d = P(a) - P(b)
    BY <1>4
  <2>2. CASE a = b
    BY <1>2, <1>5, <2>1, <2>2
  <2>3. CASE a # b
    <3> DEFINE i == a + 1
    <3>1. i \in 1..n /\ b \in 1..n /\ ~(b < i) /\ i - 1 = a
      BY <1>1, <2>1, <2>3
    <3> HIDE DEF i
    <3>2. loss(i, b) = P(a) - P(b)
      BY <1>3, <3>1
    <3>3. d = loss(i, b)
      BY <1>2, <2>1, <3>2
    <3> QED
      BY <1>5, <3>1, <3>3
  <2> QED
    BY <2>2, <2>3
<1>10. L \in SUBSET Int /\ \A x \in L : x <= d
  BY <1>8
<1>11. Max(L) = d
  BY <1>9, <1>10, MaxIsThe
<1> QED
  BY <1>11 DEF L, loss, n

\* From the other end, the curve falls over the same runs by the same.
LEMMA ReversedFalls ==
    ASSUME NEW s, AllSettled(s)
    PROVE  MaxDrawdown(Reverse(s)) = MaxDrawdown(s)
<1> DEFINE n == Len(s)
           t == Reverse(s)
           P(k) == Prefix(s, k)
           Q(k) == Prefix(t, k)
           T == {m \in 0..n : Q(m) = P(n) - P(n - m)}
<1>1. n \in Nat /\ \A k \in 1..n : s[k].r \in Int
  BY DEF AllSettled, Positions
<1>2. t = [k \in 1..n |-> s[n - k + 1]]
  BY DEF Reverse
<1> HIDE DEF t
<1>3. Len(t) = n /\ \A k \in 1..n : t[k] = s[n - k + 1]
  BY <1>1, <1>2
<1>4. AllSettled(t)
  <2>1. \A k \in 1..n : n - k + 1 \in 1..n
    BY <1>1
  <2> QED
    BY <1>1, <1>3, <2>1 DEF AllSettled, Positions
<1>5. /\ P(0) = 0
      /\ \A k \in 0..n : P(k) \in Int
      /\ \A k \in 1..n : P(k) = P(k - 1) + s[k].r
  BY PrefixIs
<1>6. /\ Q(0) = 0
      /\ \A k \in 0..n : Q(k) \in Int
      /\ \A k \in 1..n : Q(k) = Q(k - 1) + t[k].r
  BY <1>3, <1>4, PrefixIs
<1> HIDE DEF n, P, Q
<1>7. 0 \in T
  BY <1>1, <1>5, <1>6
<1>8. ASSUME NEW m \in 1..n, m - 1 \in T
      PROVE  m \in T
  <2> DEFINE k == n - m + 1
  <2>1. k \in 1..n /\ k - 1 = n - m /\ n - (m - 1) = k /\ m \in 0..n /\ k \in 0..n /\ n - m \in 0..n /\ n \in 0..n
    BY <1>1
  <2>2. t[m] = s[k]
    BY <1>3
  <2> HIDE DEF k
  <2>3. Q(m) = Q(m - 1) + s[k].r
    BY <1>6, <2>2
  <2>4. P(k) = P(n - m) + s[k].r
    BY <1>5, <2>1
  <2>5. Q(m - 1) = P(n) - P(k)
    BY <1>8, <2>1
  <2>6. P(n) \in Int /\ P(k) \in Int /\ P(n - m) \in Int /\ s[k].r \in Int
    BY <1>1, <1>5, <2>1
  <2>7. Q(m) = P(n) - P(n - m)
    BY <2>3, <2>4, <2>5, <2>6
  <2> QED
    BY <2>1, <2>7
<1>9. \A m \in 0..n : Q(m) = P(n) - P(n - m)
  <2>1. \A k \in 1..n : k - 1 \in T => k \in T
    BY <1>8
  <2> HIDE DEF T
  <2>2. \A m \in 0..n : m \in T
    BY <1>1, <1>7, <2>1, Induction
  <2> QED
    BY <2>2 DEF T
<1>10. /\ MaxDrawdown(s) \in Int
       /\ \A a, b \in 0..n : a <= b => P(a) - P(b) <= MaxDrawdown(s)
       /\ \E a, b \in 0..n : a <= b /\ MaxDrawdown(s) = P(a) - P(b)
  BY CurveIs DEF IsDeepest, n, P
<1>11. /\ MaxDrawdown(t) \in Int
       /\ \A a, b \in 0..n : a <= b => Q(a) - Q(b) <= MaxDrawdown(t)
       /\ \E a, b \in 0..n : a <= b /\ MaxDrawdown(t) = Q(a) - Q(b)
  BY <1>3, <1>4, CurveIs DEF IsDeepest, Q
<1>12. ASSUME NEW a \in 0..n, NEW b \in 0..n, a <= b
       PROVE  /\ n - b \in 0..n /\ n - a \in 0..n /\ n - b <= n - a
              /\ Q(a) - Q(b) = P(n - b) - P(n - a)
              /\ P(a) - P(b) = Q(n - b) - Q(n - a)
  <2>1. n - b \in 0..n /\ n - a \in 0..n /\ n - b <= n - a /\ n - (n - a) = a /\ n - (n - b) = b
    BY <1>1, <1>12
  <2>2. /\ P(n) \in Int /\ P(a) \in Int /\ P(b) \in Int /\ P(n - a) \in Int /\ P(n - b) \in Int
    BY <1>1, <1>5, <2>1
  <2>3. /\ Q(a) = P(n) - P(n - a) /\ Q(b) = P(n) - P(n - b)
        /\ Q(n - a) = P(n) - P(a) /\ Q(n - b) = P(n) - P(b)
    BY <1>9, <2>1
  <2> QED
    BY <2>1, <2>2, <2>3
<1>13. MaxDrawdown(t) <= MaxDrawdown(s)
  BY <1>10, <1>11, <1>12
<1>14. MaxDrawdown(s) <= MaxDrawdown(t)
  BY <1>10, <1>11, <1>12
<1> QED
  BY <1>10, <1>11, <1>13, <1>14 DEF t

-----------------------------------------------------------------------------
(* The reports over the tables *)

\* A record has a result or none.
LEMMA RecordsAreReported ==
    ASSUME NEW record \in Records
    PROVE  record.r = None \/ record.r \in Int
<1>1. PICK i \in Ids, row \in {Pending} \cup Outcomes, isBuilt \in BOOLEAN, isEmbedded \in BOOLEAN :
        record = RecordWith(i, row, isBuilt, isEmbedded)
  BY DEF Records
<1>2. record.r = row.r
  BY <1>1 DEF RecordWith
<1>3. row.r = None \/ row.r \in Int
  BY RetrievalAssumption DEF RetrievalAssumption, Pending
<1> QED
  BY <1>2, <1>3

\* A listing holds each prediction it lists once, with a result or none.
LEMMA ComposedIs ==
    ASSUME Tables, NEW ids \in SUBSET Recorded
    PROVE  /\ Composed(NewestFirst(ids)) \in Seq(Records) /\ Reported(Composed(NewestFirst(ids)))
           /\ Len(Composed(NewestFirst(ids))) = Cardinality(ids)
           /\ Len(NewestFirst(ids)) = Cardinality(ids) /\ Cardinality(ids) \in Nat /\ IsFiniteSet(ids)
<1> DEFINE s == NewestFirst(ids)
           g == Composed(s)
<1>1. ids \in SUBSET Ids
  BY DEF Recorded
<1>2. IsFiniteSet(ids) /\ Cardinality(ids) \in Nat
  BY <1>1, AgeOrders, FS_CardinalityType
<1>3. s \in Seq(ids)
  BY <1>1, NewestFirstIs
<1>4. Len(s) = Cardinality(ids)
  <2>1. DOMAIN s = 1..Cardinality(ids)
    BY DEF NewestFirst
  <2> HIDE DEF s
  <2> QED
    BY <1>2, <1>3, <2>1
<1>5. g = [k \in 1..Len(s) |-> Compose(s[k])]
  BY DEF Composed
<1> HIDE DEF s, g
<1>6. \A k \in 1..Len(s) : Compose(s[k]) \in Records
  <2>1. \A k \in 1..Len(s) : s[k] \in Recorded
    BY <1>3
  <2> QED
    BY <2>1, ComposeIs
<1>7. g \in Seq(Records) /\ Len(g) = Len(s)
  BY <1>2, <1>4, <1>5, <1>6
<1>8. Reported(g)
  <2>1. \A k \in 1..Len(g) : g[k] \in Records
    BY <1>7
  <2> QED
    BY <1>2, <1>4, <1>7, <2>1, RecordsAreReported DEF Reported, Positions
<1> QED
  BY <1>2, <1>4, <1>7, <1>8 DEF s, g

\* So does the listing of the completed ones.
LEMMA CompletedReports ==
    ASSUME Tables, NEW symbol
    PROVE  Completed(symbol) \in Seq(Records) /\ Reported(Completed(symbol))
<1> DEFINE ids == {i \in Recorded : rows[i] # Pending /\ OfSymbol(symbol, i)}
<1>1. Completed(symbol) = Composed(NewestFirst(ids)) /\ ids \in SUBSET Recorded
  BY DEF Completed
<1> HIDE DEF ids
<1> QED
  BY <1>1, ComposedIs

\* What is open and what is completed is everything.
LEMMA TotalIs ==
    ASSUME Tables
    PROVE  Statistics(None).total = Statistics(None).open + Len(Completed(None))
<1> DEFINE open == {i \in Recorded : rows[i] = Pending /\ OfSymbol(None, i)}
           closed == {i \in Recorded : rows[i] # Pending /\ OfSymbol(None, i)}
           s == NewestFirst(open)
<1>1. open \in SUBSET Recorded /\ closed \in SUBSET Recorded /\ open \cap closed = {} /\ open \cup closed = Recorded
  BY DEF OfSymbol
<1>2. Active(None) = Composed([k \in 1..Len(s) |-> s[Len(s) + 1 - k]])
  BY DEF Active
<1>3. Completed(None) = Composed(NewestFirst(closed))
  BY DEF Completed
<1> HIDE DEF open, closed
<1>4. /\ Len(s) = Cardinality(open) /\ Cardinality(open) \in Nat /\ IsFiniteSet(open)
      /\ Len(Completed(None)) = Cardinality(closed) /\ Cardinality(closed) \in Nat /\ IsFiniteSet(closed)
  BY <1>1, <1>3, ComposedIs
<1> HIDE DEF s
<1>5. Len(Active(None)) = Cardinality(open)
  <2> DEFINE c == Cardinality(open)
             t == [k \in 1..c |-> s[c + 1 - k]]
  <2> HIDE DEF c
  <2>1. Len(s) = c /\ c \in Nat
    BY <1>4 DEF c
  <2>2. Len(t) = c
    BY <2>1
  <2>3. Active(None) = Composed(t)
    BY <1>2, <2>1
  <2> HIDE DEF t
  <2>4. Len(Composed(t)) = c
    BY <2>1, <2>2 DEF Composed
  <2> QED
    BY <2>3, <2>4 DEF c
<1>6. Cardinality(Recorded) = Cardinality(open) + Cardinality(closed)
  <2>1. Cardinality(open \cup closed) = Cardinality(open) + Cardinality(closed) - Cardinality(open \cap closed)
    BY <1>4, FS_Union
  <2>2. Cardinality({}) = 0
    BY FS_EmptySet
  <2>3. Cardinality(open \cap closed) = 0 /\ Cardinality(open \cup closed) = Cardinality(Recorded)
    BY <1>1, <2>2
  <2> QED
    BY <1>4, <2>1, <2>3
<1>7. Statistics(None).total = Cardinality(Recorded) /\ Statistics(None).open = Len(Active(None))
  BY DEF Statistics
<1> QED
  BY <1>4, <1>5, <1>6, <1>7

\* The dataset of a page has its results, in its order.
LEMMA DatasetReports ==
    ASSUME NEW S, NEW g \in Seq(S), Reported(g)
    PROVE  /\ AllSettled(Dataset(g)) /\ Len(Dataset(g)) = Aggregate(g).resolved
           /\ MaxDrawdown(Dataset(g)) = Aggregate(g).drawdown
           /\ Aggregate(g).wins \in 0..Len(Dataset(g))
<1> DEFINE places == {k \in Positions(g) : g[k].r # None}
           settled == Picked(g, places)
           e == Dataset(g)
<1>1. places \in SUBSET Positions(g)
  OBVIOUS
<1>2. e = [k \in 1..Len(settled) |-> LearningRecord(settled[k])]
  BY DEF Dataset
<1>3. /\ Aggregate(g).resolved = Len(settled)
      /\ Aggregate(g).drawdown = MaxDrawdown(settled)
      /\ Aggregate(g).wins = Wins(settled)
  BY DEF Aggregate
<1>4. settled \in Seq(S) /\ IsPart(settled, g, places)
  BY <1>1, PickedIs DEF Positions
<1> HIDE DEF settled, e
<1>5. PICK at \in Seq(places) :
        Len(settled) = Len(at) /\ \A n \in 1..Len(at) : settled[n] = g[at[n]]
  BY <1>4 DEF IsPart
<1>6. AllSettled(settled)
  <2>1. \A n \in 1..Len(at) : at[n] \in places
    BY ElementOfSeq
  <2>2. \A k \in places : g[k].r \in Int
    BY DEF Reported
  <2> QED
    BY <1>4, <1>5, <2>1, <2>2 DEF AllSettled, Positions
<1>7. Len(e) = Len(settled) /\ \A k \in 1..Len(settled) : e[k].r = settled[k].r
  BY <1>2, <1>4 DEF LearningRecord
<1>8. AllSettled(e)
  BY <1>6, <1>7 DEF AllSettled, Positions
<1>9. Result(e) = Result(settled)
  BY <1>7 DEF Result, Positions
<1>10. MaxDrawdown(e) = MaxDrawdown(settled)
  <2> DEFINE n == Len(e)
             P(k) == Prefix(e, k)
             d == MaxDrawdown(e)
             c == MaxDrawdown(settled)
  <2>1. \A k : P(k) = Prefix(settled, k)
    BY <1>9 DEF Prefix
  <2>2. /\ d \in Int
        /\ \A a, b \in 0..n : a <= b => P(a) - P(b) <= d
        /\ \E a, b \in 0..n : a <= b /\ d = P(a) - P(b)
    BY <1>8, CurveIs DEF IsDeepest
  <2>3. /\ c \in Int
        /\ \A a, b \in 0..n : a <= b => P(a) - P(b) <= c
        /\ \E a, b \in 0..n : a <= b /\ c = P(a) - P(b)
    BY <1>6, <1>7, <2>1, CurveIs DEF IsDeepest
  <2> HIDE DEF n, P, d, c
  <2>4. d <= c
    BY <2>2, <2>3
  <2>5. c <= d
    BY <2>2, <2>3
  <2>6. d = c
    BY <2>2, <2>3, <2>4, <2>5
  <2> QED
    BY <2>6 DEF d, c
<1>11. Wins(settled) \in 0..Len(settled)
  BY <1>4, WinsAre
<1> QED
  BY <1>3, <1>7, <1>8, <1>10, <1>11 DEF e

\* The approximation of the interval is the narrower one.
LEMMA IntervalsAgree ==
    ASSUME NEW n \in Nat, NEW w \in 0..n, ExcludesBaseline(w, n)
    PROVE  n > 0 /\ IntervalExcludesHalf(w, n)
<1> DEFINE gap == 2 * w - n
           square == gap * gap
           both == w * (n - w)
<1>1. gap \in Int /\ square \in Int /\ both \in Int /\ w \in Int /\ n \in Int
  OBVIOUS
<1>2. Z2 \in Nat /\ square > Z2 * n
  BY LearningAssumption DEF LearningAssumption, ExcludesBaseline
<1>3. n # 0
  <2> SUFFICES ASSUME n = 0
               PROVE  FALSE
    OBVIOUS
  <2>1. w = 0 /\ gap = 0 /\ square = 0 /\ Z2 * n = 0
    BY <1>2
  <2> QED
    BY <1>2, <2>1
<1>4. 4 * both = n * n - square
  OBVIOUS
<1>5. square >= 0
  BY <1>1
<1> HIDE DEF square, both, gap
<1>6. 4 * Z2 * both <= Z2 * (n * n)
  <2>1. 4 * both <= n * n
    BY <1>1, <1>4, <1>5
  <2>2. Z2 * (4 * both) <= Z2 * (n * n)
    BY <1>1, <1>2, <2>1
  <2>3. 4 * Z2 * both = Z2 * (4 * both)
    BY <1>1, <1>2
  <2> QED
    BY <2>2, <2>3
<1>7. square * n > (Z2 * n) * n
  <2>1. Z2 * n \in Int
    BY <1>2
  <2> DEFINE z == Z2 * n
  <2> HIDE DEF z
  <2>2. square * n > z * n
    <3>1. z \in Int /\ square > z /\ n > 0
      BY <1>2, <1>3, <2>1 DEF z
    <3>2. (square - z) * n > 0
      BY <1>1, <3>1
    <3>3. (square - z) * n = square * n - z * n
      BY <1>1, <3>1
    <3>4. square * n \in Int /\ z * n \in Int
      BY <1>1, <3>1
    <3> QED
      BY <3>2, <3>3, <3>4
  <2> QED
    BY <2>2 DEF z
<1>8. (Z2 * n) * n = Z2 * (n * n)
  BY <1>2
<1>9. square * n > 4 * Z2 * both
  <2> DEFINE u == square * n
             v == Z2 * (n * n)
             t == 4 * Z2 * both
  <2>1. u \in Int /\ v \in Int /\ t \in Int
    BY <1>1, <1>2
  <2>2. t <= v /\ u > v
    BY <1>6, <1>7, <1>8
  <2> HIDE DEF u, v, t
  <2>3. u > t
    BY <2>1, <2>2
  <2> QED
    BY <2>3 DEF u, t
<1>10. 4 * Z2 * both = 4 * Z2 * w * (n - w)
  BY <1>1, <1>2 DEF both
<1>11. IntervalExcludesHalf(w, n)
  BY <1>9, <1>10 DEF IntervalExcludesHalf, square, gap
<1> QED
  BY <1>3, <1>11

\* The reports agree over any tables the backend can be in.
LEMMA TablesReport ==
    ASSUME Tables
    PROVE  ReportsAgree
<1> DEFINE all == Summarised(None)
           completed == Completed(None)
           e == Dataset(completed)
           figures == all.stats.performance
           n == Len(e)
<1>1. completed \in Seq(Records) /\ Reported(completed)
  BY CompletedReports
<1>2. /\ all.stats = Statistics(None) /\ figures = Aggregate(completed)
      /\ all.comparison = LiveVsBacktest(figures.wins, figures.resolved)
  BY DEF Summarised, Statistics
<1>3. ASSUME NEW symbol, NEW by, NEW figure \in Figures
      PROVE  SumFunction([g \in Breakdown(by, symbol).groups |-> g.stats[figure]]) = Statistics(symbol).performance[figure]
  <2>1. Completed(symbol) \in Seq(Records) /\ Reported(Completed(symbol))
    BY CompletedReports
  <2>2. Breakdown(by, symbol).groups = Grouped(Completed(symbol), by)
    BY DEF Breakdown
  <2>3. Statistics(symbol).performance = Aggregate(Completed(symbol))
    BY DEF Statistics
  <2>4. SumFunction([g \in Grouped(Completed(symbol), by) |-> g.stats[figure]]) = FigureOf(figure, Completed(symbol))
    BY <2>1, RowsAddUp
  <2>5. Aggregate(Completed(symbol))[figure] = FigureOf(figure, Completed(symbol))
    BY <2>1, AggregateIs
  <2> QED
    BY <2>2, <2>3, <2>4, <2>5
<1>4. ASSUME NEW symbol, NEW by
      PROVE  Breakdown(by, symbol).resolved = Statistics(symbol).performance.resolved
  <2>1. Breakdown(by, symbol).resolved = SumFunction([g \in Breakdown(by, symbol).groups |-> g.stats.resolved])
    BY DEF Breakdown
  <2>2. "resolved" \in Figures
    BY DEF Figures
  <2>3. SumFunction([g \in Breakdown(by, symbol).groups |-> g.stats["resolved"]]) = Statistics(symbol).performance["resolved"]
    BY <1>3, <2>2
  <2> QED
    BY <2>1, <2>3
<1>5. all.stats.total = all.stats.open + Len(completed)
  BY <1>2, TotalIs
<1>6. /\ AllSettled(e) /\ n = figures.resolved /\ figures.wins \in 0..n
      /\ figures.drawdown = MaxDrawdown(e)
  BY <1>1, <1>2, DatasetReports
<1>7. n \in Nat
  BY <1>6 DEF AllSettled
<1> HIDE DEF e, all, completed, figures
<1>8. figures.drawdown = Max({0} \cup {LossOfRun(e, i, j) : i, j \in 1..n})
  <2>1. MaxDrawdown(e) \in Int /\ IsDeepest(MaxDrawdown(e), e, Len(e))
    BY <1>6, CurveIs
  <2>2. Max({0} \cup {LossOfRun(e, i, j) : i, j \in 1..Len(e)}) = MaxDrawdown(e)
    BY <1>6, <2>1, DeepestIsWorst
  <2> QED
    BY <1>6, <2>2
<1>9. figures.drawdown = MaxDrawdown(Reverse(e))
  BY <1>6, ReversedFalls
<1>10. ASSUME n >= MinSignificance, ExcludesBaseline(figures.wins, n)
       PROVE  all.comparison = "statistically_significant"
  <2>1. n > 0 /\ IntervalExcludesHalf(figures.wins, n)
    BY <1>6, <1>7, <1>10, IntervalsAgree
  <2>2. MinSignificance \in Nat
    BY ReportsAssumption DEF ReportsAssumption
  <2>3. LiveVsBacktest(figures.wins, n) = "statistically_significant"
    BY <1>7, <1>10, <2>1, <2>2 DEF LiveVsBacktest
  <2> QED
    BY <1>2, <1>6, <2>3
<1>11. \A symbol, by : GroupsAddUp(by, symbol)
  BY <1>3, <1>4 DEF Figures, GroupsAddUp
<1>12. IsWorst(figures.drawdown, e)
  BY <1>8, <1>9 DEF IsWorst
<1> QED
  BY <1>5, <1>10, <1>11, <1>12 DEF ReportsAgree, e, all, completed, figures

\* Every report over the same tables tells the same: what is open and completed is
\* everything, the groups of each breakdown add up to the statistics, the drawdown
\* is the worst run of results from either end, and the summary calls significant
\* every rate that the pipeline's interval tells from a coin flip
\* (forward_analytics.py, aggregate, group_and_aggregate; learning/statistics.py).
THEOREM ReportsAgreeHolds == Spec => []ReportsAgree
<1>1. IInv => ReportsAgree
  BY TablesReport DEF IInv
<1> QED
  BY <1>1, InductiveInvariant, PTL

=============================================================================
