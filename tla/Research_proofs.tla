-------------------------- MODULE Research_proofs --------------------------
(***************************************************************************)
(* Proofs about the pure parts of the program, for histories, prices and   *)
(* parameters of any size: the splits of the evaluations are out of        *)
(* sample, no feature knows a later bar, what the assistant draws is a     *)
(* trade of its signal, all that score a trade agree with the resolver's   *)
(* loop, both backtests hold one position at a time, and a market upside   *)
(* down is read upside down.                                               *)
(***************************************************************************)
EXTENDS MCResearch, FiniteSetTheorems, NaturalsInduction, SequenceTheorems, WellFoundedInduction, TLAPS

-----------------------------------------------------------------------------
(* The folds *)

LEMMA StrideIs ==
    ASSUME NEW a \in Int, NEW b \in Int, NEW h \in Nat \ {0}, a % h = 0, b % h = 0, a < b
    PROVE  a + h <= b
<1>1. a = h * (a \div h) /\ b = h * (b \div h) /\ a \div h \in Int /\ b \div h \in Int
  OBVIOUS
<1> DEFINE x == a \div h
           y == b \div h
<1>2. x \in Int /\ y \in Int /\ a = h * x /\ b = h * y
  BY <1>1
<1> HIDE DEF x, y
<1>3. x < y
  BY <1>2
<1>4. x + 1 <= y
  BY <1>2, <1>3
<1>5. h * (x + 1) <= h * y
  BY <1>2, <1>4
<1>6. h * (x + 1) = h * x + h
  BY <1>2
<1> QED
  BY <1>2, <1>5, <1>6

\* The rows of a stride do not overlap, and keep their distance.
LEMMA EveryIsDisjoint ==
    ASSUME NEW h \in Nat \ {0}, NEW from \in Int, NEW to \in Int,
           NEW r \in Every(h, from, to), NEW s \in Every(h, from, to), r < s
    PROVE  r + h <= s
<1>1. /\ r \in Int /\ s \in Int /\ r - from \in Int /\ s - from \in Int
      /\ (r - from) % h = 0 /\ (s - from) % h = 0
  BY DEF Every
<1> DEFINE a == r - from
           b == s - from
<1>2. a \in Int /\ b \in Int /\ a % h = 0 /\ b % h = 0 /\ a < b
  BY <1>1
<1>3. r = a + from /\ s = b + from
  BY <1>1
<1> HIDE DEF a, b
<1>4. a + h <= b
  BY <1>2, StrideIs
<1> QED
  BY <1>2, <1>3, <1>4

LEMMA EveryIsWithin ==
    ASSUME NEW h \in Nat \ {0}, NEW from \in Int, NEW to \in Int, NEW r \in Every(h, from, to)
    PROVE  r \in from..(to - 1)
BY DEF Every

\* The last 15 per cent are the end of the history.
LEMMA DevEndIs ==
    ASSUME NEW n \in Nat
    PROVE  DevEnd(n) \in 0..n
BY DEF DevEnd

\* A fold is fitted before a row q, and judged from h rows after it.
LEMMA FoldIs ==
    ASSUME NEW end \in Nat, NEW folds \in Nat \ {0}, NEW k \in 1..folds, NEW h \in Nat \ {0}
    PROVE  /\ TrainEnd(end, folds, k) \in Nat
           /\ ValStart(end, folds, k, h) = TrainEnd(end, folds, k) + h
           /\ ValEnd(end, folds, k, h) \in Int
<1> DEFINE q == end \div (folds + 1)
<1>1. q \in Nat
  OBVIOUS
<1> HIDE DEF q
<1>2. q * k \in Nat
  BY <1>1
<1>3. TrainEnd(end, folds, k) = q * k
  BY DEF TrainEnd, q
<1>4. ValStart(end, folds, k, h) = q * k + h
  BY <1>3 DEF ValStart, Gap
<1>5. ValEnd(end, folds, k, h) = Less(q * k + h + q, end)
  BY <1>4 DEF ValEnd, q
<1>6. q * k + h + q \in Int
  BY <1>1, <1>2
<1>7. ValEnd(end, folds, k, h) \in Int
  BY <1>5, <1>6 DEF Less
<1> QED
  BY <1>2, <1>3, <1>4, <1>7

LEMMA PurgedFoldIsApart ==
    ASSUME NEW n \in Nat, NEW folds \in Nat \ {0}, NEW k \in 1..folds, NEW h \in Nat \ {0}
    PROVE  Apart(PurgedFold(n, folds, k, h), h) /\ Disjoint(PurgedFold(n, folds, k, h), h)
<1> DEFINE end == DevEnd(n)
           q == TrainEnd(end, folds, k)
           last == ValEnd(end, folds, k, h)
<1>1. q \in Nat /\ last \in Int /\ ValStart(end, folds, k, h) = q + h
  BY DevEndIs, FoldIs
<1> HIDE DEF end, q, last
<1>2. PurgedFold(n, folds, k, h) = [train |-> 0..(q - 1), test |-> Every(h, q + h, last)]
  BY <1>1 DEF PurgedFold, end, q, last
<1>3. ASSUME NEW t \in 0..(q - 1), NEW r \in Every(h, q + h, last)
      PROVE  t + h < r
  BY <1>1, EveryIsWithin
<1>4. \A r, s \in Every(h, q + h, last) : r < s => r + h <= s
  BY <1>1, EveryIsDisjoint
<1> QED
  BY <1>2, <1>3, <1>4 DEF Apart, Disjoint

LEMMA DirectionFoldIsApart ==
    ASSUME NEW n \in Nat, NEW folds \in Nat \ {0}, NEW k \in 1..folds, NEW h \in Nat \ {0}
    PROVE  Apart(DirectionFold(n, folds, k, h), h)
<1> DEFINE q == TrainEnd(n, folds, k)
           last == IF k < folds THEN ValEnd(n, folds, k, h) ELSE n
<1>1. q \in Nat /\ last \in Int /\ ValStart(n, folds, k, h) = q + h
  BY FoldIs
<1> HIDE DEF q, last
<1>2. DirectionFold(n, folds, k, h) = [train |-> 0..(q - 1), test |-> (q + h)..(last - 1)]
  BY <1>1 DEF DirectionFold, q, last
<1> QED
  BY <1>1, <1>2 DEF Apart

LEMMA OutcomeFoldIsApart ==
    ASSUME NEW n \in Nat, NEW folds \in Nat \ {0}, NEW k \in 1..folds, NEW h \in Nat \ {0}
    PROVE  Apart(OutcomeFold(n, folds, k, h), h)
<1> DEFINE end == DevEnd(n)
           q == TrainEnd(end, folds, k)
           last == ValEnd(end, folds, k, h)
<1>1. q \in Nat /\ last \in Int /\ ValStart(end, folds, k, h) = q + h
  BY DevEndIs, FoldIs
<1> HIDE DEF end, q, last
<1>2. OutcomeFold(n, folds, k, h) = [train |-> 0..(q - 1), test |-> (q + h)..(last - 1)]
  BY <1>1 DEF OutcomeFold, end, q, last
<1> QED
  BY <1>1, <1>2 DEF Apart

LEMMA NetworkFoldIsApart ==
    ASSUME NEW n \in Nat, NEW folds \in Nat \ {0}, NEW k \in 1..folds, NEW h \in Nat \ {0}
    PROVE  Apart(NetworkFold(n, folds, k, h), h)
<1> DEFINE start == (n * 4) \div 10
           size == (n - start) \div folds
           cut == start + (k - 1) * size
<1>1. start \in 0..n
  OBVIOUS
<1>2. n - start \in Nat
  BY <1>1
<1> HIDE DEF start
<1>3. size \in Nat
  BY <1>2
<1> HIDE DEF size
<1>4. (k - 1) * size \in Int
  BY <1>3
<1>5. cut \in Int
  BY <1>1, <1>4
<1>6. NetworkFold(n, folds, k, h) =
        [train |-> 0..(cut - h - 1), test |-> IF cut + size > n THEN {} ELSE cut..(cut + size - h - 1)]
  BY DEF NetworkFold, start, size
<1> HIDE DEF cut
<1>7. \A t \in 0..(cut - h - 1), r \in IF cut + size > n THEN {} ELSE cut..(cut + size - h - 1) : t + h < r
  BY <1>3, <1>5
<1> QED
  BY <1>6, <1>7 DEF Apart

LEMMA HoldoutIsApart ==
    ASSUME NEW n \in Nat, NEW h \in Nat \ {0}
    PROVE  Apart(Holdout(n, h), h) /\ Disjoint(Holdout(n, h), h)
<1> DEFINE cut == (n * 8) \div 10
<1>1. cut \in Int
  OBVIOUS
<1>2. Holdout(n, h) = [train |-> 0..(cut - h - 1), test |-> Every(h, cut, n)]
  BY DEF Holdout
<1> HIDE DEF cut
<1>3. ASSUME NEW t \in 0..(cut - h - 1), NEW r \in Every(h, cut, n)
      PROVE  t + h < r
  BY <1>1, EveryIsWithin
<1>4. \A r, s \in Every(h, cut, n) : r < s => r + h <= s
  BY <1>1, EveryIsDisjoint
<1> QED
  BY <1>2, <1>3, <1>4 DEF Apart, Disjoint

LEMMA FinalSliceIsApart ==
    ASSUME NEW n \in Nat, NEW h \in Nat \ {0}
    PROVE  Apart(FinalSlice(n, h), h)
BY DevEndIs DEF FinalSlice, Apart

LEMMA FrameCutIsApart ==
    ASSUME NEW n \in Nat, NEW h \in Nat \ {0}
    PROVE  Apart(FrameCut(n, h), h)
<1> DEFINE cut == (n * 75) \div 100
<1>1. cut \in Int
  OBVIOUS
<1>2. FrameCut(n, h) = [train |-> 0..(cut - h - 1), test |-> cut..(n - 1)]
  BY DEF FrameCut
<1> HIDE DEF cut
<1> QED
  BY <1>1, <1>2 DEF Apart

\* The calibrator is fitted after the model and judged after both.
LEMMA ThreeWayIsApart ==
    ASSUME NEW n \in Nat, NEW h \in Nat \ {0}
    PROVE  LET split == ThreeWay(n, h)
           IN  /\ Apart([train |-> split.train \cup split.calibrate, test |-> split.test], h)
               /\ Apart([train |-> split.train, test |-> split.calibrate], h)
               /\ Disjoint(split, h)
<1> DEFINE a == (n * 7) \div 10
           b == DevEnd(n)
<1>1. a \in Int /\ b \in Int /\ a <= b
  BY DEF DevEnd
<1>2. ThreeWay(n, h) = [train |-> 0..(a - h - 1), calibrate |-> a..(b - h - 1), test |-> Every(h, b, n)]
  BY DEF ThreeWay
<1> HIDE DEF a, b
<1>3. ASSUME NEW t \in 0..(a - h - 1) \cup a..(b - h - 1), NEW r \in Every(h, b, n)
      PROVE  t + h < r
  BY <1>1, EveryIsWithin
<1>4. ASSUME NEW t \in 0..(a - h - 1), NEW r \in a..(b - h - 1)
      PROVE  t + h < r
  BY <1>1
<1>5. \A r, s \in Every(h, b, n) : r < s => r + h <= s
  BY <1>1, EveryIsDisjoint
<1> QED
  BY <1>2, <1>3, <1>4, <1>5 DEF Apart, Disjoint

\* The direction probability of a row rests on bars up to it.
LEMMA DirectionRestsIsPast ==
    ASSUME NEW n \in Nat, NEW folds \in Nat \ {0}, NEW h \in Nat \ {0}, NEW r \in Int,
           NEW bar \in DirectionRests(n, folds, h, r)
    PROVE  bar \in Int /\ bar <= r
<1>1. CASE bar = r
  BY <1>1
<1>2. CASE bar # r
  <2>1. PICK k \in 1..folds : /\ r \in DirectionFold(n, folds, k, h).test
                              /\ \E t \in DirectionFold(n, folds, k, h).train : bar = t + h
    BY <1>2 DEF DirectionRests
  <2>2. PICK t \in DirectionFold(n, folds, k, h).train : bar = t + h
    BY <2>1
  <2>3. t + h < r
    BY <2>1, <2>2, DirectionFoldIsApart DEF Apart
  <2>4. t \in Int
    BY <2>2 DEF DirectionFold
  <2> QED
    BY <2>2, <2>3, <2>4
<1> QED
  BY <1>1, <1>2

\* So does its outcome probability, through both models.
LEMMA OutcomeRestsIsPast ==
    ASSUME NEW n \in Nat, NEW folds \in Nat \ {0}, NEW h \in Nat \ {0}, NEW r \in Int,
           NEW bar \in OutcomeRests(n, folds, h, r)
    PROVE  bar <= r
<1>1. CASE bar \in DirectionRests(n, folds, h, r)
  BY <1>1, DirectionRestsIsPast
<1>2. CASE bar \notin DirectionRests(n, folds, h, r)
  <2>1. PICK split \in OutcomeSplits(n, folds, h) :
          /\ r \in split.test
          /\ \E t \in split.train : bar \in {t + h} \cup DirectionRests(n, folds, h, t)
    BY <1>2 DEF OutcomeRests
  <2>2. PICK t \in split.train : bar \in {t + h} \cup DirectionRests(n, folds, h, t)
    BY <2>1
  <2>3. Apart(split, h) /\ t \in Int
    <3>1. CASE split = FinalSlice(n, h)
      BY <3>1, <2>2, FinalSliceIsApart DEF FinalSlice
    <3>2. CASE split # FinalSlice(n, h)
      <4>1. PICK k \in 1..folds : split = OutcomeFold(n, folds, k, h)
        BY <3>2, <2>1 DEF OutcomeSplits
      <4> QED
        BY <4>1, <2>2, OutcomeFoldIsApart DEF OutcomeFold
    <3> QED
      BY <3>1, <3>2
  <2>4. t + h < r
    BY <2>1, <2>2, <2>3 DEF Apart
  <2>5. bar = t + h \/ (bar \in Int /\ bar <= t)
    BY <2>2, <2>3, DirectionRestsIsPast
  <2> QED
    BY <2>3, <2>4, <2>5
<1> QED
  BY <1>1, <1>2

\* For any number of rows and folds and any horizon: in the evaluations by bars
\* no model they fit sees a judged bar by its labels, labels judged a horizon apart
\* do not overlap, and the stacked models rest on the past (purged_walk_forward
\* and the other splits with a purge; meta.train has none).
THEOREM EvaluationsAreOutOfSample ==
    \A n \in Nat, folds \in Nat \ {0}, h \in Nat \ {0} : IsOutOfSample(n, folds, h)
<1> SUFFICES ASSUME NEW n \in Nat, NEW folds \in Nat \ {0}, NEW h \in Nat \ {0}
             PROVE  IsOutOfSample(n, folds, h)
  OBVIOUS
<1>1. ASSUME NEW split \in PurgedSplits(n, folds, h)
      PROVE  Apart(split, h)
  <2>1. CASE \E k \in 1..folds : split \in {PurgedFold(n, folds, k, h), DirectionFold(n, folds, k, h),
                                          OutcomeFold(n, folds, k, h), NetworkFold(n, folds, k, h)}
    BY <2>1, PurgedFoldIsApart, DirectionFoldIsApart, OutcomeFoldIsApart, NetworkFoldIsApart
  <2>2. CASE ~\E k \in 1..folds : split \in {PurgedFold(n, folds, k, h), DirectionFold(n, folds, k, h),
                                           OutcomeFold(n, folds, k, h), NetworkFold(n, folds, k, h)}
    BY <2>2, HoldoutIsApart, FrameCutIsApart, FinalSliceIsApart, ThreeWayIsApart DEF PurgedSplits
  <2> QED
    BY <2>1, <2>2
<1>2. Disjoint(Holdout(n, h), h) /\ Disjoint(ThreeWay(n, h), h)
  BY HoldoutIsApart, ThreeWayIsApart
<1>3. \A k \in 1..folds : Disjoint(PurgedFold(n, folds, k, h), h)
  BY PurgedFoldIsApart
<1>4. \A r \in 0..(n - 1) : \A bar \in OutcomeRests(n, folds, h, r) : bar <= r
  BY OutcomeRestsIsPast
<1> QED
  BY <1>1, <1>2, <1>3, <1>4 DEF IsOutOfSample

\* The split of meta.train is in the order of the calls and leaves no gap: the
\* last call fitted on is the one before the first judged.
LEMMA MetaFoldTouches ==
    ASSUME NEW n \in Nat, NEW k \in 1..4
    PROVE  Apart(MetaFold(n, k), 0) /\ (n >= 5 => ~Apart(MetaFold(n, k), 1))
<1> DEFINE size == n \div 5
           start == n - (5 - k) * size
<1>1. size \in Nat /\ 5 * size <= n /\ (n >= 5 => size >= 1)
  OBVIOUS
<1>2. MetaFold(n, k) = [train |-> 0..(start - 1), test |-> start..(start + size - 1)]
  BY DEF MetaFold
<1> HIDE DEF size
<1>3. start \in Int /\ start >= size
  <2>1. k = 1 \/ k = 2 \/ k = 3 \/ k = 4
    OBVIOUS
  <2> QED
    BY <1>1, <2>1
<1> HIDE DEF start
<1>4. Apart(MetaFold(n, k), 0)
  BY <1>1, <1>2, <1>3 DEF Apart
<1>5. ASSUME n >= 5
      PROVE  ~Apart(MetaFold(n, k), 1)
  <2>1. start - 1 \in MetaFold(n, k).train /\ start \in MetaFold(n, k).test
    BY <1>1, <1>2, <1>3, <1>5
  <2>2. ~(start - 1 + 1 < start)
    BY <1>3
  <2> QED
    BY <2>1, <2>2 DEF Apart
<1> QED
  BY <1>4, <1>5

\* What meta.train and outcome_training leave open, for any sizes.
LEMMA EvaluationsLeaveOpen ==
    ASSUME NEW n \in Nat, NEW folds \in Nat \ {0}, NEW h \in Nat \ {0}
    PROVE  LeavesOpen(n, folds, h)
<1>1. ASSUME NEW k \in 1..folds, h > 1,
             NEW r \in OutcomeFold(n, folds, k, h).test, r + 1 \in OutcomeFold(n, folds, k, h).test
      PROVE  ~Disjoint(OutcomeFold(n, folds, k, h), h)
  <2>1. OutcomeFold(n, folds, k, h).test
          = ValStart(DevEnd(n), folds, k, h)..(ValEnd(DevEnd(n), folds, k, h) - 1)
    BY DEF OutcomeFold
  <2>2. r \in Int
    BY <2>1
  <2>3. r < r + 1 /\ ~(r + h <= r + 1)
    BY <1>1, <2>2
  <2> QED
    BY <1>1, <2>3 DEF Disjoint
<1>2. ASSUME NEW k \in 1..folds
      PROVE  OutcomeFold(n, folds, k, h).test \cap FinalSlice(n, h).test = {}
  <2> DEFINE end == DevEnd(n)
             last == ValEnd(end, folds, k, h)
  <2>1. OutcomeFold(n, folds, k, h).test = ValStart(end, folds, k, h)..(last - 1)
    BY DEF OutcomeFold
  <2>2. FinalSlice(n, h).test = end..(n - 1)
    BY DEF FinalSlice
  <2>3. end \in Int
    BY DEF DevEnd
  <2> HIDE DEF end
  <2>4. last \in Int /\ last <= end
    <3>1. end \div (folds + 1) \in Int
      BY <2>3
    <3>2. TrainEnd(end, folds, k) \in Int
      BY <3>1 DEF TrainEnd
    <3>3. ValStart(end, folds, k, h) + end \div (folds + 1) \in Int
      BY <3>1, <3>2 DEF ValStart, Gap
    <3> QED
      BY <2>3, <3>3 DEF ValEnd, Less
  <2> HIDE DEF last
  <2> QED
    BY <2>1, <2>2, <2>3, <2>4
<1>3. \A k \in 1..4 : Apart(MetaFold(n, k), 0) /\ (n >= 5 => ~Apart(MetaFold(n, k), 1))
  BY MetaFoldTouches
<1> QED
  BY <1>1, <1>2, <1>3 DEF LeavesOpen

-----------------------------------------------------------------------------
(* The studies *)

Studies == TradeStudies \cup MarketStudies \cup FoldStudies \cup StockStudies

\* A candle: its open and its close lie within its range.
IsCandle(b) == b.low <= b.close /\ b.close <= b.high /\ b.low <= b.high

TradeBar == {b \in [ts : Nat, open : Price, low : Price, high : Price, close : Price] : IsCandle(b)}
MarketBar == {b \in [open : 1..Most, low : 1..Most, high : 1..Most, close : 1..Most] :
                IsCandle(b) /\ b.low <= b.open /\ b.open <= b.high}

\* The study never changes, and its candles print in order.
IInv ==
    /\ study \in Studies
    /\ IsTrade => bars \in Seq(TradeBar) /\ \A k \in 1..Len(bars) : bars[k].ts = k
    /\ IsMarket => bars \in Seq(MarketBar)

LEMMA StudyKinds ==
    ASSUME study \in Studies
    PROVE  /\ study.kind = "trade" <=> study \in TradeStudies
           /\ study.kind = "market" <=> study \in MarketStudies
           /\ study.kind = "folds" <=> study \in FoldStudies
           /\ study.kind = "stock" <=> study \in StockStudies
BY DEF Studies, TradeStudies, MarketStudies, FoldStudies, StockStudies

LEMMA ShapesAreBars ==
    ASSUME NEW b \in MarketShapes
    PROVE  b \in MarketBar
<1>1. Half \in Nat /\ Most \in Nat /\ Half >= 4 /\ Most >= Half + 3
  BY ResearchAssumption DEF Half, Most
<1> QED
  BY <1>1 DEF MarketShapes, SolidShapes, Shape, MarketBar, IsCandle

LEMMA ResearchInvariant == Spec => []IInv
<1>1. Init => IInv
  BY DEF Init, IInv, Studies
<1>2. IInv /\ [Next]_vars => IInv'
  <2> SUFFICES ASSUME IInv, [Next]_vars
               PROVE  IInv'
    OBVIOUS
  <2>1. CASE TradeCandle
    <3>1. PICK low \in Price : \E high \in low..MaxPrice : \E close \in {low, high} :
            bars' = Append(bars, [ts |-> Len(bars) + 1, open |-> close, low |-> low,
                                  high |-> high, close |-> close])
      BY <2>1 DEF TradeCandle
    <3>1a. PICK high \in low..MaxPrice : \E close \in {low, high} :
            bars' = Append(bars, [ts |-> Len(bars) + 1, open |-> close, low |-> low,
                                  high |-> high, close |-> close])
      BY <3>1
    <3>2. PICK close \in {low, high} :
            bars' = Append(bars, [ts |-> Len(bars) + 1, open |-> close, low |-> low,
                                  high |-> high, close |-> close])
      BY <3>1a
    <3> DEFINE bar == [ts |-> Len(bars) + 1, open |-> close, low |-> low, high |-> high, close |-> close]
    <3>3. study' = study /\ IsTrade /\ ~IsMarket
      BY <2>1 DEF TradeCandle, IsTrade, IsMarket
    <3>4. bars \in Seq(TradeBar) /\ Len(bars) \in Nat
      BY <3>3 DEF IInv
    <3>5. bar \in TradeBar /\ bar.ts = Len(bars) + 1
      BY <3>4, ResearchAssumption DEF TradeBar, IsCandle, Price
    <3> HIDE DEF bar
    <3>6. bars' \in Seq(TradeBar) /\ \A k \in 1..Len(bars') : bars'[k].ts = k
      BY <3>2, <3>3, <3>4, <3>5 DEF IInv, bar
    <3> QED
      BY <3>3, <3>6 DEF IInv, IsTrade, IsMarket
  <2>2. CASE MarketCandle
    <3>1. PICK shape \in MarketShapes : bars' = Append(bars, shape)
      BY <2>2 DEF MarketCandle, MarketShapes
    <3>2. study' = study /\ ~IsTrade /\ IsMarket
      BY <2>2 DEF MarketCandle, IsTrade, IsMarket
    <3> QED
      BY <3>1, <3>2, ShapesAreBars DEF IInv, IsTrade, IsMarket
  <2>3. CASE UNCHANGED vars
    BY <2>3 DEF vars, IInv, IsTrade, IsMarket
  <2>4. CASE Finished
    BY <2>3, <2>4 DEF Finished
  <2> QED
    BY <2>1, <2>2, <2>3, <2>4 DEF Next
<1> QED
  BY <1>1, <1>2, PTL DEF Spec

\* Of the run's study, the evaluations by bars are out of sample, and the two
\* others are as far as LeavesOpen says (OutOfSample).
THEOREM OutOfSampleHolds == Spec => []OutOfSample
<1>1. IInv => OutOfSample
  <2> SUFFICES ASSUME study \in Studies, study.kind = "folds"
               PROVE  /\ IsOutOfSample(study.n, study.folds, study.h)
                      /\ LeavesOpen(study.n, study.folds, study.h)
    BY DEF OutOfSample, IInv
  <2>1. study \in FoldStudies
    BY StudyKinds
  <2>2. study.n \in Nat /\ study.folds \in Nat \ {0} /\ study.h \in Nat \ {0}
    BY <2>1, ResearchAssumption DEF FoldStudies
  <2> QED
    BY <2>2, EvaluationsAreOutOfSample, EvaluationsLeaveOpen
<1> QED
  BY <1>1, ResearchInvariant, PTL

-----------------------------------------------------------------------------
(* The features.  Two frames that agree on the bars up to i give bar i the *)
(* same features, whatever they hold after it.                             *)

Agree(frame, other, i) ==
    /\ i \in 1..Len(frame) /\ i \in 1..Len(other) /\ i \in Int
    /\ Len(frame) \in Nat /\ Len(other) \in Nat
    /\ \A k \in 1..i : frame[k] = other[k]

LEMMA SwingsAgree ==
    ASSUME NEW frame, NEW other, NEW i, Agree(frame, other, i), NEW n \in 1..i
    PROVE  Shown(frame, n) = Shown(other, n)
<1> DEFINE j == ConfirmedAt(n)
<1>1. n \in Int /\ j = n - Width /\ j + Width = n /\ j \in Int /\ Width \in Nat \ {0}
  BY StructureAssumption DEF Agree, ConfirmedAt
<1>2. HasBothSides(frame, j) <=> j - Width >= 1
  BY <1>1 DEF HasBothSides, Agree
<1>3. HasBothSides(other, j) <=> j - Width >= 1
  BY <1>1 DEF HasBothSides, Agree
<1>4. ASSUME j - Width >= 1
      PROVE  /\ frame[j] = other[j]
             /\ \A k \in Around(frame, j) : frame[k] = other[k]
             /\ Around(frame, j) = Around(other, j)
  <2>1. Around(frame, j) = Around(other, j)
    BY DEF Around
  <2>2. Around(frame, j) \subseteq 1..i /\ j \in 1..i
    BY <1>1, <1>4 DEF Around, Agree
  <2> QED
    BY <2>1, <2>2 DEF Agree
<1> HIDE DEF j
<1>5. SwingHigh(frame, j) <=> SwingHigh(other, j)
  BY <1>2, <1>3, <1>4 DEF SwingHigh
<1>6. SwingLow(frame, j) <=> SwingLow(other, j)
  BY <1>2, <1>3, <1>4 DEF SwingLow
<1>7. SwingHigh(frame, j) \/ SwingLow(frame, j) => frame[j] = other[j]
  BY <1>2, <1>4 DEF SwingHigh, SwingLow
<1>8. frame[n] = other[n]
  BY DEF Agree
<1> QED
  BY <1>5, <1>6, <1>7, <1>8 DEF Shown, j

LEMMA StructureAgrees ==
    ASSUME NEW frame, NEW other, NEW i, Agree(frame, other, i)
    PROVE  StructureAt(frame, i) = StructureAt(other, i)
<1>1. [n \in 1..i |-> Shown(frame, n)] = [n \in 1..i |-> Shown(other, n)]
  BY SwingsAgree
<1> QED
  BY <1>1 DEF StructureAt

LEMMA SupertrendAgrees ==
    ASSUME NEW frame, NEW other, NEW i, NEW reach, Agree(frame, other, i)
    PROVE  Supertrend(frame, i, reach) = Supertrend(other, i, reach)
<1>1. \A n \in 1..i : Banded(frame, n, reach) = Banded(other, n, reach)
  BY DEF Banded, Agree
<1>2. [n \in 1..i |-> Banded(frame, n, reach)] = [n \in 1..i |-> Banded(other, n, reach)]
  BY <1>1
<1> QED
  BY <1>2 DEF Supertrend

LEMMA GapAgrees ==
    ASSUME NEW frame, NEW other, NEW i, Agree(frame, other, i)
    PROVE  FairValueGap(frame, i) = FairValueGap(other, i)
<1>1. frame[i] = other[i] /\ (i > 2 => frame[i - 2] = other[i - 2])
  BY DEF Agree
<1> QED
  BY <1>1 DEF FairValueGap, Agree

LEMMA LiquidityAgrees ==
    ASSUME NEW frame, NEW other, NEW i, Agree(frame, other, i)
    PROVE  LiquidityPools(frame, i) = LiquidityPools(other, i)
<1> DEFINE window == IF i <= Lookback THEN {} ELSE (i - Lookback)..(i - 1)
           Up(candles, k) == candles[k].high - candles[i].high
           Down(candles, k) == candles[i].low - candles[k].low
           Above(candles) == [k \in {k \in window : Up(candles, k) >= 0} |-> Up(candles, k)]
           Under(candles) == [k \in {k \in window : Down(candles, k) >= 0} |-> Down(candles, k)]
<1>1. \A k \in window : frame[k] = other[k]
  BY StructureAssumption DEF Agree
<1>2. frame[i] = other[i]
  BY DEF Agree
<1> HIDE DEF window
<1>3. \A k \in window : Up(frame, k) = Up(other, k) /\ Down(frame, k) = Down(other, k)
  BY <1>1, <1>2
<1>4. Above(frame) = Above(other)
  <2> HIDE DEF Up
  <2> QED
    BY <1>3
<1>5. Under(frame) = Under(other)
  <2> HIDE DEF Down
  <2> QED
    BY <1>3
<1>6. LiquidityPools(frame, i) = [sell |-> Nearest(Above(frame)), buy |-> Nearest(Under(frame))]
  BY DEF LiquidityPools, window
<1>7. LiquidityPools(other, i) = [sell |-> Nearest(Above(other)), buy |-> Nearest(Under(other))]
  BY DEF LiquidityPools, window
<1> HIDE DEF Above, Under
<1> QED
  BY <1>4, <1>5, <1>6, <1>7

LEMMA ChannelAgrees ==
    ASSUME NEW frame, NEW other, NEW i, Agree(frame, other, i)
    PROVE  Donchian(frame, i) = Donchian(other, i)
<1>1. CASE i < Channel
  BY <1>1 DEF Donchian
<1>2. CASE ~(i < Channel)
  <2> DEFINE window == (i - Channel + 1)..i
  <2>1. \A k \in window : frame[k] = other[k]
    BY <1>2, StructureAssumption DEF Agree
  <2> HIDE DEF window
  <2>2. {frame[k].low : k \in window} = {other[k].low : k \in window}
    BY <2>1
  <2>3. {frame[k].high : k \in window} = {other[k].high : k \in window}
    BY <2>1
  <2> QED
    BY <1>2, <2>2, <2>3 DEF Donchian, window
<1> QED
  BY <1>1, <1>2

LEMMA LastBarsAgree ==
    ASSUME NEW frame, NEW other, NEW i, Agree(frame, other, i)
    PROVE  /\ TrueRange(frame, i) = TrueRange(other, i)
           /\ DirectionalMove(frame, i) = DirectionalMove(other, i)
           /\ PivotPoints(frame, i) = PivotPoints(other, i)
           /\ CorePatterns(frame, i) = CorePatterns(other, i)
<1>1. frame[i] = other[i] /\ (i # 1 => frame[i - 1] = other[i - 1])
      /\ (i > 2 => frame[i - 2] = other[i - 2]) /\ (i > 1 => i # 1)
  BY DEF Agree
<1>2. TrueRange(frame, i) = TrueRange(other, i)
  BY <1>1 DEF TrueRange
<1>3. DirectionalMove(frame, i) = DirectionalMove(other, i)
  BY <1>1 DEF DirectionalMove
<1>4. PivotPoints(frame, i) = PivotPoints(other, i)
  BY <1>1 DEF PivotPoints
<1>5. CorePatterns(frame, i) = CorePatterns(other, i)
  <2>1. i > 2 => i > 1
    BY DEF Agree
  <2> QED
    BY <1>1, <2>1 DEF CorePatterns
<1> QED
  BY <1>2, <1>3, <1>4, <1>5

LEMMA ConfluenceAgrees ==
    ASSUME NEW frame, NEW other, NEW i, NEW average, Agree(frame, other, i)
    PROVE  Confluence(frame, i, average) = Confluence(other, i, average)
<1>1. frame[i] = other[i]
  BY DEF Agree
<1>2. /\ NearSupport(frame, i) <=> NearSupport(other, i)
      /\ NearResistance(frame, i) <=> NearResistance(other, i)
  BY <1>1, ChannelAgrees DEF NearSupport, NearResistance
<1>3. CorePatterns(frame, i) = CorePatterns(other, i)
  BY LastBarsAgree
<1>4. StructureAt(frame, i) = StructureAt(other, i)
  BY StructureAgrees
<1> QED
  BY <1>2, <1>3, <1>4 DEF Confluence

\* What a frame holds after bar i changes no feature of bar i, for any candles,
\* widths, periods and lookbacks (market_structure, fair_value_gaps,
\* liquidity_pools, the patterns and the indicators).
THEOREM FeaturesAreCausal ==
    ASSUME NEW frame, NEW other, NEW i, Agree(frame, other, i)
    PROVE  FeaturesAt(frame, i) = FeaturesAt(other, i)
BY StructureAgrees, SupertrendAgrees, GapAgrees, LiquidityAgrees, ChannelAgrees, LastBarsAgree,
   ConfluenceAgrees DEF FeaturesAt

\* No feature of a bar changes when the next candle prints (NoLookahead).
THEOREM NoLookaheadHolds == Spec => []NoLookahead
<1>1. IInv => NoLookahead
  <2> SUFFICES ASSUME IInv, IsMarket, NEW i \in 1..(Len(bars) - 1)
               PROVE  FeaturesAt(bars, i) = FeaturesAt(Front(bars), i)
    BY DEF NoLookahead
  <2>1. bars \in Seq(MarketBar)
    BY DEF IInv
  <2>2. /\ Len(bars) \in Nat /\ Len(Front(bars)) = Len(bars) - 1
        /\ \A k \in 1..(Len(bars) - 1) : Front(bars)[k] = bars[k]
    BY <2>1 DEF Front
  <2>3. Agree(bars, Front(bars), i)
    BY <2>2 DEF Agree
  <2> QED
    BY <2>3, FeaturesAreCausal
<1> QED
  BY <1>1, ResearchInvariant, PTL

-----------------------------------------------------------------------------
(* The least and the greatest of some prices *)

LEMMA LeastIs ==
    ASSUME NEW S \in SUBSET Nat, S # {}
    PROVE  Least(S) \in S /\ \A x \in S : Least(S) <= x
<1>1. PICK m \in S : \A x \in S : <<x, m>> \notin OpToRel(<, Nat)
  BY WFMin, NatLessThanWellFounded, Zenon
<1>2. \A x \in S : ~(x < m)
  BY <1>1 DEF OpToRel
<1>3. \A x \in S : m <= x
  BY <1>2
<1> QED
  BY <1>3 DEF Least

LEMMA GreatestIs ==
    ASSUME NEW n \in Nat, NEW S \in SUBSET (0..n), S # {}
    PROVE  Greatest(S) \in S /\ \A x \in S : x <= Greatest(S)
<1> DEFINE T == {n - x : x \in S}
<1>1. T \in SUBSET Nat /\ T # {}
  <2>1. \A x \in S : n - x \in Nat
    OBVIOUS
  <2> QED
    BY <2>1
<1>2. Least(T) \in T /\ \A y \in T : Least(T) <= y
  BY <1>1, LeastIs
<1>3. PICK m \in S : Least(T) = n - m
  BY <1>2
<1>4. \A x \in S : n - m <= n - x
  BY <1>2, <1>3
<1>5. \A x \in S : x <= m
  BY <1>4
<1> QED
  BY <1>5 DEF Greatest

-----------------------------------------------------------------------------
(* The assistant, on a frame long enough for its channel *)

Framed == bars \in Seq(MarketBar) /\ Len(bars) \in Nat /\ Len(bars) >= Channel

\* The channel holds the last candle.
LEMMA ChannelIs ==
    ASSUME Framed
    PROVE  LET channel == Donchian(bars, Len(bars))
               close == bars[Len(bars)].close
           IN  /\ channel.lower \in 1..Most /\ channel.upper \in 1..Most /\ close \in 1..Most
               /\ channel.lower <= close /\ close <= channel.upper
<1> DEFINE i == Len(bars)
           window == (i - Channel + 1)..i
           lows == {bars[k].low : k \in window}
           highs == {bars[k].high : k \in window}
<1>1. i \in window /\ window \subseteq 1..i
  BY StructureAssumption DEF Framed
<1>2. Most \in Nat
  BY ResearchAssumption DEF Most
<1>3. \A k \in window : bars[k] \in MarketBar
  BY <1>1 DEF Framed
<1>4. lows \in SUBSET (1..Most) /\ highs \in SUBSET (1..Most)
  BY <1>3 DEF MarketBar
<1>5. bars[i].low \in lows /\ bars[i].high \in highs
  BY <1>1
<1>6. Donchian(bars, i) = [lower |-> Least(lows), upper |-> Greatest(highs)]
  BY StructureAssumption DEF Framed, Donchian
<1>7. bars[i].low <= bars[i].close /\ bars[i].close <= bars[i].high /\ bars[i].close \in 1..Most
  BY <1>1, <1>3 DEF MarketBar, IsCandle
<1> HIDE DEF lows, highs
<1>8. Least(lows) \in lows /\ Least(lows) <= bars[i].low
  BY <1>4, <1>5, LeastIs
<1>9. Greatest(highs) \in highs /\ bars[i].high <= Greatest(highs)
  <2>1. highs \in SUBSET (0..Most)
    BY <1>2, <1>4
  <2> HIDE DEF i
  <2> QED
    BY <1>2, <1>5, <2>1, GreatestIs
<1> HIDE DEF i
<1>10. /\ Least(lows) \in 1..Most /\ Greatest(highs) \in 1..Most
       /\ bars[i].low \in 1..Most /\ bars[i].high \in 1..Most
  BY <1>4, <1>5, <1>8, <1>9
<1>11. Least(lows) <= bars[i].close /\ bars[i].close <= Greatest(highs)
  BY <1>2, <1>7, <1>8, <1>9, <1>10
<1> QED
  BY <1>6, <1>7, <1>10, <1>11 DEF i

Plans == [stop : Int, target : Int, target2 : Int, rr : Int]

\* The levels of a plan are on the two sides of its entry.
Straddles(plan, entry) ==
    \/ plan.stop < entry /\ entry < plan.target /\ plan.target < plan.target2
    \/ plan.stop > entry /\ entry > plan.target /\ plan.target > plan.target2

LEMMA PlanIs ==
    ASSUME NEW side, NEW entry \in Int, NEW distance \in Nat \ {0}
    PROVE  LET plan == BuildPlan(side, entry, distance)
           IN  /\ plan # None => /\ side \in Side /\ entry > 0
                                 /\ plan \in Plans /\ Straddles(plan, entry)
                                 /\ plan.stop = IF side = "BUY" THEN entry - distance ELSE entry + distance
                                 /\ plan.target = IF side = "BUY" THEN entry + 2 * distance
                                                                  ELSE entry - 2 * distance
               /\ side \in Side /\ entry > 0 => plan # None
<1> DEFINE plan == BuildPlan(side, entry, distance)
<1>1. CASE side \notin Side \/ entry <= 0
  BY <1>1 DEF BuildPlan
<1>2. CASE side \in Side /\ entry > 0
  <2>1. CASE side = "BUY"
    <3>1. plan = [stop |-> entry - distance, target |-> entry + 2 * distance,
                  target2 |-> entry + 3 * distance, rr |-> 20]
      BY <1>2, <2>1 DEF BuildPlan
    <3> QED
      BY <1>2, <2>1, <3>1, SignalAssumption DEF Plans, Straddles
  <2>2. CASE side = "SELL"
    <3>1. plan = [stop |-> entry + distance, target |-> entry - 2 * distance,
                  target2 |-> entry - 3 * distance, rr |-> 20]
      BY <1>2, <2>2 DEF BuildPlan
    <3> QED
      BY <1>2, <2>2, <3>1, SignalAssumption DEF Plans, Straddles
  <2> QED
    BY <1>2, <2>1, <2>2 DEF Side
<1> QED
  BY <1>1, <1>2

\* A signal has a plan unless it is to wait.
SignalOK(signal) ==
    /\ signal.entry \in Nat \ {0}
    /\ signal.plan = None <=> signal.decision = "WAIT"
    /\ signal.plan # None => signal.plan \in Plans /\ Straddles(signal.plan, signal.entry)

LEMMA AnalyzeIs ==
    ASSUME Framed, study.reading.atr \in Nat \ {0}
    PROVE  LET signal == Analyze(bars, study.reading)
           IN  SignalOK(signal) /\ signal.entry = bars[Len(bars)].close
<1> DEFINE close == bars[Len(bars)].close
<1>1. close \in Nat \ {0}
  BY ChannelIs, ResearchAssumption DEF Most
<1> HIDE DEF close
<1>2. ASSUME NEW side, NEW conf
      PROVE  LET signal == Signal(side, conf, close, study.reading.atr)
             IN  SignalOK(signal) /\ signal.entry = close
  <2> DEFINE plan == BuildPlan(side, close, study.reading.atr)
  <2>1. plan # None => side \in Side /\ plan \in Plans /\ Straddles(plan, close)
    BY <1>1, PlanIs
  <2> HIDE DEF plan
  <2>2. CASE MeetsMinRewardRisk(plan)
    <3>1. plan # None
      BY <2>2 DEF MeetsMinRewardRisk
    <3>2. Signal(side, conf, close, study.reading.atr)
            = [decision |-> side, conf |-> conf, entry |-> close, plan |-> plan]
      BY <2>2 DEF Signal, plan
    <3> QED
      BY <1>1, <2>1, <3>1, <3>2 DEF SignalOK, Side
  <2>3. CASE ~MeetsMinRewardRisk(plan)
    <3>1. Signal(side, conf, close, study.reading.atr)
            = [decision |-> "WAIT", conf |-> conf, entry |-> close, plan |-> None]
      BY <2>3 DEF Signal, plan
    <3> QED
      BY <1>1, <3>1 DEF SignalOK
  <2> QED
    BY <2>2, <2>3
<1> QED
  BY <1>2 DEF Analyze, close

LEMMA ChannelOrder ==
    ASSUME NEW price \in Int, NEW channel, channel.lower \in Int, channel.upper \in Int,
           channel.lower <= channel.upper
    PROVE  /\ AtLeastUp(price, channel, 60) => ~AtMostUp(price, channel, 25)
           /\ AtMostUp(price, channel, 40) => ~AtLeastUp(price, channel, 75)
           /\ AtLeastUp(price, channel, 75) => AtLeastUp(price, channel, 60)
           /\ AtMostUp(price, channel, 25) => AtMostUp(price, channel, 40)
<1> DEFINE height == channel.upper - channel.lower
           above == price - 3 * channel.lower
<1>1. height \in Nat /\ above \in Int
  OBVIOUS
<1>2. price > 3 * channel.lower <=> above > 0
  OBVIOUS
<1>3. price <= 3 * channel.lower <=> above <= 0
  OBVIOUS
<1>4. /\ AtLeastUp(price, channel, 60) <=> IF height = 0 THEN above > 0 ELSE 100 * above >= 3 * 60 * height
      /\ AtLeastUp(price, channel, 75) <=> IF height = 0 THEN above > 0 ELSE 100 * above >= 3 * 75 * height
      /\ AtMostUp(price, channel, 25) <=> IF height = 0 THEN above <= 0 ELSE 100 * above <= 3 * 25 * height
      /\ AtMostUp(price, channel, 40) <=> IF height = 0 THEN above <= 0 ELSE 100 * above <= 3 * 40 * height
  BY <1>2, <1>3 DEF AtLeastUp, AtMostUp
<1> HIDE DEF height, above
<1> QED
  BY <1>1, <1>4

\* A side the assistant picks itself is never one it calls a bad spot for.
LEMMA LocationIsFair ==
    ASSUME Framed, NEW reading, NEW price \in Int
    PROVE  LET side == LocationSide(bars, reading, price)
           IN  side \in Side /\ PlaceVerdict(bars, side, price) # "bad"
<1> DEFINE channel == Donchian(bars, Len(bars))
<1>1. channel.lower \in Int /\ channel.upper \in Int /\ channel.lower <= channel.upper
  BY ChannelIs, ResearchAssumption DEF Most
<1> HIDE DEF channel
<1>2. /\ AtLeastUp(price, channel, 60) => ~AtMostUp(price, channel, 25)
      /\ AtMostUp(price, channel, 40) => ~AtLeastUp(price, channel, 75)
      /\ AtLeastUp(price, channel, 75) => AtLeastUp(price, channel, 60)
      /\ AtMostUp(price, channel, 25) => AtMostUp(price, channel, 40)
  BY <1>1, ChannelOrder
<1>3. Bias(bars, reading) \in Side
  BY DEF Bias, Side
<1>4. PlaceVerdict(bars, "BUY", price) = "bad"
        => ~AtMostUp(price, channel, 35) /\ AtLeastUp(price, channel, 75)
  BY DEF PlaceVerdict, channel
<1>5. PlaceVerdict(bars, "SELL", price) = "bad"
        => ~AtLeastUp(price, channel, 65) /\ AtMostUp(price, channel, 25)
  BY DEF PlaceVerdict, channel
<1>6. LocationSide(bars, reading, price) = IF AtLeastUp(price, channel, 60) THEN "SELL"
                                           ELSE IF AtMostUp(price, channel, 40) THEN "BUY"
                                           ELSE Bias(bars, reading)
  BY DEF LocationSide, channel
<1> QED
  BY <1>2, <1>3, <1>4, <1>5, <1>6 DEF Side

\* A rounded price is a number and half a cent off at the most.
LEMMA RoundedIs ==
    ASSUME NEW price \in Int
    PROVE  /\ Rounded(price) \in Int
           /\ 2 * (Rounded(price) - price) <= Cent /\ 2 * (price - Rounded(price)) <= Cent
<1> DEFINE rest == price % Cent
           even == (price \div Cent) % 2 = 0
<1>1. Cent \in Nat \ {0} /\ rest \in 0..(Cent - 1)
  BY AssistantAssumption
<1>2. Rounded(price) = IF 2 * rest < Cent \/ (2 * rest = Cent /\ even) THEN price - rest
                                                                      ELSE price - rest + Cent
  BY DEF Rounded
<1> HIDE DEF rest, even
<1> QED
  BY <1>1, <1>2

\* What lies on one side of a price lies there rounded, to the cent.
LEMMA RoundedStays ==
    ASSUME NEW price \in Int, NEW bound \in Int
    PROVE  /\ bound <= price => AtMostToTheCent(bound, Rounded(price))
           /\ price <= bound => AtMostToTheCent(Rounded(price), bound)
<1>1. Cent \in Nat \ {0}
  BY AssistantAssumption
<1>2. /\ Rounded(price) \in Int /\ Cent \in Nat
      /\ 2 * (Rounded(price) - price) <= Cent /\ 2 * (price - Rounded(price)) <= Cent
  BY <1>1, RoundedIs
<1> QED
  BY <1>2 DEF AtMostToTheCent

\* A plan drawn at its entry is a full one on one side.
LEMMA MarksAreOneSided ==
    ASSUME NEW entry \in Int, NEW plan \in Plans, Straddles(plan, entry)
    PROVE  /\ OneSided(Marks(entry, plan))
           /\ DOMAIN Marks(entry, plan) = DOMAIN NoMarks
BY DEF Plans, Straddles, OneSided, Marks, NoMarks

LEMMA PlanMarkersAre ==
    ASSUME NEW signal, SignalOK(signal)
    PROVE  /\ signal.plan = None => PlanMarkers(signal) = NoMarks
           /\ signal.plan # None => OneSided(PlanMarkers(signal)) /\ PlanMarkers(signal).tp1 # None
<1>1. CASE signal.plan # None
  <2>1. PlanMarkers(signal) = [entry |-> 3 * signal.entry, stop |-> 3 * signal.plan.stop,
                               tp1 |-> 3 * signal.plan.target, tp2 |-> 3 * signal.plan.target2]
    BY <1>1 DEF PlanMarkers, PlanOf, Marks
  <2>2. /\ signal.entry \in Int /\ signal.plan.stop \in Int
        /\ signal.plan.target \in Int /\ signal.plan.target2 \in Int
    BY <1>1 DEF SignalOK, Plans
  <2>3. Straddles(signal.plan, signal.entry)
    BY <1>1 DEF SignalOK
  <2> QED
    BY <1>1, <2>1, <2>2, <2>3, NoneAssumption DEF Straddles, OneSided
<1> QED
  BY <1>1 DEF PlanMarkers

\* What the assistant answers: a record, consistent with the signal.
Answered(signal, reply) ==
    /\ reply = [about |-> reply.about, marks |-> reply.marks, decision |-> reply.decision, trade |-> reply.trade]
    /\ Consistent(signal, reply)
    /\ reply.about = "watch" => WatchIsBetter(signal, reply)

LEMMA ExplainedIs ==
    ASSUME NEW signal, SignalOK(signal)
    PROVE  /\ Answered(signal, Safety(signal))
           /\ Answered(signal, Direct(signal))
           /\ Answered(signal, Summary(signal))
           /\ Answered(signal, Risk(signal))
           /\ Answered(signal, Help)
           /\ Answered(signal, WhyWait(signal))
<1>1. None \in {NoMarks[line] : line \in DOMAIN NoMarks} /\ NoMarks.tp1 = None
  BY DEF NoMarks
<1>2. ASSUME NEW about, about # "watch"
      PROVE  /\ Answered(signal, Reply(about, PlanMarkers(signal), signal.decision))
             /\ Answered(signal, Reply(about, PlanMarkers(signal),
                                       IF signal.plan = None THEN None ELSE signal.decision))
             /\ Answered(signal, Reply(about, NoMarks, signal.decision))
             /\ Answered(signal, Reply(about, NoMarks, None))
  <2>1. \/ PlanMarkers(signal) = NoMarks
        \/ OneSided(PlanMarkers(signal)) /\ signal.decision # "WAIT"
    BY PlanMarkersAre DEF SignalOK
  <2> QED
    BY <1>1, <1>2, <2>1 DEF Answered, Reply, Consistent
<1>3. \A about \in {"safe", "direction", "summary", "risk", "help", "why_wait"} :
        /\ Answered(signal, Reply(about, PlanMarkers(signal), signal.decision))
        /\ Answered(signal, Reply(about, PlanMarkers(signal),
                                  IF signal.plan = None THEN None ELSE signal.decision))
        /\ Answered(signal, Reply(about, NoMarks, signal.decision))
        /\ Answered(signal, Reply(about, NoMarks, None))
  BY <1>2
<1> QED
  BY <1>3 DEF Safety, Direct, Summary, Risk, Help, WhyWait

LEMMA PartsAre ==
    ASSUME NEW signal, SignalOK(signal), NEW reading
    PROVE  Answered(signal, Stop(signal, reading)) /\ Answered(signal, Targets(signal))
<1> DEFINE Alone(level) == [NoMarks EXCEPT !.stop = level]
           Both == [PlanMarkers(signal) EXCEPT !.entry = None, !.stop = None]
<1>1. ASSUME NEW level
      PROVE  None \in {Alone(level)[line] : line \in DOMAIN Alone(level)} /\ Alone(level).tp1 = None
  <2>1. "tp1" \in DOMAIN Alone(level) /\ Alone(level)["tp1"] = None
    BY DEF NoMarks
  <2> QED
    BY <2>1
<1>2. signal.plan # None => None \in {Both[line] : line \in DOMAIN Both}
  <2> SUFFICES ASSUME signal.plan # None PROVE None \in {Both[line] : line \in DOMAIN Both}
    OBVIOUS
  <2>1. "entry" \in DOMAIN Both /\ Both["entry"] = None
    BY DEF PlanMarkers, Marks
  <2> QED
    BY <2>1
<1>3. None \in {NoMarks[line] : line \in DOMAIN NoMarks} /\ NoMarks.tp1 = None
  BY DEF NoMarks
<1>4. signal.plan # None => signal.decision # "WAIT"
  BY DEF SignalOK
<1> HIDE DEF Alone, Both
<1>5. Answered(signal, Stop(signal, reading))
  <2>1. Stop(signal, reading) = IF signal.plan # None
                                THEN Reply("stop", Alone(3 * signal.plan.stop), signal.decision)
                                ELSE Reply("stop", Alone(Rounded(3 * (signal.entry - reading.atr))), None)
    BY DEF Stop, Alone
  <2>2. ASSUME NEW level, NEW decision \in {None, signal.decision}
        PROVE  Answered(signal, Reply("stop", Alone(level), decision))
    BY <1>1 DEF Answered, Reply, Consistent
  <2> QED
    BY <2>1, <2>2
<1>6. Answered(signal, Targets(signal))
  <2>1. CASE signal.plan = None
    BY <1>3, <2>1 DEF Targets, Answered, Reply, Consistent
  <2>2. CASE signal.plan # None
    BY <1>2, <1>4, <2>2 DEF Targets, Answered, Reply, Consistent, Both
  <2> QED
    BY <2>1, <2>2
<1> QED
  BY <1>5, <1>6

\* The trade that is watched for is one, at a price in the channel that is no
\* worse than the last, to the cent; where the price is rounded to nothing there
\* is none.
LEMMA WhereIs ==
    ASSUME Framed, NEW signal, SignalOK(signal), signal.entry = bars[Len(bars)].close,
           NEW reading, reading.atr \in Nat \ {0}
    PROVE  Answered(signal, Where(signal, bars, reading))
<1>1. CASE signal.plan # None
  <2>1. Where(signal, bars, reading) = Reply("where", PlanMarkers(signal), signal.decision)
    BY <1>1 DEF Where
  <2>2. OneSided(PlanMarkers(signal)) /\ signal.decision # "WAIT"
    BY <1>1, PlanMarkersAre DEF SignalOK
  <2> QED
    BY <2>1, <2>2 DEF Answered, Reply, Consistent
<1>2. CASE signal.plan = None
  <2> DEFINE channel == Donchian(bars, Len(bars))
             side == Bias(bars, reading)
             close == signal.entry
             better == IF side = "BUY" THEN Max2(3 * channel.lower, 3 * close - reading.atr)
                                       ELSE Min2(3 * channel.upper, 3 * close + reading.atr)
             watched == Rounded(better)
             plan == BuildPlan(side, watched, 3 * reading.atr)
  <2>1. /\ channel.lower \in Nat \ {0} /\ channel.upper \in Nat \ {0} /\ close \in Nat \ {0}
        /\ channel.lower <= close /\ close <= channel.upper
    BY ChannelIs, ResearchAssumption DEF Most
  <2>2. side \in Side
    BY DEF Bias, Side
  <2>3. Where(signal, bars, reading)
          = Reply("watch", IF plan = None THEN NoMarks ELSE Marks(watched, plan), signal.decision)
    BY <1>2 DEF Where
  <2> HIDE DEF side, close, channel
  <2>4. /\ better \in Int /\ 3 * channel.lower <= better /\ better <= 3 * channel.upper
        /\ IF side = "BUY" THEN better <= 3 * close ELSE better >= 3 * close
    BY <2>1, <2>2 DEF Side, Max2, Min2
  <2> HIDE DEF better
  <2>5. /\ watched \in Int
        /\ AtMostToTheCent(3 * channel.lower, watched) /\ AtMostToTheCent(watched, 3 * channel.upper)
        /\ IF side = "BUY" THEN AtMostToTheCent(watched, 3 * close)
                           ELSE AtMostToTheCent(3 * close, watched)
    <3>1. 3 * channel.lower \in Int /\ 3 * channel.upper \in Int /\ 3 * close \in Int
      BY <2>1
    <3> QED
      BY <2>4, <3>1, RoundedIs, RoundedStays
  <2> HIDE DEF watched
  <2>6. 3 * reading.atr \in Nat \ {0}
    OBVIOUS
  <2>7. CASE watched > 0
    <3>1. /\ plan # None /\ plan \in Plans /\ Straddles(plan, watched)
          /\ plan.stop = IF side = "BUY" THEN watched - 3 * reading.atr ELSE watched + 3 * reading.atr
      BY <2>2, <2>5, <2>6, <2>7, PlanIs
    <3> HIDE DEF plan
    <3>2. OneSided(Marks(watched, plan))
      BY <2>5, <3>1, MarksAreOneSided
    <3>3. Marks(watched, plan).entry = watched /\ Marks(watched, plan).stop = plan.stop
      BY DEF Marks
    <3>4. Marks(watched, plan) # NoMarks
      <4>1. NoMarks.entry = None
        BY DEF NoMarks
      <4> QED
        BY <2>5, <3>3, <4>1, NoneAssumption
    <3>5. plan.stop < watched <=> side = "BUY"
      BY <2>5, <2>6, <3>1
    <3>6. WatchIsBetter(signal, Reply("watch", Marks(watched, plan), signal.decision))
      BY <2>5, <3>3, <3>4, <3>5 DEF WatchIsBetter, Reply, channel, close
    <3>7. Consistent(signal, Reply("watch", Marks(watched, plan), signal.decision))
      BY <3>2 DEF Consistent, Reply
    <3> QED
      BY <2>3, <3>1, <3>6, <3>7 DEF Answered, Reply
  <2>8. CASE ~(watched > 0)
    <3>1. plan = None
      BY <2>5, <2>8 DEF BuildPlan
    <3> HIDE DEF plan
    <3>2. AtMostToTheCent(3 * channel.lower, 0)
      BY <2>1, <2>5, <2>8, AssistantAssumption DEF AtMostToTheCent
    <3>3. WatchIsBetter(signal, Reply("watch", NoMarks, signal.decision))
      BY <3>2 DEF WatchIsBetter, Reply, channel
    <3>4. None \in {NoMarks[line] : line \in DOMAIN NoMarks} /\ NoMarks.tp1 = None
      BY DEF NoMarks
    <3>5. Consistent(signal, Reply("watch", NoMarks, signal.decision))
      BY <3>4 DEF Consistent, Reply
    <3> QED
      BY <2>3, <3>1, <3>3, <3>5 DEF Answered, Reply
  <2> QED
    BY <2>7, <2>8
<1> QED
  BY <1>1, <1>2

\* A trade at a price: either no trade can be built there, or the one that is
\* drawn is a full one on one side.
LEMMA WhatIfIs ==
    ASSUME NEW signal, NEW reading, reading.atr \in Nat \ {0}, NEW price \in Int, NEW words
    PROVE  LET reply == WhatIf(signal, bars, reading, price, words)
               side == CASE "sell" \in words -> "SELL"
                         [] "sell" \notin words /\ "buy" \in words -> "BUY"
                         [] OTHER -> LocationSide(bars, reading, price)
               plan == BuildPlan(side, price, 3 * reading.atr)
           IN  /\ Answered(signal, reply) /\ reply.about # "watch"
               /\ reply.about = "what_if" =>
                    /\ plan # None
                    /\ reply.marks = Marks(price, plan) /\ reply.trade = TradeAt(side, Rounded(price), plan)
<1> DEFINE side == CASE "sell" \in words -> "SELL"
                     [] "sell" \notin words /\ "buy" \in words -> "BUY"
                     [] OTHER -> LocationSide(bars, reading, price)
           plan == BuildPlan(side, price, 3 * reading.atr)
           reply == WhatIf(signal, bars, reading, price, words)
<1>1. reply = IF plan = None THEN Reply("apology", NoMarks, None)
              ELSE [Reply("what_if", Marks(price, plan), signal.decision)
                      EXCEPT !.trade = TradeAt(side, Rounded(price), plan)]
  BY DEF WhatIf
<1> HIDE DEF side
<1>2. 3 * reading.atr \in Nat \ {0}
  OBVIOUS
<1>3. plan # None => plan \in Plans /\ Straddles(plan, price)
  BY <1>2, PlanIs
<1> HIDE DEF plan, reply
<1>4. CASE plan = None
  <2>1. None \in {NoMarks[line] : line \in DOMAIN NoMarks} /\ NoMarks.tp1 = None
    BY DEF NoMarks
  <2>2. reply = [about |-> "apology", marks |-> NoMarks, decision |-> None, trade |-> NoTrade]
    BY <1>1, <1>4 DEF Reply
  <2>3. Answered(signal, reply) /\ reply.about # "watch" /\ reply.about # "what_if"
    BY <2>1, <2>2 DEF Answered, Consistent
  <2> QED
    BY <2>3 DEF plan, side, reply
<1>5. CASE plan # None
  <2>1. reply = [about |-> "what_if", marks |-> Marks(price, plan), decision |-> signal.decision,
                 trade |-> TradeAt(side, Rounded(price), plan)]
    BY <1>1, <1>5 DEF Reply
  <2>2. OneSided(Marks(price, plan))
    BY <1>3, <1>5, MarksAreOneSided
  <2>3. Answered(signal, reply) /\ reply.about # "watch"
    BY <2>1, <2>2 DEF Answered, Consistent
  <2> QED
    BY <1>5, <2>1, <2>3 DEF plan, side, reply
<1> QED
  BY <1>4, <1>5

LEMMA RespondIs ==
    ASSUME Framed, NEW signal, SignalOK(signal), signal.entry = bars[Len(bars)].close,
           NEW reading, reading.atr \in Nat \ {0}, NEW message
    PROVE  Answered(signal, Respond(signal, bars, reading, message, None))
<1> DEFINE words == message.words
<1>1. Answered(signal, WhatIf(signal, bars, reading, 3 * signal.entry, words))
  <2>1. 3 * signal.entry \in Int
    BY DEF SignalOK
  <2> QED
    BY <2>1, WhatIfIs
<1>2. Answered(signal, PatternLookup(bars, message.pattern))
  <2>1. None \in {NoMarks[line] : line \in DOMAIN NoMarks} /\ NoMarks.tp1 = None
    BY DEF NoMarks
  <2>2. ASSUME NEW about, about # "watch"
        PROVE  Answered(signal, Reply(about, NoMarks, None))
    BY <2>1, <2>2 DEF Answered, Reply, Consistent
  <2>3. PICK about \in {"lesson_now", "lesson"} :
          PatternLookup(bars, message.pattern) = Reply(about, NoMarks, None)
    BY DEF PatternLookup
  <2> QED
    BY <2>2, <2>3
<1>3. /\ Answered(signal, Safety(signal)) /\ Answered(signal, WhyWait(signal))
      /\ Answered(signal, Direct(signal)) /\ Answered(signal, Summary(signal))
      /\ Answered(signal, Risk(signal)) /\ Answered(signal, Help)
  BY ExplainedIs
<1>4. Answered(signal, Stop(signal, reading)) /\ Answered(signal, Targets(signal))
  BY PartsAre
<1>5. Answered(signal, Where(signal, bars, reading))
  BY WhereIs
<1>6. Respond(signal, bars, reading, message, None) \in
        {WhatIf(signal, bars, reading, 3 * signal.entry, words), PatternLookup(bars, message.pattern),
         Safety(signal), WhyWait(signal), Stop(signal, reading), Risk(signal), Targets(signal),
         Where(signal, bars, reading), Direct(signal), Help, Summary(signal)}
  BY Zenon DEF Respond
<1> QED
  BY <1>1, <1>2, <1>3, <1>4, <1>5, <1>6

\* The language model changes the words of an answer, not its lines.
LEMMA MessageIs ==
    ASSUME Framed, NEW signal, SignalOK(signal), signal.entry = bars[Len(bars)].close,
           NEW reading, reading.atr \in Nat \ {0}, NEW message
    PROVE  MessageIsGrounded(signal, Chat(signal, bars, reading, message, None, "fails").reply,
                                     Chat(signal, bars, reading, message, None, "answers").reply)
<1> DEFINE reply == Respond(signal, bars, reading, message, None)
<1>1. Answered(signal, reply)
  BY RespondIs
<1>2. Chat(signal, bars, reading, message, None, "fails").reply = RespondWithLLM(reply, "fails")
  BY DEF Chat
<1>3. Chat(signal, bars, reading, message, None, "answers").reply = RespondWithLLM(reply, "answers")
  BY DEF Chat
<1> HIDE DEF reply
<1>4. RespondWithLLM(reply, "fails") = reply
  BY DEF RespondWithLLM
<1>5. RespondWithLLM(reply, "answers") = [reply EXCEPT !.about = "llm", !.trade = NoTrade]
  BY DEF RespondWithLLM
<1>6. RespondWithLLM(reply, "answers").marks = reply.marks
  BY <1>1, <1>5 DEF Answered
<1> QED
  BY <1>1, <1>2, <1>3, <1>4, <1>6 DEF Answered, MessageIsGrounded

\* The entry a reply names is near the tap, and within the trade unless a cent is
\* wider than two stops.
LEMMA NameIsNear ==
    ASSUME NEW tap \in Int, NEW distance \in Nat \ {0}, NEW stop, NEW target, NEW side,
           stop = IF side = "BUY" THEN tap - distance ELSE tap + distance,
           target = IF side = "BUY" THEN tap + 2 * distance ELSE tap - 2 * distance
    PROVE  /\ 2 * Abs(Rounded(tap) - tap) <= Cent
           /\ Cent <= 2 * distance => Rounded(tap) \in (stop..target) \cup (target..stop)
<1> DEFINE named == Rounded(tap)
<1>1. /\ named \in Int /\ Cent \in Nat
      /\ 2 * (named - tap) <= Cent /\ 2 * (tap - named) <= Cent
  BY AssistantAssumption, RoundedIs
<1> HIDE DEF named
<1>2. 2 * Abs(named - tap) <= Cent
  BY <1>1 DEF Abs
<1>3. ASSUME Cent <= 2 * distance
      PROVE  named \in (stop..target) \cup (target..stop)
  <2>1. tap - distance <= named /\ named <= tap + distance
    BY <1>1, <1>3
  <2>2. CASE side = "BUY"
    BY <1>1, <2>1, <2>2
  <2>3. CASE side # "BUY"
    BY <1>1, <2>1, <2>3
  <2> QED
    BY <2>2, <2>3
<1> QED
  BY <1>2, <1>3 DEF named

\* A tap: the trade at its price is compared with the AI's at the same price.
LEMMA TapIs ==
    ASSUME Framed, study.reading.atr \in Nat \ {0}, NEW signal, SignalOK(signal),
           NEW words, NEW tap \in Int
    PROVE  TapIsGrounded(signal, Chat(signal, bars, study.reading, [words |-> words, pattern |-> None],
                                      tap, "unavailable"), words, tap)
<1> DEFINE reading == study.reading
           message == [words |-> words, pattern |-> None]
           answer == Chat(signal, bars, reading, message, tap, "unavailable")
           reply == WhatIf(signal, bars, reading, tap, words)
           side == CASE "sell" \in words -> "SELL"
                     [] "sell" \notin words /\ "buy" \in words -> "BUY"
                     [] OTHER -> LocationSide(bars, reading, tap)
           plan == BuildPlan(side, tap, 3 * reading.atr)
           other == AiDirection(bars, reading)
           own == BuildPlan(other, tap, 3 * reading.atr)
<1>1. tap # None
  BY NoneAssumption
<1>2. answer.reply = reply
  <2>1. message.words = words
    OBVIOUS
  <2>2. Respond(signal, bars, reading, message, tap) = reply
    BY <1>1, <2>1 DEF Respond
  <2> QED
    BY <2>2 DEF Chat, RespondWithLLM
<1>3. answer.ai = IF own = None THEN NoTrade ELSE TradeAt(other, None, own)
  BY <1>1 DEF Chat
<1>4. /\ Answered(signal, reply)
      /\ reply.about = "what_if" =>
           /\ plan # None
           /\ reply.marks = Marks(tap, plan) /\ reply.trade = TradeAt(side, Rounded(tap), plan)
  BY WhatIfIs
<1>5. words \cap {"buy", "sell"} = {} => side = LocationSide(bars, reading, tap)
  OBVIOUS
<1>6. LocationSide(bars, reading, tap) \in Side
      /\ PlaceVerdict(bars, LocationSide(bars, reading, tap), tap) # "bad"
  BY LocationIsFair
<1>7. other \in Side
  BY DEF AiDirection, Side
<1>8. side \in Side
  BY <1>6 DEF Side
<1>9. 3 * reading.atr \in Nat \ {0}
  OBVIOUS
<1> HIDE DEF answer, reply, side, other
<1>10. ASSUME reply.about = "what_if"
       PROVE  TapIsFair(answer, words, tap)
  <2>1. /\ plan # None /\ tap > 0
        /\ plan.stop = IF side = "BUY" THEN tap - 3 * reading.atr ELSE tap + 3 * reading.atr
        /\ plan.target = IF side = "BUY" THEN tap + 2 * (3 * reading.atr) ELSE tap - 2 * (3 * reading.atr)
    BY <1>4, <1>9, <1>10, PlanIs
  <2>2. own # None /\ own.stop = IF other = "BUY" THEN tap - 3 * reading.atr ELSE tap + 3 * reading.atr
    BY <1>7, <1>9, <2>1, PlanIs
  <2>3. Abs(own.stop - tap) = 3 * reading.atr /\ Abs(plan.stop - tap) = 3 * reading.atr
    BY <1>9, <2>1, <2>2 DEF Abs
  <2> HIDE DEF plan, own
  <2>4. answer.ai = [side |-> other, entry |-> None, stop |-> own.stop, tp1 |-> own.target, tp2 |-> own.target2]
    BY <1>3, <2>2 DEF TradeAt
  <2>5. answer.reply.trade = [side |-> side, entry |-> Rounded(tap), stop |-> plan.stop, tp1 |-> plan.target,
                              tp2 |-> plan.target2]
    BY <1>2, <1>4, <1>10 DEF TradeAt
  <2>6. answer.reply.marks = [line \in DOMAIN NoMarks |->
                                IF line = "entry" THEN tap ELSE answer.reply.trade[line]]
    <3>1. answer.reply.marks = [entry |-> tap, stop |-> plan.stop, tp1 |-> plan.target, tp2 |-> plan.target2]
      BY <1>2, <1>4, <1>10 DEF Marks
    <3>2. DOMAIN NoMarks = {"entry", "stop", "tp1", "tp2"}
      BY DEF NoMarks
    <3> QED
      BY <2>5, <3>1, <3>2
  <2>7. words \cap {"buy", "sell"} = {} => PlaceVerdict(bars, side, tap) # "bad"
    BY <1>5, <1>6
  <2>8. /\ 2 * Abs(Rounded(tap) - tap) <= Cent
        /\ Cent <= 2 * Abs(plan.stop - tap) =>
              Rounded(tap) \in (plan.stop..plan.target) \cup (plan.target..plan.stop)
    BY <1>9, <2>1, <2>3, NameIsNear
  <2> QED
    BY <2>3, <2>4, <2>5, <2>6, <2>7, <2>8 DEF TapIsFair
<1>11. Consistent(signal, answer.reply)
  BY <1>2, <1>4 DEF Answered
<1> QED
  BY <1>2, <1>10, <1>11 DEF TapIsGrounded, answer

\* Whatever the assistant is asked, with or without the language model, what it
\* draws on the chart is a trade one could take (AssistantIsGrounded).
THEOREM AssistantIsGroundedHolds == Spec => []AssistantIsGrounded
<1>1. IInv => AssistantIsGrounded
  <2> SUFFICES ASSUME IInv, IsMarket, Len(bars) \in Channel..Talks
               PROVE  Grounded(Analyze(bars, study.reading))
    BY DEF AssistantIsGrounded
  <2> DEFINE signal == Analyze(bars, study.reading)
  <2>1. Framed
    BY StructureAssumption, ResearchAssumption DEF IInv, Framed
  <2>2. study.reading.atr \in Nat \ {0}
    <3>1. study \in MarketStudies
      BY StudyKinds DEF IInv, IsMarket
    <3>2. \A reading \in Readings : reading.atr = 1
      BY DEF Readings
    <3> QED
      BY <3>1, <3>2 DEF MarketStudies
  <2>3. SignalOK(signal) /\ signal.entry = bars[Len(bars)].close
    BY <2>1, <2>2, AnalyzeIs
  <2> HIDE DEF signal
  <2>4. \A message \in Messages :
          MessageIsGrounded(signal, Chat(signal, bars, study.reading, message, None, "fails").reply,
                                    Chat(signal, bars, study.reading, message, None, "answers").reply)
    BY <2>1, <2>2, <2>3, MessageIs
  <2>5. Taps \subseteq Int
    BY ResearchAssumption DEF Taps, Half
  <2>6. \A tap \in Taps, words \in {{}, {"buy"}, {"sell"}} :
          TapIsGrounded(signal, Chat(signal, bars, study.reading, [words |-> words, pattern |-> None],
                                     tap, "unavailable"), words, tap)
    BY <2>1, <2>2, <2>3, <2>5, TapIs
  <2> QED
    BY <2>4, <2>6 DEF Grounded, signal
<1> QED
  BY <1>1, ResearchInvariant, PTL

-----------------------------------------------------------------------------
(* A walk along N items: each state from the one before it. *)

IsWalk(w, N, base, step) ==
    w[0] = base /\ \A n \in 1..N : w[n] = step[n][w[n - 1]]

LEMMA Induction ==
    ASSUME NEW N \in Nat, NEW T, 0 \in T, \A n \in 1..N : n - 1 \in T => n \in T
    PROVE  \A n \in 0..N : n \in T
<1> DEFINE missing == {n \in 0..N : n \notin T}
<1> SUFFICES ASSUME missing # {}
             PROVE  FALSE
  OBVIOUS
<1>1. missing \subseteq Nat
  OBVIOUS
<1>2. PICK m \in missing : \A k \in missing : <<k, m>> \notin OpToRel(<, Nat)
  BY <1>1, WFMin, NatLessThanWellFounded, Zenon
<1>3. m \in 1..N /\ m \notin T /\ m - 1 \in 0..N
  OBVIOUS
<1>4. m - 1 \notin missing
  <2> SUFFICES ASSUME m - 1 \in missing
               PROVE  FALSE
    OBVIOUS
  <2>1. <<m - 1, m>> \in OpToRel(<, Nat)
    BY <1>1, <1>3 DEF OpToRel
  <2> QED
    BY <1>2, <2>1
<1> QED
  BY <1>3, <1>4

LEMMA WalkExists ==
    ASSUME NEW N \in Nat, NEW S, NEW base \in S, NEW step \in [1..N -> [S -> S]]
    PROVE  \E w \in [0..N -> S] : IsWalk(w, N, base, step)
<1> DEFINE Walked(m) == \E w \in [0..m -> S] : IsWalk(w, m, base, step)
           T == {m \in 0..N : Walked(m)}
<1>1. Walked(0)
  <2> DEFINE w == [n \in 0..0 |-> base]
  <2>1. w \in [0..0 -> S] /\ IsWalk(w, 0, base, step)
    BY DEF IsWalk
  <2> QED
    BY <2>1
<1>2. ASSUME NEW m \in 1..N, Walked(m - 1)
      PROVE  Walked(m)
  <2>1. m \in Nat /\ m - 1 \in Nat
    OBVIOUS
  <2>2. PICK v \in [0..(m - 1) -> S] : IsWalk(v, m - 1, base, step)
    BY <1>2
  <2> DEFINE w == [n \in 0..m |-> IF n = m THEN step[m][v[m - 1]] ELSE v[n]]
  <2>3. m - 1 \in 0..(m - 1) /\ v[m - 1] \in S
    BY <2>1
  <2>4. step[m][v[m - 1]] \in S
    BY <2>1, <2>3
  <2>5. w \in [0..m -> S]
    <3>1. \A n \in 0..m : n # m => n \in 0..(m - 1)
      BY <2>1
    <3> QED
      BY <2>4, <3>1
  <2>6. w[0] = base
    BY <2>1, <2>2 DEF IsWalk
  <2>7. ASSUME NEW n \in 1..m
        PROVE  w[n] = step[n][w[n - 1]]
    <3>1. n - 1 \in 0..m /\ n - 1 # m /\ n \in 0..m
      BY <2>1
    <3>2. w[n - 1] = v[n - 1]
      BY <3>1
    <3>3. CASE n = m
      BY <3>1, <3>2, <3>3
    <3>4. CASE n # m
      <4>1. n \in 1..(m - 1)
        BY <2>1, <3>4
      <4> QED
        BY <2>2, <3>1, <3>2, <3>4, <4>1 DEF IsWalk
    <3> QED
      BY <3>3, <3>4
  <2>8. Walked(m)
    BY <2>5, <2>6, <2>7 DEF IsWalk
  <2> QED
    BY <2>8
<1> HIDE DEF Walked
<1>3. 0 \in T /\ (\A n \in 1..N : n - 1 \in T => n \in T)
  BY <1>1, <1>2
<1> HIDE DEF T
<1>4. N \in T
  <2>1. N \in 0..N
    OBVIOUS
  <2> QED
    BY <1>3, <2>1, Induction
<1> QED
  BY <1>4 DEF T, Walked

-----------------------------------------------------------------------------
(* The loop of the resolver *)

Printed ==
    bars \in Seq(TradeBar) /\ Len(bars) \in Nat /\ \A k \in 1..Len(bars) : bars[k].ts = k

\* A trade with all its levels.
Leveled(p) ==
    p.direction \in Side /\ p.created = 1 /\ p.entry \in Int /\ p.stop \in Int /\ p.target \in Int

Looped == [held : Nat, verdict : Outcome \cup {None}]
Started == [held |-> 0, verdict |-> None]

LEMMA BarsAre ==
    ASSUME Printed, NEW k \in 1..Len(bars)
    PROVE  /\ bars[k] \in TradeBar /\ bars[k].ts = k
           /\ bars[k].low \in Int /\ bars[k].high \in Int /\ bars[k].close \in Int
           /\ bars[k].low <= bars[k].close /\ bars[k].close <= bars[k].high
<1>1. bars[k] \in TradeBar /\ bars[k].ts = k
  BY DEF Printed
<1> QED
  BY <1>1, ResearchAssumption DEF TradeBar, IsCandle, Price

LEMMA StepType ==
    ASSUME Printed, NEW p, Leveled(p), NEW limit, NEW last \in Looped, NEW k \in 1..Len(bars)
    PROVE  LoopStep(p, limit, last, bars[k]) \in Looped
<1> DEFINE bar == bars[k]
           held == last.held + 1
           stopped == [status |-> "STOP_HIT", price |-> p.stop, gain |-> -1, risk |-> 1, holding |-> held]
           reached == [status |-> "TARGET_HIT", price |-> p.target, gain |-> Abs(p.target - p.entry),
                       risk |-> Abs(p.entry - p.stop), holding |-> held]
           expired == [status |-> "EXPIRED", price |-> bar.close,
                       gain |-> IF p.direction = "BUY" THEN bar.close - p.entry ELSE p.entry - bar.close,
                       risk |-> Abs(p.entry - p.stop), holding |-> held]
<1>1. bar.close \in Int
  BY BarsAre
<1>2. held \in Nat
  BY DEF Looped
<1> HIDE DEF bar, held
<1>3. stopped \in Outcome /\ reached \in Outcome /\ expired \in Outcome
  <2>1. /\ p.stop \in Int /\ p.target \in Int
        /\ Abs(p.target - p.entry) \in Int /\ Abs(p.entry - p.stop) \in Int
        /\ bar.close - p.entry \in Int /\ p.entry - bar.close \in Int
    BY <1>1 DEF Leveled, Abs
  <2>2. held \in Int
    BY <1>2
  <2> QED
    BY <1>1, <2>1, <2>2 DEF Outcome
<1> HIDE DEF stopped, reached, expired
<1>4. LoopStep(p, limit, last, bars[k]) =
        IF last.verdict # None \/ bar.ts <= p.created THEN last
        ELSE [held |-> held, verdict |-> IF HitStop(p, bar) THEN stopped ELSE IF HitTarget(p, bar) THEN reached
                                         ELSE IF held >= limit THEN expired ELSE None]
  BY DEF LoopStep, bar, held, stopped, reached, expired
<1> QED
  BY <1>2, <1>3, <1>4 DEF Looped

LEMMA LoopIs ==
    ASSUME Printed, NEW p, Leveled(p), NEW limit
    PROVE  LET after == LoopAfter(p, limit)
           IN  /\ after[0] = Started
               /\ \A n \in 1..Len(bars) : after[n] = LoopStep(p, limit, after[n - 1], bars[n])
               /\ \A n \in 0..Len(bars) : after[n] \in Looped
<1> DEFINE N == Len(bars)
           step == [n \in 1..N |-> [last \in Looped |-> LoopStep(p, limit, last, bars[n])]]
           Loops(w) == w = [n \in 0..N |-> IF n = 0 THEN [held |-> 0, verdict |-> None]
                                           ELSE LoopStep(p, limit, w[n - 1], bars[n])]
<1>1. N \in Nat
  BY DEF Printed
<1>2. Started \in Looped
  BY DEF Started, Looped
<1>3. step \in [1..N -> [Looped -> Looped]]
  BY StepType
<1> HIDE DEF N, step
<1>4. PICK w \in [0..N -> Looped] : IsWalk(w, N, Started, step)
  BY <1>1, <1>2, <1>3, WalkExists
<1>5. \A n \in 1..N : w[n] = LoopStep(p, limit, w[n - 1], bars[n])
  <2> SUFFICES ASSUME NEW n \in 1..N
               PROVE  w[n] = LoopStep(p, limit, w[n - 1], bars[n])
    OBVIOUS
  <2>1. n - 1 \in 0..N
    BY <1>1
  <2>2. w[n - 1] \in Looped /\ w[n] = step[n][w[n - 1]]
    BY <1>4, <2>1 DEF IsWalk
  <2> QED
    BY <2>2 DEF step
<1>6. Loops(w)
  <2>1. w[0] = [held |-> 0, verdict |-> None]
    BY <1>4 DEF IsWalk, Started
  <2> QED
    BY <1>1, <1>4, <1>5, <2>1
<1>7. LoopAfter(p, limit) = CHOOSE v : Loops(v)
  BY DEF LoopAfter, N
<1>8. Loops(LoopAfter(p, limit))
  BY <1>6, <1>7
<1> DEFINE after == LoopAfter(p, limit)
<1>9. /\ after[0] = Started
      /\ \A n \in 1..N : after[n] = LoopStep(p, limit, after[n - 1], bars[n])
  <2> HIDE DEF after
  <2> QED
    BY <1>1, <1>8 DEF Started, after
<1> HIDE DEF after
<1>10. \A n \in 0..N : after[n] \in Looped
  <2> DEFINE T == {n \in 0..N : after[n] \in Looped}
  <2>1. 0 \in T
    BY <1>1, <1>2, <1>9
  <2>2. ASSUME NEW n \in 1..N, n - 1 \in T
        PROVE  n \in T
    <3>1. after[n] = LoopStep(p, limit, after[n - 1], bars[n]) /\ after[n - 1] \in Looped
      BY <1>9, <2>2
    <3>2. after[n] \in Looped
      BY <3>1, StepType DEF N
    <3> QED
      BY <1>1, <3>2
  <2> HIDE DEF T
  <2>3. \A n \in 0..N : n \in T
    BY <1>1, <2>1, <2>2, Induction
  <2> QED
    BY <2>3 DEF T
<1> QED
  BY <1>9, <1>10 DEF after, N

LEMMA HeldIs ==
    ASSUME Printed, NEW p, p.created = 1, NEW i \in 1..Len(bars)
    PROVE  /\ After(p, bars[i]) <=> i > 1
           /\ Held(p, bars, i) = i - 1
<1>1. \A j \in 1..i : After(p, bars[j]) <=> j > 1
  BY DEF Printed, After
<1>2. i \in Nat /\ i >= 1
  BY DEF Printed
<1>3. {j \in 1..i : After(p, bars[j])} = 2..i
  BY <1>1, <1>2
<1>4. Cardinality(2..i) = IF 2 > i THEN 0 ELSE i - 2 + 1
  <2>1. i \in Int /\ 2 \in Int
    BY <1>2
  <2> QED
    BY <2>1, FS_Interval, Zenon
<1>5. Cardinality(2..i) = i - 1
  BY <1>2, <1>4
<1>6. Held(p, bars, i) = Cardinality(2..i)
  BY <1>3 DEF Held
<1> QED
  BY <1>1, <1>2, <1>5, <1>6

LEMMA VerdictIs ==
    ASSUME Printed, NEW p, Leveled(p), NEW i \in 1..Len(bars), NEW held \in Nat
    PROVE  VerdictAt(p, bars[i], held) \in Outcome
<1>1. bars[i].close \in Int
  BY BarsAre
<1>2. /\ p.stop \in Int /\ p.target \in Int /\ held \in Int
      /\ Abs(p.target - p.entry) \in Int /\ Abs(p.entry - p.stop) \in Int
      /\ bars[i].close - p.entry \in Int /\ p.entry - bars[i].close \in Int
  <2> DEFINE close == bars[i].close
  <2>1. close \in Int
    BY <1>1
  <2> HIDE DEF close
  <2>2. close - p.entry \in Int /\ p.entry - close \in Int
    BY <2>1 DEF Leveled
  <2> QED
    BY <2>2 DEF Leveled, Abs, close
<1>3. CASE HitStop(p, bars[i])
  BY <1>2, <1>3 DEF VerdictAt, Outcome
<1>4. CASE ~HitStop(p, bars[i]) /\ HitTarget(p, bars[i])
  BY <1>2, <1>4 DEF VerdictAt, Outcome
<1>5. CASE ~HitStop(p, bars[i]) /\ ~HitTarget(p, bars[i])
  BY <1>1, <1>2, <1>5 DEF VerdictAt, Outcome
<1> QED
  BY <1>3, <1>4, <1>5

\* Where some bar decides, one is the first to.
LEMMA FirstDecisionExists ==
    ASSUME NEW p, NEW limit, Len(bars) \in Nat,
           NEW j \in 1..Len(bars), Decides(p, bars, limit, j)
    PROVE  \E i \in 1..j : FirstDecision(p, bars, limit, i)
<1> DEFINE S == {k \in 1..j : Decides(p, bars, limit, k)}
<1>1. S \in SUBSET Nat /\ j \in S
  OBVIOUS
<1>2. Least(S) \in S /\ \A k \in S : Least(S) <= k
  BY <1>1, LeastIs
<1> DEFINE i == Least(S)
<1> HIDE DEF i
<1>3. i \in S /\ \A k \in S : i <= k
  BY <1>2 DEF i
<1>4. \A k \in 1..(i - 1) : ~Decides(p, bars, limit, k)
  BY <1>3
<1> QED
  BY <1>3, <1>4 DEF FirstDecision

LEMMA LoopFinds ==
    ASSUME Printed, NEW p, Leveled(p), NEW limit \in Nat, NEW n \in 0..Len(bars)
    PROVE  LET now == LoopAfter(p, limit)[n]
           IN  /\ (\A j \in 1..n : ~Decides(p, bars, limit, j)) =>
                    now.verdict = None /\ now.held = IF n = 0 THEN 0 ELSE n - 1
               /\ \A i \in 1..n : FirstDecision(p, bars, limit, i) =>
                    now.verdict = VerdictAt(p, bars[i], i - 1)
<1> DEFINE after == LoopAfter(p, limit)
           N == Len(bars)
           Quiet(m) == \A j \in 1..m : ~Decides(p, bars, limit, j)
           Runs(m) == Quiet(m) => after[m].verdict = None /\ after[m].held = IF m = 0 THEN 0 ELSE m - 1
           Ends(m) == \A i \in 1..m : FirstDecision(p, bars, limit, i) =>
                         after[m].verdict = VerdictAt(p, bars[i], i - 1)
           T == {m \in 0..N : Runs(m) /\ Ends(m)}
<1>1. N \in Nat
  BY DEF Printed
<1>2. /\ after[0] = Started
      /\ \A m \in 1..N : after[m] = LoopStep(p, limit, after[m - 1], bars[m])
  BY LoopIs
<1> HIDE DEF after
<1>3. 0 \in T
  BY <1>1, <1>2 DEF Started
<1>4. ASSUME NEW m \in 1..N, m - 1 \in T
      PROVE  m \in T
  <2> DEFINE last == after[m - 1]
             bar == bars[m]
             held == last.held + 1
  <2>1. Runs(m - 1) /\ Ends(m - 1)
    BY <1>4
  <2>2. m \in Nat /\ m >= 1 /\ m - 1 \in Nat
    BY <1>1
  <2>3. after[m] = LoopStep(p, limit, last, bar)
    BY <1>2
  <2>4. /\ After(p, bar) <=> m > 1
        /\ Held(p, bars, m) = m - 1
        /\ bar.ts = m /\ p.created = 1
    BY HeldIs, BarsAre DEF Leveled
  <2>5. Decides(p, bars, limit, m) <=>
          m > 1 /\ (HitStop(p, bar) \/ HitTarget(p, bar) \/ m - 1 >= limit)
    BY <2>4 DEF Decides
  <2> HIDE DEF bar, last
  <2>6. ASSUME Quiet(m - 1), m > 1
        PROVE  /\ held = m - 1
               /\ after[m].held = m - 1
               /\ Decides(p, bars, limit, m) => after[m].verdict = VerdictAt(p, bar, m - 1)
               /\ ~Decides(p, bars, limit, m) => after[m].verdict = None
    <3>1. last.verdict = None /\ last.held = m - 2 /\ held = m - 1
      BY <2>1, <2>2, <2>6 DEF last
    <3>2. ~(bar.ts <= p.created)
      BY <2>2, <2>4, <2>6
    <3> HIDE DEF held
    <3>3. CASE HitStop(p, bar)
      BY <2>3, <2>5, <2>6, <3>1, <3>2, <3>3 DEF LoopStep, VerdictAt, held
    <3>4. CASE ~HitStop(p, bar) /\ HitTarget(p, bar)
      BY <2>3, <2>5, <2>6, <3>1, <3>2, <3>4 DEF LoopStep, VerdictAt, held
    <3>5. CASE ~HitStop(p, bar) /\ ~HitTarget(p, bar)
      <4>1. after[m] = [held |-> m - 1,
                        verdict |-> IF m - 1 >= limit THEN VerdictAt(p, bar, m - 1) ELSE None]
        BY <2>3, <3>1, <3>2, <3>5 DEF LoopStep, VerdictAt, held
      <4> QED
        BY <2>5, <2>6, <3>1, <3>5, <4>1
    <3> QED
      BY <3>3, <3>4, <3>5
  <2>7. ASSUME m = 1
        PROVE  after[m] = Started /\ ~Decides(p, bars, limit, m)
    BY <1>2, <2>3, <2>4, <2>5, <2>7 DEF LoopStep, last
  <2>8. Runs(m)
    <3>1. Quiet(m) => Quiet(m - 1) /\ ~Decides(p, bars, limit, m)
      BY <2>2
    <3> QED
      BY <2>2, <2>6, <2>7, <3>1 DEF Started
  <2>9. Ends(m)
    <3> SUFFICES ASSUME NEW i \in 1..m, FirstDecision(p, bars, limit, i)
                 PROVE  after[m].verdict = VerdictAt(p, bars[i], i - 1)
      OBVIOUS
    <3>1. CASE i = m
      <4>1. Quiet(m - 1) /\ Decides(p, bars, limit, m)
        BY <3>1 DEF FirstDecision
      <4> QED
        BY <2>2, <2>6, <2>7, <3>1, <4>1 DEF bar
    <3>2. CASE i # m
      <4>1. i \in 1..(m - 1) /\ i \in 1..N /\ i - 1 \in Nat
        BY <1>1, <2>2, <3>2
      <4>2. last.verdict = VerdictAt(p, bars[i], i - 1)
        BY <2>1, <4>1 DEF last
      <4>3. last.verdict # None
        BY <4>1, <4>2, VerdictIs, NoneAssumption
      <4> QED
        BY <2>3, <4>2, <4>3 DEF LoopStep
    <3> QED
      BY <3>1, <3>2
  <2> QED
    BY <1>1, <2>8, <2>9
<1> HIDE DEF T
<1>5. n \in T
  BY <1>1, <1>3, <1>4, Induction DEF N
<1> QED
  BY <1>5 DEF T, after

\* The declarative resolver answers as the loop of resolve_prediction does.
LEMMA AnswerIsLoop ==
    ASSUME Printed, NEW p, Leveled(p), NEW limit \in Nat
    PROVE  ResolvePrediction(p, bars, limit) = LoopAfter(p, limit)[Len(bars)].verdict
<1>1. Resolvable(p) /\ Len(bars) \in 0..Len(bars) /\ Len(bars) \in Nat
  BY NoneAssumption DEF Leveled, Resolvable, Tradeable, Printed
<1>2. CASE \E i \in 1..Len(bars) : FirstDecision(p, bars, limit, i)
  <2> DEFINE i == CHOOSE i \in 1..Len(bars) : FirstDecision(p, bars, limit, i)
  <2>1. i \in 1..Len(bars) /\ FirstDecision(p, bars, limit, i)
    BY <1>2
  <2>2. ResolvePrediction(p, bars, limit) = VerdictAt(p, bars[i], Held(p, bars, i))
    BY <1>1, <1>2 DEF ResolvePrediction
  <2> HIDE DEF i
  <2>3. Held(p, bars, i) = i - 1
    BY <2>1, HeldIs DEF Leveled
  <2> QED
    BY <1>1, <2>1, <2>2, <2>3, LoopFinds
<1>3. CASE ~\E i \in 1..Len(bars) : FirstDecision(p, bars, limit, i)
  <2>1. \A j \in 1..Len(bars) : ~Decides(p, bars, limit, j)
    BY <1>1, <1>3, FirstDecisionExists
  <2>2. ResolvePrediction(p, bars, limit) = None
    BY <1>3 DEF ResolvePrediction
  <2> QED
    BY <1>1, <2>1, <2>2, LoopFinds
<1> QED
  BY <1>2, <1>3

-----------------------------------------------------------------------------
(* What the resolver answers, bar by bar *)

Hit(p, i) == HitStop(p, bars[i]) \/ HitTarget(p, bars[i])

\* The trade is open after the bars up to n.
Open(p, limit, n) == \A j \in 2..n : ~Hit(p, j) /\ j - 1 < limit

LEMMA DecidesIs ==
    ASSUME Printed, NEW p, p.created = 1, NEW limit \in Nat, NEW i \in 1..Len(bars)
    PROVE  Decides(p, bars, limit, i) <=> i > 1 /\ (Hit(p, i) \/ i - 1 >= limit)
BY HeldIs DEF Decides, Hit

\* Either the trade is open after the last bar, or it ended at one after which
\* it had been open till then.
LEMMA AnswerIs ==
    ASSUME Printed, NEW p, Leveled(p), NEW limit \in Nat \ {0}
    PROVE  LET answer == ResolvePrediction(p, bars, limit)
               N == Len(bars)
           IN  \/ answer = None /\ Open(p, limit, N)
               \/ \E i \in 2..N : /\ answer = VerdictAt(p, bars[i], i - 1) /\ answer # None
                                  /\ Open(p, limit, i - 1)
                                  /\ Hit(p, i) \/ i = limit + 1
                                  /\ i <= limit + 1
<1> DEFINE answer == ResolvePrediction(p, bars, limit)
           N == Len(bars)
<1>1. N \in Nat /\ Resolvable(p)
  BY NoneAssumption DEF Leveled, Resolvable, Tradeable, Printed
<1>2. \A i \in 1..N : Decides(p, bars, limit, i) <=> i > 1 /\ (Hit(p, i) \/ i - 1 >= limit)
  BY DecidesIs DEF Leveled
<1>3. CASE ~\E i \in 1..N : FirstDecision(p, bars, limit, i)
  <2>1. answer = None
    BY <1>3 DEF ResolvePrediction
  <2>2. \A j \in 1..N : ~Decides(p, bars, limit, j)
    BY <1>1, <1>3, FirstDecisionExists
  <2>3. Open(p, limit, N)
    BY <1>1, <1>2, <2>2 DEF Open
  <2> QED
    BY <2>1, <2>3
<1>4. CASE \E i \in 1..N : FirstDecision(p, bars, limit, i)
  <2> DEFINE i == CHOOSE i \in 1..N : FirstDecision(p, bars, limit, i)
  <2>1. i \in 1..N /\ FirstDecision(p, bars, limit, i)
    BY <1>4
  <2>2. answer = VerdictAt(p, bars[i], Held(p, bars, i))
    BY <1>1, <1>4 DEF ResolvePrediction
  <2> HIDE DEF i
  <2>3. Held(p, bars, i) = i - 1 /\ i \in Nat /\ i - 1 \in Nat
    BY <2>1, HeldIs DEF Leveled
  <2>4. Decides(p, bars, limit, i) /\ \A j \in 1..(i - 1) : ~Decides(p, bars, limit, j)
    BY <2>1 DEF FirstDecision
  <2>5. i > 1 /\ (Hit(p, i) \/ i - 1 >= limit)
    BY <1>2, <2>1, <2>4
  <2>6. \A j \in 2..(i - 1) : ~Hit(p, j) /\ ~(j - 1 >= limit)
    BY <1>1, <1>2, <2>1, <2>3, <2>4
  <2>7. Open(p, limit, i - 1)
    BY <2>6 DEF Open
  <2>8. i <= limit + 1
    <3> SUFFICES ASSUME i > limit + 1
                 PROVE  FALSE
      BY <2>3
    <3>1. i - 1 \in 2..(i - 1) /\ i - 1 - 1 >= limit
      BY <2>3
    <3> QED
      BY <2>6, <3>1
  <2>9. answer # None
    BY <2>1, <2>2, <2>3, VerdictIs, NoneAssumption
  <2>10. i \in 2..N /\ (Hit(p, i) \/ i = limit + 1)
    BY <1>1, <2>1, <2>3, <2>5, <2>8
  <2> QED
    BY <2>2, <2>3, <2>7, <2>8, <2>9, <2>10
<1> QED
  BY <1>3, <1>4

\* The verdict's parts.
LEMMA VerdictParts ==
    ASSUME Printed, NEW p, Leveled(p), NEW i \in 2..Len(bars)
    PROVE  LET verdict == VerdictAt(p, bars[i], i - 1)
           IN  /\ verdict.holding = i - 1
               /\ verdict.status = IF HitStop(p, bars[i]) THEN "STOP_HIT"
                                   ELSE IF HitTarget(p, bars[i]) THEN "TARGET_HIT" ELSE "EXPIRED"
               /\ verdict.price = IF HitStop(p, bars[i]) THEN p.stop
                                  ELSE IF HitTarget(p, bars[i]) THEN p.target ELSE bars[i].close
               /\ HitStop(p, bars[i]) => verdict.gain = -1 /\ verdict.risk = 1
               /\ ~HitStop(p, bars[i]) /\ HitTarget(p, bars[i]) =>
                    verdict.gain = Abs(p.target - p.entry) /\ verdict.risk = Abs(p.entry - p.stop)
<1>1. CASE HitStop(p, bars[i])
  BY <1>1 DEF VerdictAt
<1>2. CASE ~HitStop(p, bars[i]) /\ HitTarget(p, bars[i])
  BY <1>2 DEF VerdictAt
<1>3. CASE ~HitStop(p, bars[i]) /\ ~HitTarget(p, bars[i])
  BY <1>3 DEF VerdictAt
<1> QED
  BY <1>1, <1>2, <1>3

-----------------------------------------------------------------------------
(* The tracker scores as the resolver does *)

LEMMA TouchesIs ==
    ASSUME Printed, NEW p, Leveled(p), NEW candles, NEW n \in 0..Len(bars), Len(candles) = n,
           \A k \in 1..n : candles[k] = bars[k], NEW i \in 1..n
    PROVE  Touches(AsCall(p), candles, i) <=> i > 1 /\ Hit(p, i)
<1>1. candles[i] = bars[i] /\ candles[i].ts = i
  BY DEF Printed
<1>2. /\ AsCall(p).clicked = 1 /\ AsCall(p).side = p.direction
      /\ AsCall(p).stop = p.stop /\ AsCall(p).tp1 = p.target
  BY DEF AsCall, Leveled
<1>3. StopTouched(AsCall(p), bars[i]) <=> HitStop(p, bars[i])
  BY <1>2 DEF StopTouched, HitStop
<1>4. TargetTouched(AsCall(p), bars[i]) <=> HitTarget(p, bars[i])
  BY <1>2 DEF TargetTouched, HitTarget
<1> QED
  BY <1>1, <1>2, <1>3, <1>4 DEF Touches, Hit

\* Where no level was touched the call stays open.
LEMMA StaysOpen ==
    ASSUME Printed, NEW p, Leveled(p), NEW candles, NEW n \in 0..Len(bars), Len(candles) = n,
           \A k \in 1..n : candles[k] = bars[k], \A j \in 2..n : ~Hit(p, j)
    PROVE  ResolveCall(AsCall(p), candles) = OpenScore
<1>1. \A i \in 1..n : ~Touches(AsCall(p), candles, i)
  <2> SUFFICES ASSUME NEW i \in 1..n, i > 1
               PROVE  ~Hit(p, i)
    BY TouchesIs
  <2> QED
    OBVIOUS
<1>2. ~\E i \in 1..n : FirstTouch(AsCall(p), candles, i)
  BY <1>1 DEF FirstTouch
<1> QED
  BY <1>2 DEF ResolveCall

LEMMA TrackerScores ==
    ASSUME Printed, NEW p, Leveled(p), NEW i \in 2..Len(bars), Hit(p, i),
           \A j \in 2..(i - 1) : ~Hit(p, j)
    PROVE  ResolveCall(AsCall(p), bars) = ScoreAt(AsCall(p), bars[i])
<1> DEFINE N == Len(bars)
<1>1. N \in Nat /\ N \in 0..N
  BY DEF Printed
<1>2. \A j \in 1..N : Touches(AsCall(p), bars, j) <=> j > 1 /\ Hit(p, j)
  BY <1>1, TouchesIs
<1>3. FirstTouch(AsCall(p), bars, i)
  BY <1>1, <1>2 DEF FirstTouch
<1>4. \A j \in 1..N : FirstTouch(AsCall(p), bars, j) => j = i
  <2> SUFFICES ASSUME NEW j \in 1..N, FirstTouch(AsCall(p), bars, j)
               PROVE  j = i
    OBVIOUS
  <2>1. Touches(AsCall(p), bars, j) /\ Touches(AsCall(p), bars, i)
    BY <1>3 DEF FirstTouch
  <2>2. ~(i \in 1..(j - 1)) /\ ~(j \in 1..(i - 1))
    BY <1>3, <2>1 DEF FirstTouch
  <2> QED
    BY <1>1, <2>2
<1>5. i \in 1..N
  BY <1>1
<1>6. (CHOOSE j \in 1..N : FirstTouch(AsCall(p), bars, j)) = i
  BY <1>3, <1>4, <1>5
<1> QED
  BY <1>3, <1>5, <1>6 DEF ResolveCall

LEMMA TrackerAgreesHolds ==
    ASSUME Printed, bars # <<>>, NEW p, Leveled(p), study.maxHold \in Nat \ {0},
           Answer = ResolvePrediction(p, bars, study.maxHold)
    PROVE  TrackerAgrees(p)
<1> DEFINE N == Len(bars)
           limit == study.maxHold
           call == AsCall(p)
           held == Held(p, bars, N)
           score == ResolveCall(call, bars)
           cut == SubSeq(bars, 1, N - (held - limit))
<1>1. N \in Nat \ {0} /\ bars \in Seq(TradeBar)
  BY DEF Printed
<1>2. held = N - 1
  BY <1>1, HeldIs DEF Leveled
<1>3. CASE Answer = None /\ Open(p, limit, N)
  <2>1. \A j \in 2..N : ~Hit(p, j)
    BY <1>3 DEF Open
  <2>2. score = OpenScore
    BY <1>1, <2>1, StaysOpen
  <2> QED
    BY <1>3, <2>2 DEF TrackerAgrees
<1>4. ASSUME NEW i \in 2..N, Answer = VerdictAt(p, bars[i], i - 1), Answer # None,
             Open(p, limit, i - 1), Hit(p, i) \/ i = limit + 1
      PROVE  TrackerAgrees(p)
  <2>1. \A j \in 2..(i - 1) : ~Hit(p, j)
    BY <1>4 DEF Open
  <2>2. CASE ~Hit(p, i)
    <3>1. i = limit + 1 /\ Answer.status = "EXPIRED" /\ Answer.holding = limit
      BY <1>4, <2>2, VerdictParts DEF Hit
    <3>2. N - (held - limit) = i /\ i \in 0..N
      BY <1>1, <1>2, <3>1
    <3>3. Len(cut) = i /\ \A k \in 1..i : cut[k] = bars[k]
      BY <1>1, <3>2
    <3> HIDE DEF cut
    <3>4. \A j \in 2..i : ~Hit(p, j)
      BY <1>1, <2>1, <2>2
    <3>5. ResolveCall(call, cut) = OpenScore
      BY <3>2, <3>3, <3>4, StaysOpen
    <3>6. Answer.holding = study.maxHold
      BY <3>1
    <3> QED
      BY <1>4, <3>1, <3>5, <3>6, Zenon DEF TrackerAgrees, cut
  <2>3. CASE Hit(p, i)
    <3>1. score = ScoreAt(call, bars[i])
      BY <2>1, <2>3, TrackerScores
    <3>2. /\ call.side = p.direction /\ call.stop = p.stop /\ call.tp1 = p.target /\ call.entry = p.entry
      BY DEF AsCall
    <3>3. /\ StopTouched(call, bars[i]) <=> HitStop(p, bars[i])
      BY <3>2 DEF StopTouched, HitStop
    <3>4. bars[i].ts = i /\ p.created + (i - 1) = i
      BY <1>1 DEF Printed, Leveled
    <3> HIDE DEF call, score
    <3>5. CASE HitStop(p, bars[i])
      <4>1. score = [status |-> "LOSS", time |-> i, price |-> p.stop, gain |-> -1, risk |-> 1]
        BY <3>1, <3>2, <3>3, <3>4, <3>5 DEF ScoreAt, Loss
      <4>2. /\ Answer.status = "STOP_HIT" /\ Answer.price = p.stop /\ Answer.gain = -1
            /\ Answer.risk = 1 /\ Answer.holding = i - 1
        BY <1>4, <3>5, VerdictParts
      <4>3. /\ score.status = "LOSS" /\ score.price = Answer.price /\ score.gain = Answer.gain
            /\ score.risk = Answer.risk /\ score.time = p.created + Answer.holding
        BY <3>4, <4>1, <4>2
      <4> QED
        BY <1>4, <4>2, <4>3 DEF TrackerAgrees, score, call
    <3>6. CASE ~HitStop(p, bars[i])
      <4>1. HitTarget(p, bars[i])
        BY <2>3, <3>6 DEF Hit
      <4>2. score = [status |-> "WIN", time |-> i, price |-> p.target,
                     gain |-> Abs(p.target - p.entry), risk |-> Abs(p.entry - p.stop)]
        BY <3>1, <3>2, <3>3, <3>4, <3>6 DEF ScoreAt, Win
      <4>3. /\ Answer.status = "TARGET_HIT" /\ Answer.price = p.target
            /\ Answer.gain = Abs(p.target - p.entry) /\ Answer.risk = Abs(p.entry - p.stop)
            /\ Answer.holding = i - 1
        BY <1>4, <3>6, <4>1, VerdictParts
      <4>4. /\ score.status = "WIN" /\ score.price = Answer.price /\ score.gain = Answer.gain
            /\ score.risk = Answer.risk /\ score.time = p.created + Answer.holding
        BY <3>4, <4>2, <4>3
      <4> QED
        BY <1>4, <4>3, <4>4 DEF TrackerAgrees, score, call
    <3> QED
      BY <3>5, <3>6
  <2> QED
    BY <2>2, <2>3
<1> QED
  BY <1>3, <1>4, AnswerIs

-----------------------------------------------------------------------------
(* The backtest and the labels *)

LEMMA FirstBarIs ==
    ASSUME NEW last \in Nat, NEW hits, hits = {j \in 2..last : Hit(study.trade, j)}
    PROVE  /\ (\A j \in 2..last : ~Hit(study.trade, j)) => FirstBar(hits) = None
           /\ \A i \in 2..last : Hit(study.trade, i) /\ (\A j \in 2..(i - 1) : ~Hit(study.trade, j)) =>
                FirstBar(hits) = i /\ i # None
<1>1. (\A j \in 2..last : ~Hit(study.trade, j)) => FirstBar(hits) = None
  BY DEF FirstBar
<1>2. ASSUME NEW i \in 2..last, Hit(study.trade, i), \A j \in 2..(i - 1) : ~Hit(study.trade, j)
      PROVE  FirstBar(hits) = i /\ i # None
  <2>1. i \in hits /\ i \in Int
    BY <1>2
  <2>2. \A j \in hits : i <= j
    BY <1>2
  <2>3. \A k \in hits : (\A j \in hits : k <= j) => k = i
    BY <2>1, <2>2
  <2>4. Min(hits) = i
    BY <2>1, <2>2, <2>3 DEF Min
  <2> QED
    BY <2>1, <2>4, NoneAssumption DEF FirstBar
<1> QED
  BY <1>1, <1>2

LEMMA BacktestAgreesHolds ==
    ASSUME Printed, bars # <<>>, Leveled(study.trade), study.maxHold \in Nat \ {0}
    PROVE  BacktestAgrees(study.trade)
<1> DEFINE p == study.trade
           limit == study.maxHold
           N == Len(bars)
           last == LastHeld(bars, 1, limit)
           Stops(j) == IF p.direction = "BUY" THEN bars[j].low <= p.stop ELSE bars[j].high >= p.stop
           Reaches(j) == IF p.direction = "BUY" THEN bars[j].high >= p.target ELSE bars[j].low <= p.target
           hits == {j \in (1 + 1)..last : Stops(j) \/ Reaches(j)}
           hit == FirstBar(hits)
           result == ResolveTrade(bars, 1, p.direction, p.stop, p.target, limit)
<1>1. N \in Nat \ {0} /\ limit \in Nat \ {0}
  BY DEF Printed
<1>2. last \in Nat /\ last <= N /\ last <= limit + 1 /\ (last = N \/ last = limit + 1)
  BY <1>1 DEF LastHeld, Min2
<1>3. \A j : Stops(j) <=> HitStop(p, bars[j])
  BY DEF HitStop
<1>4. \A j : Reaches(j) <=> HitTarget(p, bars[j])
  BY DEF HitTarget
<1>5. result = IF hit = None THEN [exit |-> last, price |-> bars[last].close, outcome |-> "timeout"]
               ELSE IF Stops(hit) THEN [exit |-> hit, price |-> p.stop, outcome |-> "loss"]
               ELSE [exit |-> hit, price |-> p.target, outcome |-> "win"]
  BY DEF ResolveTrade
<1> HIDE DEF last, Stops, Reaches
<1>6. hits = {j \in 2..last : Hit(p, j)}
  BY <1>3, <1>4 DEF Hit
<1> HIDE DEF hits, result
<1>7. /\ (\A j \in 2..last : ~Hit(p, j)) => hit = None
      /\ \A i \in 2..last : Hit(p, i) /\ (\A j \in 2..(i - 1) : ~Hit(p, j)) => hit = i /\ i # None
  BY <1>2, <1>6, FirstBarIs
<1> HIDE DEF hit
<1>8. CASE Answer = None /\ Open(p, limit, N)
  <2>1. \A j \in 2..last : ~Hit(p, j)
    BY <1>1, <1>2, <1>8 DEF Open
  <2>2. last = N
    <3>1. N # 1 => N - 1 < limit
      BY <1>1, <1>8 DEF Open
    <3> HIDE DEF N, limit
    <3>2. last # limit + 1 \/ limit + 1 <= N
      BY <1>1, <1>2
    <3>3. N <= limit
      BY <1>1, <3>1
    <3> QED
      BY <1>1, <1>2, <3>2, <3>3
  <2>3. result.outcome = "timeout" /\ result.exit = N
    BY <1>5, <1>7, <2>1, <2>2
  <2> QED
    BY <1>8, <2>3 DEF BacktestAgrees, result
<1>9. ASSUME NEW i \in 2..N, Answer = VerdictAt(p, bars[i], i - 1), Answer # None,
             Open(p, limit, i - 1), Hit(p, i) \/ i = limit + 1, i <= limit + 1
      PROVE  BacktestAgrees(p)
  <2>1. \A j \in 2..(i - 1) : ~Hit(p, j)
    BY <1>9 DEF Open
  <2>2. i \in 2..last
    BY <1>1, <1>2, <1>9
  <2>3. Answer.holding = i - 1 /\ 1 + (i - 1) = i
    BY <1>9, VerdictParts
  <2>4. CASE ~Hit(p, i)
    <3>1. i = limit + 1 /\ last = i
      BY <1>1, <1>2, <1>9, <2>4
    <3>2. \A j \in 2..last : ~Hit(p, j)
      BY <1>2, <2>1, <2>4, <3>1
    <3>3. result = [exit |-> i, price |-> bars[i].close, outcome |-> "timeout"]
      BY <1>5, <1>7, <3>1, <3>2
    <3>4. Answer.status = "EXPIRED" /\ Answer.price = bars[i].close
      BY <1>9, <2>4, VerdictParts DEF Hit
    <3>5. /\ result.exit = 1 + Answer.holding /\ result.price = Answer.price
          /\ result.outcome = "timeout"
      BY <2>3, <3>3, <3>4
    <3> QED
      BY <1>9, <3>4, <3>5 DEF BacktestAgrees, result
  <2>5. CASE Hit(p, i) /\ HitStop(p, bars[i])
    <3>1. result = [exit |-> i, price |-> p.stop, outcome |-> "loss"]
      BY <1>3, <1>5, <1>7, <2>1, <2>2, <2>5
    <3>2. Answer.status = "STOP_HIT" /\ Answer.price = p.stop
      BY <1>9, <2>5, VerdictParts
    <3>3. result.exit = 1 + Answer.holding /\ result.price = Answer.price /\ result.outcome = "loss"
      BY <2>3, <3>1, <3>2
    <3> QED
      BY <1>9, <3>2, <3>3 DEF BacktestAgrees, result
  <2>6. CASE Hit(p, i) /\ ~HitStop(p, bars[i])
    <3>1. result = [exit |-> i, price |-> p.target, outcome |-> "win"]
      BY <1>3, <1>5, <1>7, <2>1, <2>2, <2>6
    <3>2. Answer.status = "TARGET_HIT" /\ Answer.price = p.target
      BY <1>9, <2>6, VerdictParts DEF Hit
    <3>3. result.exit = 1 + Answer.holding /\ result.price = Answer.price /\ result.outcome = "win"
      BY <2>3, <3>1, <3>2
    <3> QED
      BY <1>9, <3>2, <3>3 DEF BacktestAgrees, result
  <2> QED
    BY <2>4, <2>5, <2>6
<1>10. \/ Answer = None /\ Open(p, limit, N)
       \/ \E i \in 2..N : /\ Answer = VerdictAt(p, bars[i], i - 1) /\ Answer # None
                          /\ Open(p, limit, i - 1)
                          /\ Hit(p, i) \/ i = limit + 1
                          /\ i <= limit + 1
  BY AnswerIs DEF Answer
<1> QED
  BY <1>8, <1>9, <1>10

LEMMA LabelsAgreeHolds ==
    ASSUME Printed, bars # <<>>, Leveled(study.trade), study.maxHold \in Nat \ {0}
    PROVE  LabelsAgree(study.trade)
<1> DEFINE p == study.trade
           limit == study.maxHold
           N == Len(bars)
           Stops(j) == IF p.direction = "BUY" THEN bars[j].low <= p.stop ELSE bars[j].high >= p.stop
           Reaches(j) == IF p.direction = "BUY" THEN bars[j].high >= p.target ELSE bars[j].low <= p.target
           hits == {j \in (1 + 1)..(1 + limit) : Stops(j) \/ Reaches(j)}
           hit == FirstBar(hits)
           label == OutcomeLabel(bars, 1, limit, p.direction, p.entry, p.stop, p.target)
           barrier == p.target - bars[1].close
           direction == DirectionLabel(bars, 1, limit, barrier)
<1>1. N \in Nat \ {0} /\ limit \in Nat \ {0} /\ 1 + limit \in Nat /\ p.direction \in Side
  BY DEF Printed, Leveled
<1>2. \A j : Stops(j) <=> HitStop(p, bars[j])
  BY DEF HitStop
<1>3. \A j : Reaches(j) <=> HitTarget(p, bars[j])
  BY DEF HitTarget
<1>4. label = IF ~Labelled(bars, 1, limit) THEN None
              ELSE IF hit = None THEN "NO_MOVE"
              ELSE IF Stops(hit) THEN "STOP_FIRST" ELSE "TARGET_FIRST"
  BY <1>1 DEF OutcomeLabel
<1> HIDE DEF Stops, Reaches, label
<1>5. hits = {j \in 2..(1 + limit) : Hit(p, j)}
  BY <1>2, <1>3 DEF Hit
<1> HIDE DEF hits
<1>6. /\ (\A j \in 2..(1 + limit) : ~Hit(p, j)) => hit = None
      /\ \A i \in 2..(1 + limit) : Hit(p, i) /\ (\A j \in 2..(i - 1) : ~Hit(p, j)) => hit = i /\ i # None
  BY <1>1, <1>5, FirstBarIs
<1> HIDE DEF hit
<1>7. \/ Answer = None /\ Open(p, limit, N)
      \/ \E i \in 2..N : /\ Answer = VerdictAt(p, bars[i], i - 1) /\ Answer # None
                         /\ Open(p, limit, i - 1)
                         /\ Hit(p, i) \/ i = limit + 1
                         /\ i <= limit + 1
  BY AnswerIs DEF Answer
<1> HIDE DEF p, limit, N
\* A labelled trade has its answer: the bar of the label's, or none in time.
<1>8. ASSUME Labelled(bars, 1, limit)
      PROVE  /\ hit = None => Answer.status = "EXPIRED"
             /\ hit # None => /\ hit \in 2..N
                              /\ HitStop(p, bars[hit]) => Answer.status = "STOP_HIT"
                              /\ ~HitStop(p, bars[hit]) => Answer.status = "TARGET_HIT"
  <2>1. limit + 1 <= N /\ N \in 2..N
    <3>1. 1 \in 1..(N - limit)
      BY <1>8 DEF Labelled, N
    <3> QED
      BY <1>1, <3>1
  <2>2. ~(Answer = None /\ Open(p, limit, N))
    <3> SUFFICES ASSUME Open(p, limit, N)
                 PROVE  FALSE
      OBVIOUS
    <3>1. N - 1 < limit
      BY <2>1 DEF Open
    <3> QED
      BY <1>1, <2>1, <3>1
  <2>3. PICK i \in 2..N : /\ Answer = VerdictAt(p, bars[i], i - 1) /\ Open(p, limit, i - 1)
                          /\ Hit(p, i) \/ i = limit + 1
                          /\ i <= limit + 1
    BY <1>7, <2>2
  <2>4. \A j \in 2..(i - 1) : ~Hit(p, j)
    BY <2>3 DEF Open
  <2>5. i \in 2..(1 + limit) /\ i \in Nat
    <3> QED
      BY <1>1, <2>3
  <2>6. Answer.status = IF HitStop(p, bars[i]) THEN "STOP_HIT"
                        ELSE IF HitTarget(p, bars[i]) THEN "TARGET_HIT" ELSE "EXPIRED"
    BY <2>3, VerdictParts DEF N, p
  <2>7. CASE Hit(p, i)
    BY <1>6, <2>4, <2>5, <2>6, <2>7 DEF Hit
  <2>8. CASE ~Hit(p, i)
    <3>1. i = limit + 1
      BY <2>3, <2>8
    <3>2. \A j \in 2..(1 + limit) : j = i \/ j \in 2..(i - 1)
      <4> QED
        BY <1>1, <3>1
    <3>3. \A j \in 2..(1 + limit) : ~Hit(p, j)
      BY <2>4, <2>8, <3>2
    <3> QED
      BY <1>6, <2>6, <2>8, <3>3 DEF Hit
  <2> QED
    BY <2>7, <2>8
<1>9. label # None => Labelled(bars, 1, limit)
  BY <1>4
<1>10. label # None =>
         label = CASE Answer.status = "STOP_HIT" -> "STOP_FIRST"
                   [] Answer.status = "TARGET_HIT" -> "TARGET_FIRST"
                   [] Answer.status = "EXPIRED" -> "NO_MOVE"
  <2> SUFFICES ASSUME label # None
               PROVE  label = CASE Answer.status = "STOP_HIT" -> "STOP_FIRST"
                                [] Answer.status = "TARGET_HIT" -> "TARGET_FIRST"
                                [] Answer.status = "EXPIRED" -> "NO_MOVE"
    OBVIOUS
  <2>1. Labelled(bars, 1, limit)
    BY <1>9
  <2>2. CASE hit = None
    <3>1. Answer.status = "EXPIRED" /\ label = "NO_MOVE"
      BY <1>4, <1>8, <2>1, <2>2
    <3> QED
      BY <3>1
  <2>3. CASE hit # None /\ HitStop(p, bars[hit])
    <3>1. Answer.status = "STOP_HIT" /\ label = "STOP_FIRST"
      BY <1>2, <1>4, <1>8, <2>1, <2>3
    <3> QED
      BY <3>1
  <2>4. CASE hit # None /\ ~HitStop(p, bars[hit])
    <3>1. Answer.status = "TARGET_HIT" /\ label = "TARGET_FIRST"
      BY <1>2, <1>4, <1>8, <2>1, <2>4
    <3> QED
      BY <3>1
  <2> QED
    BY <2>2, <2>3, <2>4
<1>11. ASSUME p.direction = "BUY", barrier > 0, p.stop = bars[1].close - barrier
       PROVE  /\ direction = "UP" => Answer.status = "TARGET_HIT"
              /\ direction = "DOWN" => Answer.status = "STOP_HIT"
              /\ direction = "NEUTRAL" => Answer.status # "TARGET_HIT"
  <2> DEFINE close == bars[1].close
             Rises(j) == bars[j].high >= close + barrier
             Falls(j) == bars[j].low <= close - barrier
             rising == {j \in (1 + 1)..(1 + limit) : Rises(j) \/ Falls(j)}
  <2>1. close \in Int /\ p.target \in Int
    BY <1>1, BarsAre DEF Leveled, p
  <2>2. close + barrier = p.target
    BY <2>1
  <2> HIDE DEF barrier
  <2>3. \A j : (Rises(j) <=> HitTarget(p, bars[j])) /\ (Falls(j) <=> HitStop(p, bars[j]))
    BY <1>11, <2>2 DEF HitTarget, HitStop
  <2>4. direction = IF ~Labelled(bars, 1, limit) THEN None
                    ELSE IF barrier <= 0 \/ FirstBar(rising) = None THEN "NEUTRAL"
                    ELSE IF Rises(FirstBar(rising)) /\ Falls(FirstBar(rising)) THEN "NEUTRAL"
                    ELSE IF Rises(FirstBar(rising)) THEN "UP" ELSE "DOWN"
    BY DEF DirectionLabel
  <2> HIDE DEF Rises, Falls, direction
  <2>5. rising = hits
    BY <1>5, <2>3 DEF Hit
  <2>6. FirstBar(rising) = hit
    BY <2>5 DEF hit
  <2> HIDE DEF rising
  <2>7. CASE ~Labelled(bars, 1, limit)
    BY <2>4, <2>7, BacktestAssumption
  <2>8. CASE Labelled(bars, 1, limit) /\ hit = None
    <3>1. direction = "NEUTRAL" /\ Answer.status = "EXPIRED"
      BY <1>8, <2>4, <2>6, <2>8
    <3> QED
      BY <3>1
  <2>9. CASE Labelled(bars, 1, limit) /\ hit # None
    <3>1. ~(barrier <= 0)
      BY <1>11, <2>1 DEF barrier
    <3>2. direction = IF HitTarget(p, bars[hit]) /\ HitStop(p, bars[hit]) THEN "NEUTRAL"
                      ELSE IF HitTarget(p, bars[hit]) THEN "UP" ELSE "DOWN"
      BY <2>3, <2>4, <2>6, <2>9, <3>1
    <3>3. HitStop(p, bars[hit]) \/ HitTarget(p, bars[hit])
      <4>1. PICK i \in 2..(1 + limit) : Hit(p, i) /\ \A j \in 2..(i - 1) : ~Hit(p, j)
        <5> DEFINE S == {j \in 2..(1 + limit) : Hit(p, j)}
        <5>1. S \in SUBSET Nat /\ S # {}
          BY <1>6, <2>9
        <5>2. Least(S) \in S /\ \A x \in S : Least(S) <= x
          BY <5>1, LeastIs
        <5> DEFINE i == Least(S)
        <5> HIDE DEF i
        <5>3. i \in S /\ \A x \in S : i <= x
          BY <5>2 DEF i
        <5>4. \A j \in 2..(i - 1) : j \in 2..(1 + limit) /\ ~(i <= j)
          <6> QED
            BY <1>1, <5>3
        <5>5. \A j \in 2..(i - 1) : ~Hit(p, j)
          BY <5>3, <5>4
        <5> QED
          BY <5>3, <5>5
      <4>2. hit = i
        BY <1>6, <4>1
      <4> QED
        BY <4>1, <4>2 DEF Hit
    <3> QED
      BY <1>8, <2>9, <3>2, <3>3
  <2> QED
    BY <2>7, <2>8, <2>9
<1> QED
  BY <1>10, <1>11 DEF LabelsAgree, label, direction, p, limit, N

-----------------------------------------------------------------------------
(* The trade in all its scorers *)

LEMMA TradeScorersAgree ==
    ASSUME IInv, IsTrade
    PROVE  /\ Answer = Walk(study.trade, study.maxHold)
           /\ Resolvable(study.trade) /\ bars # <<>> =>
                TrackerAgrees(study.trade) /\ BacktestAgrees(study.trade) /\ LabelsAgree(study.trade)
<1> DEFINE p == study.trade
           limit == study.maxHold
<1>1. p \in Trade /\ limit \in Nat \ {0}
  BY StudyKinds, ResearchAssumption DEF IInv, IsTrade, TradeStudies
<1>2. Printed
  BY DEF IInv, IsTrade, Printed
<1>3. CASE Resolvable(p)
  <2>1. Leveled(p)
    BY <1>1, <1>3 DEF Trade, Leveled, Resolvable, Tradeable, Price
  <2>2. Answer = LoopAfter(p, limit)[Len(bars)].verdict
    BY <1>1, <1>2, <2>1, AnswerIsLoop DEF Answer
  <2>3. Answer = Walk(p, limit)
    BY <1>3, <2>2 DEF Walk, Resolvable
  <2>4. ASSUME bars # <<>>
        PROVE  TrackerAgrees(p) /\ BacktestAgrees(p) /\ LabelsAgree(p)
    <3>1. TrackerAgrees(p)
      BY <1>1, <1>2, <2>1, <2>4, TrackerAgreesHolds DEF Answer
    <3>2. BacktestAgrees(p)
      BY <1>1, <1>2, <2>1, <2>4, BacktestAgreesHolds
    <3>3. LabelsAgree(p)
      BY <1>1, <1>2, <2>1, <2>4, LabelsAgreeHolds
    <3> QED
      BY <3>1, <3>2, <3>3
  <2> QED
    BY <2>3, <2>4
<1>4. CASE ~Resolvable(p)
  BY <1>4 DEF Answer, ResolvePrediction, Walk, Resolvable
<1> QED
  BY <1>3, <1>4

-----------------------------------------------------------------------------
(* The two copies of the stock trade *)

Beats(score, a, b) == score[a] > score[b] \/ (score[a] = score[b] /\ a < b)

LEMMA PairIsSorted ==
    ASSUME NEW score, NEW a \in Nat, NEW b \in Nat, a # b,
           score[a] \in Int, score[b] \in Int, Beats(score, a, b)
    PROVE  Sorted({a, b}, score) = [n \in 1..2 |-> IF n = 1 THEN a ELSE b]
<1> DEFINE S == {a, b}
           place(k) == Cardinality({m \in S : Beats(score, m, k)})
<1>1. ~Beats(score, b, a) /\ ~Beats(score, a, a) /\ ~Beats(score, b, b)
  BY DEF Beats
<1>2. Cardinality({}) = 0 /\ Cardinality({a}) = 1 /\ Cardinality(S) = 2
  <2>1. IsFiniteSet({a}) /\ Cardinality({a}) = 1 /\ b \notin {a}
    BY FS_Singleton
  <2>2. Cardinality({a} \cup {b}) = Cardinality({a}) + 1
    BY <2>1, FS_AddElement, Zenon
  <2>3. S = {a} \cup {b}
    OBVIOUS
  <2> QED
    BY <2>1, <2>2, <2>3, FS_EmptySet
<1>3. {m \in S : Beats(score, m, a)} = {} /\ {m \in S : Beats(score, m, b)} = {a}
  BY <1>1
<1>4. place(a) = 0 /\ place(b) = 1
  BY <1>2, <1>3
<1>5. Sorted(S, score) = [n \in 1..Cardinality(S) |-> CHOOSE k \in S : place(k) = n - 1]
  BY DEF Sorted, Beats
<1> HIDE DEF place
<1>6. (CHOOSE k \in S : place(k) = 0) = a /\ (CHOOSE k \in S : place(k) = 1) = b
  <2>1. \A k \in S : place(k) = 0 <=> k = a
    BY <1>4
  <2>2. \A k \in S : place(k) = 1 <=> k = b
    BY <1>4
  <2> QED
    BY <2>1, <2>2
<1>7. \A n \in 1..2 : (CHOOSE k \in S : place(k) = n - 1) = IF n = 1 THEN a ELSE b
  <2> SUFFICES ASSUME NEW n \in 1..2
               PROVE  (CHOOSE k \in S : place(k) = n - 1) = IF n = 1 THEN a ELSE b
    OBVIOUS
  <2>1. CASE n = 1
    BY <1>6, <2>1
  <2>2. CASE n = 2
    BY <1>6, <2>2
  <2> QED
    BY <2>1, <2>2
<1> QED
  BY <1>2, <1>5, <1>7

\* A pair, or a part of it, that is sorted is all there.
LEMMA SortedIs ==
    ASSUME NEW S \in SUBSET {1, 2}, NEW score, \A k \in S : score[k] \in Int
    PROVE  Sorted(S, score) \in Seq(Nat) /\ Range(Sorted(S, score)) = S
<1>1. CASE S = {}
  <2>1. Cardinality(S) = 0 /\ 1..0 = {}
    BY <1>1, FS_EmptySet
  <2>2. DOMAIN Sorted(S, score) = {} /\ Sorted(S, score) \in [1..0 -> Nat]
    BY <2>1 DEF Sorted
  <2>3. Range(Sorted(S, score)) = {}
    BY <2>2 DEF Range
  <2> QED
    BY <1>1, <2>2, <2>3, SeqDef
<1>2. ASSUME NEW x \in {1, 2}, S = {x}
      PROVE  Sorted(S, score) \in Seq(Nat) /\ Range(Sorted(S, score)) = S
  <2> DEFINE place(k) == Cardinality({m \in S : Beats(score, m, k)})
  <2>1. Cardinality(S) = 1 /\ Cardinality({}) = 0 /\ 1..1 = {1}
    <3>1. Cardinality(S) = 1 /\ Cardinality({}) = 0
      BY <1>2, FS_EmptySet, FS_Singleton
    <3> QED
      BY <3>1
  <2>2. {m \in S : Beats(score, m, x)} = {}
    BY <1>2 DEF Beats
  <2>3. place(x) = 0
    BY <2>1, <2>2
  <2>4. Sorted(S, score) = [n \in 1..Cardinality(S) |-> CHOOSE k \in S : place(k) = n - 1]
    BY DEF Sorted, Beats
  <2> HIDE DEF place
  <2>5. (CHOOSE k \in S : place(k) = 0) = x
    BY <1>2, <2>3
  <2>6. \A n \in 1..1 : (CHOOSE k \in S : place(k) = n - 1) = x
    BY <2>5
  <2>7. Sorted(S, score) = [n \in 1..1 |-> x]
    BY <2>1, <2>4, <2>6
  <2>8. /\ DOMAIN Sorted(S, score) = {1} /\ Sorted(S, score)[1] = x
        /\ Sorted(S, score) \in [1..1 -> Nat]
    BY <2>1, <2>7
  <2>9. Range(Sorted(S, score)) = {x}
    BY <2>8 DEF Range
  <2> QED
    <3>1. Sorted(S, score) \in [1..1 -> Nat] /\ 1 \in Nat
      BY <2>8
    <3>2. Sorted(S, score) \in Seq(Nat)
      BY <3>1, SeqDef, Zenon
    <3> QED
      BY <1>2, <2>9, <3>2
<1>3. ASSUME NEW a \in {1, 2}, NEW b \in {1, 2}, a # b, S = {a, b}, Beats(score, a, b)
      PROVE  Sorted(S, score) \in Seq(Nat) /\ Range(Sorted(S, score)) = S
  <2>1. Sorted(S, score) = [n \in 1..2 |-> IF n = 1 THEN a ELSE b]
    BY <1>3, PairIsSorted
  <2>2. 1..2 = {1, 2}
    OBVIOUS
  <2>3. DOMAIN Sorted(S, score) = {1, 2} /\ Sorted(S, score)[1] = a /\ Sorted(S, score)[2] = b
    BY <2>1, <2>2
  <2>4. Range(Sorted(S, score)) = {a, b}
    BY <2>3 DEF Range
  <2>5. Sorted(S, score) \in [1..2 -> Nat]
    BY <2>1
  <2>6. Sorted(S, score) \in Seq(Nat)
    BY <2>5, SeqDef
  <2> QED
    BY <1>3, <2>4, <2>6
<1>4. CASE S = {1, 2}
  <2>1. Beats(score, 1, 2) \/ Beats(score, 2, 1)
    BY <1>4 DEF Beats
  <2>2. S = {2, 1}
    BY <1>4
  <2> QED
    BY <1>3, <1>4, <2>1, <2>2
<1> QED
  BY <1>1, <1>2, <1>4

\* What both copies of the trade read of a stock.
Readable(s) ==
    /\ s.history \in {"thin", "enough"} /\ s.model \in BOOLEAN /\ s.chance \in Int
    /\ s.probs.up \in Int /\ s.probs.down \in Int /\ s.probs.flat \in Int
    /\ s.close \in Int /\ s.atr \in Int /\ s.stack \in Int /\ s.sector \in Range(SectorNames)

LEMMA SideIs ==
    ASSUME NEW probs, probs.up \in Int, probs.down \in Int, probs.flat \in Int
    PROVE  DirectionSide(probs) \in {-1, 0, 1}
BY DEF DirectionSide

LEMMA PlanOfStockIs ==
    ASSUME NEW side \in {-1, 0, 1}, NEW close \in Int, NEW atr \in Int
    PROVE  LevelsAt(side, close, atr) \in StockPlans
<1>1. side * atr \in Int /\ side * 3 * atr \in Int /\ side * 5 * atr \in Int
  OBVIOUS
<1> QED
  BY <1>1 DEF LevelsAt, StockPlans

LEMMA SetupIs ==
    ASSUME NEW s, Readable(s)
    PROVE  /\ StockSetup(s) # None <=> s.history = "enough" /\ DirectionSide(s.probs) # 0
           /\ StockSetup(s) # None =>
                /\ StockSetup(s).take = Takes(s) /\ StockSetup(s).take \in BOOLEAN
                /\ StockSetup(s).levels = LevelsAt(DirectionSide(s.probs), s.close, s.atr)
<1> DEFINE side == DirectionSide(s.probs)
           setup == [action |-> IF side > 0 THEN "BUY" ELSE "SELL", chance |-> s.chance,
                     take |-> Takes(s), levels |-> LevelsAt(side, s.close, s.atr)]
<1>1. side \in {-1, 0, 1}
  BY SideIs DEF Readable
<1>2. LevelsAt(side, s.close, s.atr) \in StockPlans /\ Takes(s) \in BOOLEAN /\ s.chance \in Int
  BY <1>1, PlanOfStockIs DEF Readable, Takes
<1>3. StockSetup(s) = IF s.history # "enough" \/ side = 0 THEN None ELSE setup
  BY DEF StockSetup
<1>4. (IF side > 0 THEN "BUY" ELSE "SELL") \in Side
  BY DEF Side
<1>5. setup \in StockSetups
  <2> HIDE DEF side
  <2> QED
    BY <1>2, <1>4 DEF StockSetups
<1>6. setup # None /\ setup.take = Takes(s) /\ setup.take \in BOOLEAN /\ setup.levels = LevelsAt(side, s.close, s.atr)
  BY <1>2, <1>5, StockAssumption
<1> HIDE DEF side, setup
<1>7. /\ StockSetup(s) # None <=> s.history = "enough" /\ side # 0
      /\ StockSetup(s) # None => StockSetup(s) = setup
  BY <1>3, <1>6
<1> QED
  BY <1>6, <1>7 DEF side

LEMMA SectorIs ==
    ASSUME NEW s, Readable(s), NEW nifty, NEW indices
    PROVE  SectorForStock(s, nifty, indices) \in SectorRows \cup {None}
<1> DEFINE known == {k \in DOMAIN SectorNames : indices[SectorNames[k]] # None}
           score == [k \in known |-> SectorScore(indices[SectorNames[k]])]
           order == Sorted(known, score)
           row(n) == [sector |-> SectorNames[order[n]], rank |-> n,
                      label |-> SectorLabel(score[order[n]])]
           rows == {r \in Range(SectorRankings(indices)) : r.sector = s.sector}
<1>1. SectorRankings(indices) = [n \in DOMAIN order |-> row(n)]
  BY DEF SectorRankings
<1>2. DOMAIN order = 1..Cardinality(known)
  BY DEF Sorted
<1>3. Cardinality(known) \in Nat
  <2>1. IsFiniteSet(DOMAIN SectorNames)
    <3>1. DOMAIN SectorNames = 1..Len(SectorNames) /\ Len(SectorNames) \in Nat
      BY StockAssumption
    <3> QED
      BY <3>1, FS_Interval
  <2>2. known \in SUBSET DOMAIN SectorNames
    OBVIOUS
  <2>3. IsFiniteSet(known)
    BY <2>1, <2>2, FS_Subset
  <2> QED
    BY <2>3, FS_CardinalityType
<1>4. \A n \in DOMAIN order : n \in Nat
  <2> HIDE DEF known, order
  <2> QED
    BY <1>2, <1>3
<1> HIDE DEF known, score, order
<1>5. ASSUME NEW r \in rows
      PROVE  r \in SectorRows
  <2>1. r \in Range(SectorRankings(indices)) /\ r.sector = s.sector
    OBVIOUS
  <2>2. PICK n \in DOMAIN order : r = row(n)
    BY <1>1, <2>1 DEF Range
  <2>3. r = [sector |-> s.sector, rank |-> n, label |-> SectorLabel(score[order[n]])]
    BY <2>1, <2>2
  <2>4. SectorLabel(score[order[n]]) \in {"Strong", "Weak", "Neutral", "Unknown"}
    BY DEF SectorLabel
  <2>5. n \in Nat \cup {None} /\ s.sector \in Range(SectorNames)
    BY <1>4 DEF Readable
  <2> QED
    BY <2>3, <2>4, <2>5 DEF SectorRows
<1>6. [sector |-> s.sector, rank |-> None, label |-> "Unknown"] \in SectorRows
  BY DEF Readable, SectorRows
<1> HIDE DEF rows
<1>7. SectorForStock(s, nifty, indices) =
        IF s.sector = None THEN None
        ELSE IF ~nifty \/ rows = {} THEN [sector |-> s.sector, rank |-> None, label |-> "Unknown"]
        ELSE CHOOSE r \in rows : TRUE
  BY DEF SectorForStock, rows
<1>8. rows # {} => (CHOOSE r \in rows : TRUE) \in rows
  OBVIOUS
<1> QED
  BY <1>5, <1>6, <1>7, <1>8

\* The words for and against a trade.
LEMMA ReasonsAre ==
    ASSUME NEW s, NEW side, NEW context
    PROVE  Reasons(s, side, context) \in [for : SUBSET Topics, against : SUBSET Topics]
<1> DEFINE Trend == s.stack = side
           Momentum == s.macd = side
           Stretched == IF side > 0 THEN StockRsi(s) >= 72 ELSE StockRsi(s) <= 28
           Leads == (s.ahead > 0) = (side > 0)
           leads == IF Abs(s.ahead) > 1 THEN {"strength"} ELSE {}
           past == IF s.past # None THEN {"history"} ELSE {}
           sector == IF context # None /\ context.label # "Unknown" THEN {"sector"} ELSE {}
           wild == IF MarketState(s).volatility = "high" THEN {"volatility"} ELSE {}
           trend == IF Trend THEN {"trend"} ELSE {}
           momentum == IF Momentum THEN {"momentum"} ELSE {}
           calm == IF Stretched THEN {} ELSE {"rsi"}
           ahead == IF Leads THEN leads ELSE {}
           won == IF s.past # None /\ s.past >= 55 THEN past ELSE {}
           backed == IF Supports(side, context) = "against" THEN {} ELSE sector
           pro == trend \cup momentum \cup calm \cup ahead \cup won \cup backed
           all == {"trend", "momentum", "rsi"} \cup leads \cup past \cup sector \cup wild
<1>1. Reasons(s, side, context) = [for |-> pro, against |-> all \ pro]
  BY Zenon DEF Reasons
<1>2. /\ leads \in SUBSET Topics /\ past \in SUBSET Topics /\ sector \in SUBSET Topics
      /\ wild \in SUBSET Topics /\ trend \in SUBSET Topics /\ momentum \in SUBSET Topics
      /\ calm \in SUBSET Topics
  <2> HIDE DEF Trend, Momentum, Stretched
  <2> QED
    BY DEF Topics
<1>3. ahead \in SUBSET Topics /\ won \in SUBSET Topics /\ backed \in SUBSET Topics
  <2> HIDE DEF leads, past, sector, Leads
  <2> QED
    BY <1>2
<1> HIDE DEF leads, past, sector, wild, trend, momentum, calm, ahead, won, backed
<1>4. pro \in SUBSET Topics /\ all \in SUBSET Topics
  BY <1>2, <1>3 DEF Topics
<1> HIDE DEF pro, all
<1> QED
  BY <1>1, <1>4

LEMMA ReportIs ==
    ASSUME NEW s, Readable(s), NEW nifty, NEW indices
    PROVE  LET report == AnalyzeStock(s, nifty, indices)
               side == DirectionSide(s.probs)
           IN  /\ report # None <=> s.history = "enough"
               /\ report # None =>
                    /\ report.leaning # None <=> side # 0
                    /\ report.recommendation # "WAIT" <=> s.model /\ side # 0 /\ Takes(s)
                    /\ side # 0 /\ s.atr # 0 => report.plan = LevelsAt(side, s.close, s.atr)
<1> DEFINE side == DirectionSide(s.probs)
           taken == s.model /\ side # 0 /\ Takes(s)
           lean == IF side > 0 THEN "BUY" ELSE IF side < 0 THEN "SELL" ELSE None
           argued == IF side = 0 THEN 1 ELSE side
           atr == IF s.atr = 0 THEN s.close \div 50 ELSE s.atr
           context == SectorForStock(s, nifty, indices)
           plan == IF side = 0 THEN None ELSE LevelsAt(side, s.close, atr)
           recommendation == IF taken THEN lean ELSE "WAIT"
           state == MarketState(s)
           reasons == Reasons(s, argued, context)
           report == [recommendation |-> recommendation, leaning |-> lean, plan |-> plan,
                      state |-> state, sector |-> context, reasons |-> reasons]
<1>1. side \in {-1, 0, 1}
  BY SideIs DEF Readable
<1>2. AnalyzeStock(s, nifty, indices) = IF s.history # "enough" THEN None ELSE report
  BY DEF AnalyzeStock
<1>3. atr \in Int
  BY DEF Readable
<1>4. plan \in StockPlans \cup {None}
  <2> HIDE DEF side, atr
  <2> QED
    BY <1>1, <1>3, PlanOfStockIs DEF Readable
<1>5. state \in MarketStates
  <2>1. s.stack \in Int
    BY DEF Readable
  <2> QED
    BY <2>1 DEF MarketState, MarketStates
<1>6. context \in SectorRows \cup {None}
  BY SectorIs
<1>7. reasons \in [for : SUBSET Topics, against : SUBSET Topics]
  BY ReasonsAre
<1>8. /\ lean \in Side \cup {None} /\ recommendation \in Direction
      /\ lean # None <=> side # 0
      /\ recommendation # "WAIT" <=> taken
  <2> HIDE DEF side
  <2>1. "BUY" # None /\ "SELL" # None
    BY StockAssumption DEF Side
  <2> QED
    BY <1>1, <2>1 DEF Side, Direction
<1>9. side # 0 /\ s.atr # 0 => plan = LevelsAt(side, s.close, s.atr)
  OBVIOUS
<1> HIDE DEF taken, lean, plan, recommendation, state, context, reasons, side
<1>10. report \in StockReports
  BY <1>4, <1>5, <1>6, <1>7, <1>8 DEF StockReports
<1>11. /\ report # None /\ report.leaning = lean /\ report.plan = plan
       /\ report.recommendation = recommendation
  BY <1>10, StockAssumption
<1> HIDE DEF report
<1>12. /\ AnalyzeStock(s, nifty, indices) # None <=> s.history = "enough"
       /\ AnalyzeStock(s, nifty, indices) # None => AnalyzeStock(s, nifty, indices) = report
  BY <1>2, <1>11
<1> QED
  BY <1>8, <1>9, <1>11, <1>12 DEF taken, side

\* Of a pair of stocks.
LEMMA ScreenerAgreesHolds ==
    ASSUME NEW one, NEW two, Readable(one), Readable(two), one.atr # 0, two.atr # 0
    PROVE  ScreenerAgrees(<<one, two>>)
<1> DEFINE basket == <<one, two>>
           Report(k) == AnalyzeStock(basket[k], TRUE, study.indices)
           Advice(k) == StockSetup(basket[k])
           Leaning == {k \in DOMAIN basket : Report(k) # None /\ Report(k).leaning # None}
           Listed(take) == {k \in DOMAIN basket : Advice(k) # None /\ Advice(k).take = take}
           chances == [k \in DOMAIN basket |-> basket[k].chance]
           All == \A k \in DOMAIN basket : basket[k].model
           scan == ScanNse(basket)
           lists == [buyNow |-> Sorted(Listed(TRUE), chances), waiting |-> Sorted(Listed(FALSE), chances)]
<1>1. DOMAIN basket = {1, 2} /\ basket[1] = one /\ basket[2] = two
  OBVIOUS
<1>2. \A k \in {1, 2} : Readable(basket[k]) /\ basket[k].atr # 0
  BY <1>1
<1>3. chances[1] \in Int /\ chances[2] \in Int
  BY <1>1 DEF Readable
<1>4. scan = IF All THEN lists ELSE None
  BY DEF ScanNse
<1> HIDE DEF basket
<1>5. \A k \in {1, 2} :
        LET side == DirectionSide(basket[k].probs)
        IN  /\ Advice(k) # None <=> basket[k].history = "enough" /\ side # 0
            /\ Advice(k) # None => /\ Advice(k).take = Takes(basket[k])
                                   /\ Advice(k).take \in BOOLEAN
                                   /\ Advice(k).levels = LevelsAt(side, basket[k].close, basket[k].atr)
            /\ Report(k) # None <=> basket[k].history = "enough"
            /\ Report(k) # None =>
                 /\ Report(k).leaning # None <=> side # 0
                 /\ Report(k).recommendation # "WAIT" <=> basket[k].model /\ side # 0 /\ Takes(basket[k])
                 /\ side # 0 => Report(k).plan = LevelsAt(side, basket[k].close, basket[k].atr)
  <2> SUFFICES ASSUME NEW k \in {1, 2}
               PROVE  LET side == DirectionSide(basket[k].probs)
                      IN  /\ Advice(k) # None <=> basket[k].history = "enough" /\ side # 0
                          /\ Advice(k) # None =>
                               /\ Advice(k).take = Takes(basket[k])
                               /\ Advice(k).take \in BOOLEAN
                               /\ Advice(k).levels = LevelsAt(side, basket[k].close, basket[k].atr)
                          /\ Report(k) # None <=> basket[k].history = "enough"
                          /\ Report(k) # None =>
                               /\ Report(k).leaning # None <=> side # 0
                               /\ Report(k).recommendation # "WAIT"
                                    <=> basket[k].model /\ side # 0 /\ Takes(basket[k])
                               /\ side # 0 => Report(k).plan
                                                = LevelsAt(side, basket[k].close, basket[k].atr)
    BY Zenon
  <2> DEFINE stock == basket[k]
  <2>1. Readable(stock) /\ stock.atr # 0
    BY <1>2
  <2> HIDE DEF stock
  <2>2. /\ StockSetup(stock) # None <=> stock.history = "enough" /\ DirectionSide(stock.probs) # 0
        /\ StockSetup(stock) # None =>
             /\ StockSetup(stock).take = Takes(stock) /\ StockSetup(stock).take \in BOOLEAN
             /\ StockSetup(stock).levels = LevelsAt(DirectionSide(stock.probs), stock.close, stock.atr)
    BY <2>1, SetupIs
  <2> DEFINE report == AnalyzeStock(stock, TRUE, study.indices)
  <2>3. /\ report # None <=> stock.history = "enough"
        /\ report # None =>
             /\ report.leaning # None <=> DirectionSide(stock.probs) # 0
             /\ report.recommendation # "WAIT"
                  <=> stock.model /\ DirectionSide(stock.probs) # 0 /\ Takes(stock)
             /\ DirectionSide(stock.probs) # 0 =>
                  report.plan = LevelsAt(DirectionSide(stock.probs), stock.close, stock.atr)
    BY <2>1, ReportIs
  <2> QED
    BY <2>2, <2>3 DEF stock
<1> HIDE DEF Report, Advice
<1>6. {k \in DOMAIN basket : Advice(k) # None} = Leaning
  BY <1>1, <1>5
<1>7. \A k \in Leaning : Advice(k).levels = Report(k).plan
  BY <1>1, <1>5
<1>8. Listed(TRUE) \in SUBSET {1, 2} /\ Listed(FALSE) \in SUBSET {1, 2}
  BY <1>1
<1>9. Listed(FALSE) = Leaning \ Listed(TRUE)
  <2>1. \A k \in {1, 2} : Advice(k) # None => Advice(k).take \in BOOLEAN
    BY <1>5
  <2> QED
    BY <1>1, <1>6, <2>1
<1>10. All => Listed(TRUE) = {k \in Leaning : Report(k).recommendation # "WAIT"}
  BY <1>1, <1>5
<1>11. /\ Sorted(Listed(TRUE), chances) \in Seq(Nat) /\ Range(Sorted(Listed(TRUE), chances)) = Listed(TRUE)
       /\ Sorted(Listed(FALSE), chances) \in Seq(Nat) /\ Range(Sorted(Listed(FALSE), chances)) = Listed(FALSE)
  <2> HIDE DEF Listed, chances
  <2> QED
    BY <1>3, <1>8, SortedIs
<1>12. ~All => \E k \in DOMAIN basket : Report(k) = None \/ Report(k).recommendation = "WAIT"
  BY <1>1, <1>5
<1> HIDE DEF Leaning, Listed, chances, All, scan
<1>13. lists \in Scans /\ lists # None
  <2> DEFINE now == Sorted(Listed(TRUE), chances)
             later == Sorted(Listed(FALSE), chances)
  <2>1. now \in Seq(Nat) /\ later \in Seq(Nat)
    BY <1>11
  <2> HIDE DEF now, later
  <2>2. [buyNow |-> now, waiting |-> later] \in Scans
    BY <2>1 DEF Scans
  <2> QED
    BY <2>2, StockAssumption DEF now, later
<1>14. scan # None => /\ Range(scan.buyNow) = {k \in Leaning : Report(k).recommendation # "WAIT"}
                      /\ Range(scan.waiting) = Leaning \ Range(scan.buyNow)
  BY <1>4, <1>9, <1>10, <1>11
<1>15. scan = None => \E k \in DOMAIN basket : Report(k) = None \/ Report(k).recommendation = "WAIT"
  BY <1>4, <1>12, <1>13
<1>16. ScreenerAgrees(basket)
  BY <1>6, <1>7, <1>14, <1>15 DEF ScreenerAgrees, Leaning, scan, Report, Advice
<1> QED
  BY <1>16 DEF basket

LEMMA StocksAreReadable ==
    ASSUME IInv, IsStock
    PROVE  Readable(study.stock) /\ Readable([study.stock EXCEPT !.chance = TakeAt])
<1>1. study.stock \in Stocks
  BY StudyKinds DEF IInv, IsStock, StockStudies
<1> DEFINE s == study.stock
           two == [s EXCEPT !.chance = TakeAt]
<1>2. /\ s.history \in {"thin", "enough"} /\ s.model \in BOOLEAN /\ s.chance \in {TakeAt - 1, TakeAt}
      /\ s.probs \in {[up |-> 50, down |-> 30, flat |-> 20], [up |-> 30, down |-> 35, flat |-> 35],
                      [up |-> 40, down |-> 40, flat |-> 20], [up |-> 30, down |-> 30, flat |-> 40]}
      /\ s.close \in {100} /\ s.atr \in {0, 2, 3} /\ s.stack \in -1..1 /\ s.sector \in {"IT"}
  BY <1>1 DEF Stocks
<1>3. /\ two.history = s.history /\ two.model = s.model /\ two.chance = TakeAt /\ two.probs = s.probs
      /\ two.close = s.close /\ two.atr = s.atr /\ two.stack = s.stack /\ two.sector = s.sector
  BY <1>1 DEF Stocks
<1> HIDE DEF s, two
<1>4. s.probs.up \in Int /\ s.probs.down \in Int /\ s.probs.flat \in Int
  BY <1>2
<1>5. s.chance \in Int /\ TakeAt \in Int
  BY <1>2, StockAssumption
<1>6. s.close \in Int /\ s.atr \in Int /\ s.stack \in Int /\ s.sector \in Range(SectorNames)
  BY <1>2, ResearchAssumption
<1>7. Readable(s) /\ Readable(two)
  BY <1>2, <1>3, <1>4, <1>5, <1>6 DEF Readable
<1> QED
  BY <1>7 DEF s, two

\* Every trade is scored alike in the program's six places, and the two copies of
\* a stock's trade agree, for prices, histories and hold limits of any size.
THEOREM ScorersAgreeHolds == Spec => []ScorersAgree
<1>1. IInv => ScorersAgree
  <2> SUFFICES ASSUME IInv
               PROVE  ScorersAgree
    OBVIOUS
  <2>1. ASSUME IsStock, study.stock.atr # 0
        PROVE  ScreenerAgrees(<<study.stock, [study.stock EXCEPT !.chance = TakeAt]>>)
    <3> DEFINE two == [study.stock EXCEPT !.chance = TakeAt]
    <3>1. two.atr = study.stock.atr
      OBVIOUS
    <3>2. Readable(study.stock) /\ Readable(two)
      BY <2>1, StocksAreReadable
    <3> HIDE DEF two
    <3>3. ScreenerAgrees(<<study.stock, two>>)
      BY <2>1, <3>1, <3>2, ScreenerAgreesHolds
    <3> QED
      BY <3>3 DEF two
  <2> QED
    BY <2>1, TradeScorersAgree DEF ScorersAgree
<1> QED
  BY <1>1, ResearchInvariant, PTL

-----------------------------------------------------------------------------
(* One position at a time *)

\* Offers of trades that end after their bar.
IsOffers(offers, n) ==
    /\ DOMAIN offers \subseteq 1..n
    /\ \A k \in DOMAIN offers : offers[k].entry = k /\ offers[k].exit \in Nat /\ k < offers[k].exit

Trades(offers) == {offers[k] : k \in DOMAIN offers}
Books(offers) == [until : Nat, taken : Seq(Trades(offers))]
NoBook == [until |-> 0, taken |-> <<>>]

LEMMA TakeStepType ==
    ASSUME NEW n \in Nat, NEW offers, IsOffers(offers, n), NEW last \in Books(offers), NEW i \in 1..n
    PROVE  TakeStep(last, offers, i) \in Books(offers)
<1>1. CASE i \notin DOMAIN offers \/ i <= last.until
  BY <1>1 DEF TakeStep
<1>2. CASE i \in DOMAIN offers /\ ~(i <= last.until)
  <2>1. offers[i] \in Trades(offers) /\ offers[i].exit \in Nat /\ last.taken \in Seq(Trades(offers))
    BY <1>2 DEF IsOffers, Trades, Books
  <2>2. Append(last.taken, offers[i]) \in Seq(Trades(offers))
    BY <2>1
  <2> QED
    BY <1>2, <2>1, <2>2 DEF TakeStep, Books
<1> QED
  BY <1>1, <1>2

LEMMA BookIs ==
    ASSUME NEW n \in Nat, NEW offers, IsOffers(offers, n)
    PROVE  LET book == BookWalk(offers, n)
           IN  /\ book[0] = NoBook
               /\ \A i \in 1..n : book[i] = TakeStep(book[i - 1], offers, i)
               /\ \A i \in 0..n : book[i] \in Books(offers)
<1> DEFINE S == Books(offers)
           step == [i \in 1..n |-> [last \in S |-> TakeStep(last, offers, i)]]
           Booked(w) == w = [i \in 0..n |-> IF i = 0 THEN [until |-> 0, taken |-> <<>>]
                                           ELSE TakeStep(w[i - 1], offers, i)]
<1>1. NoBook \in S
  BY DEF NoBook, Books
<1>2. step \in [1..n -> [S -> S]]
  BY TakeStepType
<1> HIDE DEF S, step
<1>3. PICK w \in [0..n -> S] : IsWalk(w, n, NoBook, step)
  BY <1>1, <1>2, WalkExists
<1>4. \A i \in 1..n : w[i] = TakeStep(w[i - 1], offers, i)
  <2> SUFFICES ASSUME NEW i \in 1..n
               PROVE  w[i] = TakeStep(w[i - 1], offers, i)
    OBVIOUS
  <2>1. i - 1 \in 0..n
    OBVIOUS
  <2>2. w[i - 1] \in S /\ w[i] = step[i][w[i - 1]]
    BY <1>3, <2>1 DEF IsWalk
  <2> QED
    BY <2>2 DEF step
<1>5. Booked(w)
  <2>1. w[0] = [until |-> 0, taken |-> <<>>]
    BY <1>3 DEF IsWalk, NoBook
  <2> QED
    BY <1>3, <1>4, <2>1
<1>6. BookWalk(offers, n) = CHOOSE v : Booked(v)
  BY DEF BookWalk
<1>7. Booked(BookWalk(offers, n))
  BY <1>5, <1>6
<1> DEFINE book == BookWalk(offers, n)
<1>8. /\ book[0] = NoBook
      /\ \A i \in 1..n : book[i] = TakeStep(book[i - 1], offers, i)
  <2> HIDE DEF book
  <2> QED
    BY <1>7 DEF book, NoBook
<1> HIDE DEF book
<1>9. \A i \in 0..n : book[i] \in S
  <2> DEFINE T == {i \in 0..n : book[i] \in S}
  <2>1. 0 \in T
    BY <1>1, <1>8
  <2>2. ASSUME NEW i \in 1..n, i - 1 \in T
        PROVE  i \in T
    <3>1. book[i - 1] \in S /\ book[i] = TakeStep(book[i - 1], offers, i)
      BY <1>8, <2>2
    <3> QED
      BY <3>1, TakeStepType DEF S
  <2> HIDE DEF T
  <2>3. \A i \in 0..n : i \in T
    BY <2>1, <2>2, Induction
  <2> QED
    BY <2>3 DEF T
<1> QED
  BY <1>8, <1>9 DEF S, book

\* The book after i bars: its trades are of those bars and follow each other,
\* and every bar that offered one falls into one of them.
Kept(book, offers, i) ==
    /\ \A k \in 1..Len(book.taken) :
         /\ book.taken[k].entry \in 1..i /\ book.taken[k].exit \in Nat
         /\ book.taken[k].entry < book.taken[k].exit /\ book.taken[k].exit <= book.until
    /\ \A k, m \in 1..Len(book.taken) : k < m => book.taken[k].exit < book.taken[m].entry
    /\ IF book.taken = <<>> THEN book.until = 0 ELSE book.until = book.taken[Len(book.taken)].exit
    /\ \A bar \in DOMAIN offers : bar <= i =>
         \E k \in 1..Len(book.taken) : book.taken[k].entry <= bar /\ bar <= book.taken[k].exit

LEMMA TakeKeeps ==
    ASSUME NEW n \in Nat, NEW offers, IsOffers(offers, n), NEW book \in Books(offers), NEW i \in 1..n,
           Kept(book, offers, i - 1)
    PROVE  Kept(TakeStep(book, offers, i), offers, i)
<1> DEFINE L == Len(book.taken)
<1>1. L \in Nat /\ book.taken \in Seq(Trades(offers)) /\ book.until \in Nat
  BY DEF Books
<1>2. ASSUME i \notin DOMAIN offers \/ i <= book.until
      PROVE  Kept(TakeStep(book, offers, i), offers, i)
  <2>1. TakeStep(book, offers, i) = book
    BY <1>2 DEF TakeStep
  <2>2. ASSUME i \in DOMAIN offers
        PROVE  \E k \in 1..L : book.taken[k].entry <= i /\ i <= book.taken[k].exit
    <3>1. book.until # 0 /\ i <= book.until
      BY <1>2, <2>2
    <3>2. L \in 1..L /\ book.until = book.taken[L].exit
      BY <1>1, <3>1 DEF Kept
    <3>3. book.taken[L].entry \in 1..(i - 1)
      BY <3>2 DEF Kept
    <3> QED
      BY <3>1, <3>2, <3>3
  <2>3. \A bar \in DOMAIN offers : bar <= i => bar = i \/ bar <= i - 1
    BY DEF IsOffers
  <2>4. \A bar \in DOMAIN offers : bar <= i =>
          \E k \in 1..L : book.taken[k].entry <= bar /\ bar <= book.taken[k].exit
    BY <2>2, <2>3 DEF Kept
  <2>5. \A k \in 1..L : book.taken[k].entry \in 1..i
    BY DEF Kept
  <2> QED
    BY <2>1, <2>4, <2>5 DEF Kept
<1>3. ASSUME i \in DOMAIN offers, ~(i <= book.until)
      PROVE  Kept(TakeStep(book, offers, i), offers, i)
  <2> DEFINE next == TakeStep(book, offers, i)
             taken == Append(book.taken, offers[i])
  <2>1. next.until = offers[i].exit /\ next.taken = taken
    BY <1>3 DEF TakeStep
  <2>2. offers[i] \in Trades(offers) /\ offers[i].entry = i /\ offers[i].exit \in Nat /\ i < offers[i].exit
    BY <1>3 DEF IsOffers, Trades
  <2>3. Len(taken) = L + 1 /\ taken[L + 1] = offers[i] /\ \A k \in 1..L : taken[k] = book.taken[k]
    BY <1>1, <2>2
  <2>4. taken # <<>>
    BY <1>1, <2>3
  <2> HIDE DEF taken
  <2>5. \A k \in 1..Len(taken) : k \in 1..L \/ k = L + 1
    BY <1>1, <2>3
  <2>6. \A k \in 1..L : /\ taken[k].entry \in 1..(i - 1) /\ taken[k].exit \in Nat
                        /\ taken[k].entry < taken[k].exit /\ taken[k].exit <= book.until
    BY <2>3 DEF Kept
  <2>7. \A k \in 1..L : taken[k].entry \in 1..i /\ taken[k].exit < i /\ taken[k].exit <= offers[i].exit
    <3> HIDE DEF L
    <3> QED
      BY <1>1, <1>3, <2>2, <2>6
  <2>8. \A k, m \in 1..L : k < m => taken[k].exit < taken[m].entry
    BY <2>3 DEF Kept
  <2>9. \A k, m \in 1..Len(taken) : k < m => taken[k].exit < taken[m].entry
    <3> SUFFICES ASSUME NEW k \in 1..Len(taken), NEW m \in 1..Len(taken), k < m
                 PROVE  taken[k].exit < taken[m].entry
      OBVIOUS
    <3>1. k \in 1..L
      BY <1>1, <2>3
    <3> QED
      BY <2>2, <2>3, <2>5, <2>7, <2>8, <3>1
  <2>10. \A bar \in DOMAIN offers : bar <= i =>
           \E k \in 1..Len(taken) : taken[k].entry <= bar /\ bar <= taken[k].exit
    <3> SUFFICES ASSUME NEW bar \in DOMAIN offers, bar <= i
                 PROVE  \E k \in 1..Len(taken) : taken[k].entry <= bar /\ bar <= taken[k].exit
      OBVIOUS
    <3>1. CASE bar = i
      <4>1. L + 1 \in 1..Len(taken)
        BY <1>1, <2>3
      <4> QED
        BY <2>2, <2>3, <3>1, <4>1
    <3>2. CASE bar # i
      <4>1. bar <= i - 1
        BY <3>2 DEF IsOffers
      <4>2. PICK k \in 1..L : book.taken[k].entry <= bar /\ bar <= book.taken[k].exit
        BY <4>1 DEF Kept
      <4>3. k \in 1..Len(taken)
        BY <1>1, <2>3
      <4> QED
        BY <2>3, <4>2, <4>3
    <3> QED
      BY <3>1, <3>2
  <2>11. \A k \in 1..Len(taken) :
           /\ taken[k].entry \in 1..i /\ taken[k].exit \in Nat
           /\ taken[k].entry < taken[k].exit /\ taken[k].exit <= offers[i].exit
    BY <2>2, <2>3, <2>5, <2>6, <2>7
  <2>12. offers[i].exit = taken[Len(taken)].exit
    BY <2>3
  <2> HIDE DEF next
  <2>13. Kept(next, offers, i)
    BY <2>1, <2>4, <2>9, <2>10, <2>11, <2>12 DEF Kept
  <2> QED
    BY <2>13 DEF next
<1> QED
  BY <1>2, <1>3

\* BookStands, of every book.
LEMMA BookStandsHolds ==
    ASSUME NEW n \in Nat, NEW offers, IsOffers(offers, n)
    PROVE  BookStands(BookWalk(offers, n)[n].taken, DOMAIN offers)
<1> DEFINE book == BookWalk(offers, n)
           T == {i \in 0..n : Kept(book[i], offers, i)}
<1>1. /\ book[0] = NoBook
      /\ \A i \in 1..n : book[i] = TakeStep(book[i - 1], offers, i)
      /\ \A i \in 0..n : book[i] \in Books(offers)
  BY BookIs
<1> HIDE DEF book
<1>2. Kept(NoBook, offers, 0)
  BY DEF Kept, NoBook, IsOffers
<1>3. 0 \in T
  BY <1>1, <1>2
<1>4. ASSUME NEW i \in 1..n, i - 1 \in T
      PROVE  i \in T
  BY <1>1, <1>4, TakeKeeps
<1> HIDE DEF T
<1>5. n \in T
  <2>1. n \in 0..n
    OBVIOUS
  <2> QED
    BY <1>3, <1>4, <2>1, Induction
<1>6. Kept(book[n], offers, n)
  BY <1>5 DEF T
<1>7. \A bar \in DOMAIN offers : bar <= n
  BY DEF IsOffers
<1> QED
  BY <1>6, <1>7 DEF Kept, BookStands, book

LEMMA FirstHitIs ==
    ASSUME NEW hits \in SUBSET Nat
    PROVE  /\ hits = {} => FirstBar(hits) = None
           /\ hits # {} => /\ FirstBar(hits) \in hits /\ FirstBar(hits) # None
                           /\ \A j \in hits : FirstBar(hits) <= j
<1>1. CASE hits = {}
  BY <1>1 DEF FirstBar
<1>2. CASE hits # {}
  <2>1. Least(hits) \in hits /\ \A j \in hits : Least(hits) <= j
    BY <1>2, LeastIs
  <2>2. FirstBar(hits) = Least(hits)
    <3>1. \A k \in hits : (\A j \in hits : k <= j) => k = Least(hits)
      <4> SUFFICES ASSUME NEW k \in hits, \A j \in hits : k <= j
                   PROVE  k = Least(hits)
        OBVIOUS
      <4>1. k <= Least(hits) /\ Least(hits) <= k
        BY <2>1
      <4>2. k \in Nat /\ Least(hits) \in Nat
        BY <2>1
      <4> QED
        BY <4>1, <4>2
    <3>2. Min(hits) = Least(hits)
      BY <2>1, <3>1 DEF Min
    <3> QED
      BY <1>2, <3>2 DEF FirstBar
  <2>3. Least(hits) # None
    <3>1. Least(hits) \in Nat
      BY <2>1
    <3> QED
      BY <3>1, NoneAssumption
  <2> QED
    BY <1>2, <2>1, <2>2, <2>3
<1> QED
  BY <1>1, <1>2

\* A trade ends after its bar, in time and within the data.
LEMMA ResolveEnds ==
    ASSUME NEW frame, Len(frame) \in Nat, NEW i \in 1..(Len(frame) - 1), NEW hold \in Nat \ {0},
           NEW side, NEW stop, NEW target
    PROVE  LET end == ResolveTrade(frame, i, side, stop, target, hold)
           IN  end.exit \in Nat /\ i < end.exit /\ end.exit <= Len(frame) /\ end.exit <= i + hold
<1> DEFINE N == Len(frame)
           last == LastHeld(frame, i, hold)
           Stops(j) == IF side = "BUY" THEN frame[j].low <= stop ELSE frame[j].high >= stop
           Reaches(j) == IF side = "BUY" THEN frame[j].high >= target ELSE frame[j].low <= target
           hits == {j \in (i + 1)..last : Stops(j) \/ Reaches(j)}
           hit == FirstBar(hits)
           end == ResolveTrade(frame, i, side, stop, target, hold)
<1>1. last \in Nat /\ i < last /\ last <= N /\ last <= i + hold
  BY DEF LastHeld, Min2
<1>2. end = CASE hit = None -> [exit |-> last, price |-> frame[last].close, outcome |-> "timeout"]
              [] hit # None /\ Stops(hit) -> [exit |-> hit, price |-> stop, outcome |-> "loss"]
              [] OTHER -> [exit |-> hit, price |-> target, outcome |-> "win"]
  BY DEF ResolveTrade
<1> HIDE DEF last, Stops, Reaches
<1>3. hits \in SUBSET Nat /\ hits \in SUBSET ((i + 1)..last)
  BY <1>1
<1> HIDE DEF hits
<1>4. hit = None \/ hit \in (i + 1)..last
  BY <1>3, FirstHitIs
<1> HIDE DEF hit, end
<1>5. end.exit = last \/ end.exit \in (i + 1)..last
  BY <1>2, <1>4
<1> HIDE DEF N
<1>6. end.exit \in Nat /\ i < end.exit /\ end.exit <= N /\ end.exit <= i + hold
  <2>1. N \in Nat
    BY DEF N
  <2>2. CASE end.exit = last
    BY <1>1, <2>2
  <2>3. CASE end.exit \in (i + 1)..last
    BY <1>1, <2>1, <2>3
  <2> QED
    BY <1>5, <2>2, <2>3
<1> QED
  BY <1>6 DEF N, end

\* With one more bar a trade ends as it did, unless the data had ended it.
Grown(frame, other) ==
    /\ Len(frame) \in Nat /\ Len(other) = Len(frame) - 1
    /\ \A k \in 1..Len(other) : other[k] = frame[k]

LEMMA ResolveGrows ==
    ASSUME NEW frame, NEW other, Grown(frame, other), NEW i \in 1..(Len(other) - 1),
           NEW hold \in Nat \ {0}, NEW side, NEW stop, NEW target
    PROVE  LET end == ResolveTrade(frame, i, side, stop, target, hold)
               cut == ResolveTrade(other, i, side, stop, target, hold)
           IN  \/ end = cut
               \/ /\ cut.outcome = "timeout" /\ cut.exit = Len(other) /\ cut.exit < i + hold
                  /\ end.exit = Len(frame)
<1> DEFINE N == Len(frame)
           M == Len(other)
           last == LastHeld(frame, i, hold)
           past == LastHeld(other, i, hold)
           Stops(f, j) == IF side = "BUY" THEN f[j].low <= stop ELSE f[j].high >= stop
           Reaches(f, j) == IF side = "BUY" THEN f[j].high >= target ELSE f[j].low <= target
           hits(f, n) == {j \in (i + 1)..n : Stops(f, j) \/ Reaches(f, j)}
           Ends(f, hit, n) == CASE hit = None -> [exit |-> n, price |-> f[n].close, outcome |-> "timeout"]
                                [] hit # None /\ Stops(f, hit) -> [exit |-> hit, price |-> stop, outcome |-> "loss"]
                                [] OTHER -> [exit |-> hit, price |-> target, outcome |-> "win"]
           new == hits(frame, last)
           old == hits(other, past)
           end == ResolveTrade(frame, i, side, stop, target, hold)
           cut == ResolveTrade(other, i, side, stop, target, hold)
<1>1. N \in Nat /\ M \in Nat /\ N = M + 1 /\ i \in Nat /\ i < M
  BY DEF Grown
<1>2. /\ last \in Nat /\ past \in Nat /\ i < past /\ past <= M
      /\ last = past \/ (past = M /\ last = N /\ past < i + hold)
  <2> HIDE DEF N, M
  <2> QED
    BY <1>1 DEF LastHeld, Min2, N, M
<1>3. end = Ends(frame, FirstBar(new), last) /\ cut = Ends(other, FirstBar(old), past)
  BY DEF ResolveTrade
<1>4. \A k \in 1..M : other[k] = frame[k]
  BY DEF Grown
<1>5. \A k \in 1..M : (Stops(other, k) <=> Stops(frame, k)) /\ (Reaches(other, k) <=> Reaches(frame, k))
  BY <1>4
<1>6. \A k \in 1..M : other[k].close = frame[k].close
  BY <1>4
<1> HIDE DEF end, cut, last, past, N, M, Stops, Reaches
<1>7. \A j \in (i + 1)..past : j \in 1..M /\ j \in (i + 1)..last
  BY <1>1, <1>2
<1>8. old \in SUBSET Nat /\ new \in SUBSET Nat
  BY <1>1
<1>9. \A j \in old : j \in new /\ j <= M
  BY <1>1, <1>5, <1>7
<1>10. \A j \in new : j \in old \/ (last # past /\ j = N)
  <2> SUFFICES ASSUME NEW j \in new
               PROVE  j \in old \/ (last # past /\ j = N)
    OBVIOUS
  <2>1. CASE j \in (i + 1)..past
    BY <1>5, <1>7, <2>1
  <2>2. CASE j \notin (i + 1)..past
    <3>1. j \in (i + 1)..last
      OBVIOUS
    <3> QED
      BY <1>1, <1>2, <2>2, <3>1
  <2> QED
    BY <2>1, <2>2
<1> HIDE DEF old, new
<1>11. CASE old # {}
  <2>1. FirstBar(old) \in old /\ FirstBar(old) # None /\ \A j \in old : FirstBar(old) <= j
    BY <1>8, <1>11, FirstHitIs
  <2>2. new # {}
    BY <1>9, <1>11
  <2>3. FirstBar(new) \in new /\ FirstBar(new) # None /\ \A j \in new : FirstBar(new) <= j
    BY <1>8, <2>2, FirstHitIs
  <2>4. FirstBar(new) <= FirstBar(old) /\ FirstBar(old) <= M
    BY <1>9, <2>1, <2>3
  <2>5. FirstBar(new) \in old
    <3>1. FirstBar(new) \in Nat /\ FirstBar(old) \in Nat
      BY <1>8, <2>1, <2>3
    <3>2. FirstBar(new) # N
      BY <1>1, <2>4, <3>1
    <3> QED
      BY <1>10, <2>3, <3>2
  <2>6. FirstBar(new) = FirstBar(old)
    <3>1. FirstBar(new) \in Nat /\ FirstBar(old) \in Nat
      BY <1>8, <2>1, <2>3
    <3> QED
      BY <2>1, <2>4, <2>5, <3>1
  <2> DEFINE hit == FirstBar(old)
  <2>7. hit \in 1..M
    BY <1>7, <2>1 DEF old
  <2>8. Stops(other, hit) <=> Stops(frame, hit)
    BY <1>5, <2>7
  <2>9. end = cut
    <3>1. FirstBar(new) = hit /\ FirstBar(old) = hit /\ hit # None
      BY <2>1, <2>6
    <3> HIDE DEF hit
    <3> QED
      BY <1>3, <2>8, <3>1
  <2> QED
    BY <2>9 DEF end, cut
<1>12. CASE old = {} /\ last = past
  <2>1. new = {}
    BY <1>10, <1>12
  <2>2. FirstBar(new) = None /\ FirstBar(old) = None
    BY <1>8, <1>12, <2>1, FirstHitIs
  <2>3. past \in 1..M
    BY <1>1, <1>2
  <2>4. end = cut
    BY <1>3, <1>4, <1>12, <2>2, <2>3
  <2> QED
    BY <2>4 DEF end, cut
<1>13. CASE old = {} /\ last # past
  <2>1. FirstBar(old) = None
    BY <1>8, <1>13, FirstHitIs
  <2>2. cut.outcome = "timeout" /\ cut.exit = past
    BY <1>3, <2>1
  <2>3. FirstBar(new) = None \/ FirstBar(new) = N
    BY <1>8, <1>10, <1>13, FirstHitIs
  <2>4. end.exit = last \/ end.exit = N
    BY <1>3, <2>3
  <2> QED
    BY <1>2, <1>13, <2>2, <2>4 DEF end, cut, N, M
<1> QED
  BY <1>11, <1>12, <1>13

LEMMA ContextGrows ==
    ASSUME NEW frame, NEW other, Grown(frame, other), frame \in Seq(MarketBar), other \in Seq(MarketBar),
           NEW i \in 1..Len(other)
    PROVE  Context(frame, i) = Context(other, i)
<1> DEFINE m == Max2(1, i - Window)
<1>1. m \in 1..i
  BY BacktestAssumption DEF Max2
<1>2. \A k \in m..i : k \in 1..Len(other) /\ k \in 1..Len(frame) /\ other[k] = frame[k]
  BY <1>1 DEF Grown
<1> HIDE DEF m
<1>3. \A k \in m..i : frame[k] \in MarketBar /\ other[k] \in MarketBar
  BY <1>2
<1> DEFINE new == SubSeq(frame, m, i)
           old == SubSeq(other, m, i)
<1>4. /\ new \in Seq(MarketBar) /\ Len(new) = i - m + 1
      /\ \A k \in 1..(i - m + 1) : new[k] = frame[m + k - 1]
  BY <1>1, <1>3, SubSeqProperties
<1>5. /\ old \in Seq(MarketBar) /\ Len(old) = i - m + 1
      /\ \A k \in 1..(i - m + 1) : old[k] = other[m + k - 1]
  BY <1>1, <1>3, SubSeqProperties
<1>6. \A k \in 1..(i - m + 1) : new[k] = old[k]
  <2> SUFFICES ASSUME NEW k \in 1..(i - m + 1)
               PROVE  new[k] = old[k]
    OBVIOUS
  <2>1. m + k - 1 \in m..i
    BY <1>1
  <2> QED
    BY <1>2, <1>4, <1>5, <2>1
<1>7. Context(frame, i) = new /\ Context(other, i) = old
  BY DEF Context, m
<1> HIDE DEF new, old
<1>8. new = old
  BY <1>4, <1>5, <1>6
<1> QED
  BY <1>7, <1>8

\* A trade of the longer history, after that of the shorter one.
GoesOn(trade, earlier, n) ==
    /\ trade.entry = earlier.entry /\ trade.side = earlier.side
    /\ trade = earlier \/ (CutShort(earlier) /\ earlier.exit = n - 1 /\ trade.exit = n)

\* What both histories offer.
OffersGrow(full, past, n) ==
    /\ IsOffers(full, n) /\ IsOffers(past, n - 1)
    /\ n - 1 \notin DOMAIN past
    /\ \A i \in 1..(n - 2) : i \in DOMAIN full <=> i \in DOMAIN past
    /\ \A i \in DOMAIN past : GoesOn(full[i], past[i], n)

\* The offers of a frame.
OfferedBy(offers, frame, reading, hold) ==
    /\ IsOffers(offers, Len(frame))
    /\ DOMAIN offers = {i \in (Warmup + 1)..(Len(frame) - 1) :
                          Analyze(Context(frame, i), reading).decision # "WAIT"}
    /\ \A i \in DOMAIN offers : offers[i] = TradeOf(frame, i, Analyze(Context(frame, i), reading), hold)

LEMMA OffersAre ==
    ASSUME NEW frame, Len(frame) \in Nat, NEW reading, NEW hold \in Nat \ {0}
    PROVE  OfferedBy(Offers(frame, reading, hold), frame, reading, hold)
<1> DEFINE signal(i) == Analyze(Context(frame, i), reading)
           decisive == {i \in (Warmup + 1)..(Len(frame) - 1) : signal(i).decision # "WAIT"}
           offers == Offers(frame, reading, hold)
<1>1. offers = [i \in decisive |-> TradeOf(frame, i, signal(i), hold)]
  BY DEF Offers
<1>2. \A i \in decisive : i \in 1..(Len(frame) - 1)
  BY BacktestAssumption
<1> HIDE DEF offers
<1>3. DOMAIN offers = decisive /\ \A i \in decisive : offers[i] = TradeOf(frame, i, signal(i), hold)
  <2> HIDE DEF decisive, signal
  <2> QED
    BY <1>1
<1>4. IsOffers(offers, Len(frame))
  <2> HIDE DEF signal, decisive
  <2>1. ASSUME NEW i \in decisive
        PROVE  offers[i].entry = i /\ offers[i].exit \in Nat /\ i < offers[i].exit
    <3> DEFINE s == signal(i)
               end == ResolveTrade(frame, i, s.decision, s.plan.stop, s.plan.target, hold)
    <3>1. offers[i].entry = i /\ offers[i].exit = end.exit
      BY <1>3 DEF TradeOf
    <3>2. end.exit \in Nat /\ i < end.exit
      <4> HIDE DEF s
      <4> QED
        BY <1>2, ResolveEnds
    <3> HIDE DEF end
    <3> QED
      BY <3>1, <3>2
  <2>2. decisive \subseteq 1..Len(frame)
    BY <1>2
  <2> QED
    BY <1>3, <2>1, <2>2 DEF IsOffers
<1> QED
  BY <1>3, <1>4 DEF offers, decisive, signal, OfferedBy

LEMMA TradeGoesOn ==
    ASSUME NEW frame, NEW other, Grown(frame, other), NEW i \in 1..(Len(other) - 1), NEW signal,
           study.maxHold \in Nat \ {0}
    PROVE  GoesOn(TradeOf(frame, i, signal, study.maxHold), TradeOf(other, i, signal, study.maxHold),
                  Len(frame))
<1> DEFINE hold == study.maxHold
           new == ResolveTrade(frame, i, signal.decision, signal.plan.stop, signal.plan.target, hold)
           old == ResolveTrade(other, i, signal.decision, signal.plan.stop, signal.plan.target, hold)
           trade == TradeOf(frame, i, signal, hold)
           earlier == TradeOf(other, i, signal, hold)
<1>1. /\ trade = [entry |-> i, side |-> signal.decision,
                  exit |-> new.exit, price |-> new.price, outcome |-> new.outcome]
      /\ earlier = [entry |-> i, side |-> signal.decision,
                    exit |-> old.exit, price |-> old.price, outcome |-> old.outcome]
  BY DEF TradeOf
<1>2. \/ new = old
      \/ old.outcome = "timeout" /\ old.exit = Len(other) /\ old.exit < i + hold /\ new.exit = Len(frame)
  BY ResolveGrows
<1>3. Len(other) = Len(frame) - 1
  BY DEF Grown
<1> HIDE DEF new, old, trade, earlier
<1>4. trade.entry = earlier.entry /\ trade.side = earlier.side
  BY <1>1
<1>5. CASE new = old
  BY <1>1, <1>4, <1>5 DEF GoesOn, trade, earlier
<1>6. CASE /\ old.outcome = "timeout" /\ old.exit = Len(other) /\ old.exit < i + hold
           /\ new.exit = Len(frame)
  <2>1. earlier.outcome = "timeout" /\ earlier.exit = Len(other) /\ earlier.entry = i
        /\ trade.exit = Len(frame)
    BY <1>1, <1>6
  <2>2. CutShort(earlier)
    BY <1>6, <2>1 DEF CutShort, hold
  <2>3. GoesOn(trade, earlier, Len(frame))
    BY <1>3, <1>4, <2>1, <2>2 DEF GoesOn
  <2> QED
    BY <2>3 DEF trade, earlier, hold
<1> QED
  BY <1>2, <1>5, <1>6

LEMMA HistoriesOffer ==
    ASSUME NEW frame, NEW other, Grown(frame, other), frame \in Seq(MarketBar), other \in Seq(MarketBar),
           NEW reading, study.maxHold \in Nat \ {0}
    PROVE  OffersGrow(Offers(frame, reading, study.maxHold), Offers(other, reading, study.maxHold), Len(frame))
<1> DEFINE N == Len(frame)
           hold == study.maxHold
           full == Offers(frame, reading, hold)
           past == Offers(other, reading, hold)
<1>1. N \in Nat /\ Len(other) \in Nat /\ Len(other) = N - 1
  BY DEF Grown
<1>2. OfferedBy(full, frame, reading, hold) /\ OfferedBy(past, other, reading, hold)
  BY <1>1, OffersAre
<1>3. /\ IsOffers(full, N) /\ IsOffers(past, N - 1)
      /\ DOMAIN full = {i \in (Warmup + 1)..(N - 1) : Analyze(Context(frame, i), reading).decision # "WAIT"}
      /\ DOMAIN past = {i \in (Warmup + 1)..(N - 2) : Analyze(Context(other, i), reading).decision # "WAIT"}
      /\ \A i \in DOMAIN full : full[i] = TradeOf(frame, i, Analyze(Context(frame, i), reading), hold)
      /\ \A i \in DOMAIN past : past[i] = TradeOf(other, i, Analyze(Context(other, i), reading), hold)
  <2> HIDE DEF full, past
  <2>1. Len(other) - 1 = N - 2
    BY <1>1
  <2> QED
    BY <1>1, <1>2, <2>1 DEF OfferedBy
<1>4. \A i \in 1..(N - 2) : Context(frame, i) = Context(other, i)
  BY <1>1, ContextGrows
<1> HIDE DEF full, past, N
<1>5. N - 1 \notin DOMAIN past
  BY <1>1, <1>3
<1>6. \A i \in 1..(N - 2) : i \in DOMAIN full <=> i \in DOMAIN past
  <2> SUFFICES ASSUME NEW i \in 1..(N - 2)
               PROVE  i \in DOMAIN full <=> i \in DOMAIN past
    OBVIOUS
  <2>1. Context(frame, i) = Context(other, i)
    BY <1>4
  <2>2. i \in (Warmup + 1)..(N - 1) <=> i \in (Warmup + 1)..(N - 2)
    BY <1>1, BacktestAssumption
  <2> QED
    BY <1>3, <2>1, <2>2
<1>7. \A i \in DOMAIN past : GoesOn(full[i], past[i], N)
  <2> SUFFICES ASSUME NEW i \in DOMAIN past
               PROVE  GoesOn(full[i], past[i], N)
    OBVIOUS
  <2>1. i \in 1..(N - 2)
    BY <1>1, <1>3, BacktestAssumption
  <2>2. i \in DOMAIN full /\ Context(frame, i) = Context(other, i)
    BY <1>4, <1>6, <2>1
  <2>3. i \in 1..(Len(other) - 1)
    BY <1>1, <2>1
  <2> DEFINE signal == Analyze(Context(frame, i), reading)
  <2>4. full[i] = TradeOf(frame, i, signal, hold) /\ past[i] = TradeOf(other, i, signal, hold)
    BY <1>3, <2>2
  <2> HIDE DEF signal
  <2>5. GoesOn(TradeOf(frame, i, signal, hold), TradeOf(other, i, signal, hold), N)
    BY <2>3, TradeGoesOn DEF N
  <2> QED
    BY <2>4, <2>5
<1>8. OffersGrow(full, past, N)
  BY <1>3, <1>5, <1>6, <1>7 DEF OffersGrow
<1> QED
  BY <1>8 DEF full, past, N

\* The two books, as long as both histories have the bars.
Alike(book, earlier, n) ==
    /\ Len(book.taken) = Len(earlier.taken)
    /\ \A k \in 1..Len(earlier.taken) : GoesOn(book.taken[k], earlier.taken[k], n)
    /\ book.until = earlier.until \/ (earlier.until = n - 1 /\ book.until = n)

LEMMA TakeAlike ==
    ASSUME NEW n \in Nat, NEW full, NEW past, OffersGrow(full, past, n), NEW i \in 1..(n - 2),
           NEW book \in Books(full), NEW earlier \in Books(past), Alike(book, earlier, n)
    PROVE  Alike(TakeStep(book, full, i), TakeStep(earlier, past, i), n)
<1>1. /\ book.until \in Nat /\ earlier.until \in Nat
      /\ book.taken \in Seq(Trades(full)) /\ earlier.taken \in Seq(Trades(past))
  BY DEF Books
<1>2. i <= book.until <=> i <= earlier.until
  BY <1>1 DEF Alike
<1>3. i \in DOMAIN full <=> i \in DOMAIN past
  BY DEF OffersGrow
<1>4. CASE i \notin DOMAIN past \/ i <= earlier.until
  <2>1. TakeStep(book, full, i) = book /\ TakeStep(earlier, past, i) = earlier
    BY <1>2, <1>3, <1>4 DEF TakeStep
  <2> QED
    BY <2>1
<1>5. CASE i \in DOMAIN past /\ ~(i <= earlier.until)
  <2> DEFINE new == Append(book.taken, full[i])
             old == Append(earlier.taken, past[i])
             L == Len(earlier.taken)
  <2>1. /\ TakeStep(book, full, i) = [until |-> full[i].exit, taken |-> new]
        /\ TakeStep(earlier, past, i) = [until |-> past[i].exit, taken |-> old]
    BY <1>2, <1>3, <1>5 DEF TakeStep
  <2>2. GoesOn(full[i], past[i], n)
    BY <1>5 DEF OffersGrow
  <2>3. full[i] \in Trades(full) /\ past[i] \in Trades(past)
    BY <1>3, <1>5 DEF Trades
  <2>4. Len(book.taken) = L /\ L \in Nat
    BY <1>1 DEF Alike
  <2>5. /\ Len(new) = L + 1 /\ new[L + 1] = full[i] /\ \A k \in 1..L : new[k] = book.taken[k]
        /\ Len(old) = L + 1 /\ old[L + 1] = past[i] /\ \A k \in 1..L : old[k] = earlier.taken[k]
    BY <1>1, <2>3, <2>4
  <2> HIDE DEF new, old
  <2>6. \A k \in 1..L : GoesOn(new[k], old[k], n)
    BY <2>5 DEF Alike
  <2> HIDE DEF L
  <2>7. \A k \in 1..(L + 1) : GoesOn(new[k], old[k], n)
    BY <2>2, <2>4, <2>5, <2>6
  <2>8. full[i].exit = past[i].exit \/ (past[i].exit = n - 1 /\ full[i].exit = n)
    BY <2>2 DEF GoesOn
  <2> QED
    BY <2>1, <2>5, <2>7, <2>8 DEF Alike
<1> QED
  BY <1>4, <1>5

\* A step changes no trade that was taken before it.
StartsWith(taken, before) ==
    /\ Len(before) \in Nat /\ Len(taken) \in Nat /\ Len(before) <= Len(taken)
    /\ \A k \in 1..Len(before) : taken[k] = before[k]

LEMMA TakeKeepsTrades ==
    ASSUME NEW offers, NEW book \in Books(offers), NEW i
    PROVE  StartsWith(TakeStep(book, offers, i).taken, book.taken)
<1>1. book.taken \in Seq(Trades(offers))
  BY DEF Books
<1>2. CASE i \notin DOMAIN offers \/ i <= book.until
  <2>1. TakeStep(book, offers, i) = book
    BY <1>2 DEF TakeStep
  <2> QED
    BY <1>1, <2>1 DEF StartsWith
<1>3. CASE i \in DOMAIN offers /\ ~(i <= book.until)
  <2>1. TakeStep(book, offers, i).taken = Append(book.taken, offers[i])
    BY <1>3 DEF TakeStep
  <2>2. offers[i] \in Trades(offers)
    BY <1>3 DEF Trades
  <2> QED
    BY <1>1, <2>1, <2>2 DEF StartsWith
<1> QED
  BY <1>2, <1>3

\* TradesStand, of the books of both histories.
LEMMA BooksGrow ==
    ASSUME NEW n \in Nat \ {0}, NEW full, NEW past, OffersGrow(full, past, n)
    PROVE  TradesStand(BookWalk(past, n - 1)[n - 1].taken, BookWalk(full, n)[n].taken)
<1> DEFINE book == BookWalk(full, n)
           earlier == BookWalk(past, n - 1)
<1>1. /\ book[0] = NoBook
      /\ \A i \in 1..n : book[i] = TakeStep(book[i - 1], full, i)
      /\ \A i \in 0..n : book[i] \in Books(full)
  BY BookIs DEF OffersGrow
<1>2. n - 1 \in Nat
  OBVIOUS
<1>3. /\ earlier[0] = NoBook
      /\ \A i \in 1..(n - 1) : earlier[i] = TakeStep(earlier[i - 1], past, i)
      /\ \A i \in 0..(n - 1) : earlier[i] \in Books(past)
  BY <1>2, BookIs DEF OffersGrow
<1> HIDE DEF book, earlier
<1>4. CASE n = 1
  <2>1. earlier[n - 1].taken = <<>>
    BY <1>3, <1>4 DEF NoBook
  <2>2. book[n] \in Books(full)
    BY <1>1
  <2>3. Len(book[n].taken) \in Nat
    BY <2>2 DEF Books
  <2>4. TradesStand(earlier[n - 1].taken, book[n].taken)
    BY <2>1, <2>3 DEF TradesStand
  <2> QED
    BY <2>4 DEF book, earlier
<1>5. CASE n # 1
  <2> DEFINE T == {i \in 0..(n - 2) : Alike(book[i], earlier[i], n)}
  <2>1. n - 2 \in Nat
    BY <1>5
  <2>2. 0 \in T
    <3>1. Alike(NoBook, NoBook, n)
      BY DEF Alike, NoBook
    <3> QED
      BY <1>1, <1>3, <2>1, <3>1
  <2>3. ASSUME NEW i \in 1..(n - 2), i - 1 \in T
        PROVE  i \in T
    <3>1. /\ book[i] = TakeStep(book[i - 1], full, i) /\ earlier[i] = TakeStep(earlier[i - 1], past, i)
          /\ book[i - 1] \in Books(full) /\ earlier[i - 1] \in Books(past)
      BY <1>1, <1>3
    <3>2. Alike(book[i - 1], earlier[i - 1], n)
      BY <2>3
    <3>3. Alike(TakeStep(book[i - 1], full, i), TakeStep(earlier[i - 1], past, i), n)
      BY <3>1, <3>2, TakeAlike
    <3> QED
      BY <3>1, <3>3
  <2> HIDE DEF T
  <2>4. n - 2 \in T
    <3>1. n - 2 \in 0..(n - 2)
      BY <2>1
    <3> QED
      BY <2>1, <2>2, <2>3, <3>1, Induction
  <2>5. Alike(book[n - 2], earlier[n - 2], n)
    BY <2>4 DEF T
  <2>6. earlier[n - 1] = earlier[n - 2]
    <3>1. n - 1 \in 1..(n - 1) /\ (n - 1) - 1 = n - 2
      BY <2>1
    <3>2. earlier[n - 1] = TakeStep(earlier[n - 2], past, n - 1)
      BY <1>3, <3>1
    <3>3. n - 1 \notin DOMAIN past
      BY DEF OffersGrow
    <3> QED
      BY <3>2, <3>3 DEF TakeStep
  <2> DEFINE a == book[n - 2].taken
             b == book[n - 1].taken
             c == book[n].taken
             d == earlier[n - 2].taken
  <2>7. StartsWith(b, a)
    <3>1. n - 1 \in 1..n /\ (n - 1) - 1 = n - 2 /\ n - 2 \in 0..n
      BY <2>1
    <3>2. book[n - 2] \in Books(full) /\ book[n - 1] = TakeStep(book[n - 2], full, n - 1)
      BY <1>1, <3>1
    <3> QED
      BY <3>2, TakeKeepsTrades
  <2>8. StartsWith(c, b)
    <3>1. n \in 1..n /\ n - 1 \in 0..n
      BY <2>1
    <3>2. book[n - 1] \in Books(full) /\ book[n] = TakeStep(book[n - 1], full, n)
      BY <1>1, <3>1
    <3> QED
      BY <3>2, TakeKeepsTrades
  <2>9. Len(a) = Len(d) /\ \A k \in 1..Len(d) : GoesOn(a[k], d[k], n)
    BY <2>5 DEF Alike
  <2> HIDE DEF a, b, c, d
  <2>10. Len(d) <= Len(c) /\ \A k \in 1..Len(d) : GoesOn(c[k], d[k], n)
    <3>1. \A k \in 1..Len(a) : k \in 1..Len(b) /\ b[k] = a[k]
      BY <2>7 DEF StartsWith
    <3>2. \A k \in 1..Len(a) : c[k] = a[k]
      BY <2>8, <3>1 DEF StartsWith
    <3> QED
      BY <2>7, <2>8, <2>9, <3>2 DEF StartsWith
  <2>11. \A k \in 1..Len(d) : /\ c[k].entry = d[k].entry /\ c[k].side = d[k].side
                              /\ CutShort(d[k]) \/ c[k] = d[k]
    BY <2>10 DEF GoesOn
  <2>12. TradesStand(d, c)
    BY <2>10, <2>11 DEF TradesStand
  <2> QED
    BY <2>6, <2>12 DEF book, earlier, c, d
<1> QED
  BY <1>4, <1>5

\* BacktestStands: with one more candle both backtests make the same trades
\* first, those that were over unchanged; they hold one position at a time and
\* pass over no signal but for one they hold (Backtester.run, _resolve_trade and
\* outcome_backtest._simulate).
THEOREM BacktestStandsHolds == Spec => []BacktestStands
<1>1. IInv => BacktestStands
  <2> SUFFICES ASSUME IInv, IsMarket, bars # <<>>
               PROVE  BacktestStands
    BY DEF BacktestStands
  <2> DEFINE N == Len(bars)
             hold == study.maxHold
             full == Offers(bars, study.reading, hold)
             past == Offers(Front(bars), study.reading, hold)
             held == [bar \in Candidates(bars) |-> [entry |-> bar, exit |-> bar + hold]]
  <2>1. bars \in Seq(MarketBar) /\ N \in Nat \ {0}
    BY DEF IInv
  <2>2. hold \in Nat \ {0}
    <3>1. study \in MarketStudies
      BY StudyKinds DEF IInv, IsMarket
    <3>2. hold = Max(Holds)
      BY <3>1 DEF MarketStudies
    <3>3. PICK longest \in Holds : \A other \in Holds : other <= longest
      BY ResearchAssumption
    <3>4. Max(Holds) \in Holds
      BY <3>3 DEF Max
    <3> QED
      BY <3>2, <3>4, ResearchAssumption
  <2>3. Front(bars) \in Seq(MarketBar) /\ Grown(bars, Front(bars)) /\ Len(Front(bars)) = N - 1
    <3> DEFINE front == SubSeq(bars, 1, N - 1)
    <3>1. \A k \in 1..(N - 1) : bars[k] \in MarketBar
      BY <2>1
    <3>2. /\ front \in Seq(MarketBar)
          /\ Len(front) = IF 1 <= N - 1 THEN (N - 1) - 1 + 1 ELSE 0
          /\ \A k \in 1..((N - 1) - 1 + 1) : front[k] = bars[1 + k - 1]
      BY <2>1, <3>1, SubSeqProperties
    <3>3. front = Front(bars)
      BY DEF Front
    <3> HIDE DEF front
    <3>4. Len(front) = N - 1 /\ \A k \in 1..(N - 1) : front[k] = bars[k]
      <4> HIDE DEF N
      <4>1. (N - 1) - 1 + 1 = N - 1 /\ N - 1 \in Nat
        BY <2>1
      <4>2. Len(front) = N - 1
        BY <3>2, <4>1
      <4>3. ASSUME NEW k \in 1..(N - 1)
            PROVE  front[k] = bars[k]
        <5>1. k \in 1..((N - 1) - 1 + 1) /\ 1 + k - 1 = k
          BY <4>1
        <5> QED
          BY <3>2, <5>1
      <4> QED
        BY <4>2, <4>3
    <3> QED
      BY <2>1, <3>2, <3>3, <3>4 DEF Grown
  <2>4. OffersGrow(full, past, N)
    BY <2>1, <2>2, <2>3, HistoriesOffer
  <2>5. TradesStand(RunBacktest(Front(bars), study.reading, hold), RunBacktest(bars, study.reading, hold))
    <3> HIDE DEF full, past, N, hold
    <3>1. TradesStand(BookWalk(past, N - 1)[N - 1].taken, BookWalk(full, N)[N].taken)
      BY <2>1, <2>4, BooksGrow
    <3> QED
      BY <2>3, <3>1 DEF RunBacktest, full, past, N
  <2>6. BookStands(RunBacktest(bars, study.reading, hold), DOMAIN full)
    <3>1. IsOffers(full, N)
      BY <2>4 DEF OffersGrow
    <3> HIDE DEF full, N, hold
    <3>2. BookStands(BookWalk(full, N)[N].taken, DOMAIN full)
      BY <2>1, <3>1, BookStandsHolds
    <3> QED
      BY <3>2 DEF RunBacktest, full, N
  <2>7. BookStands(Simulate(Candidates(bars), N, hold), Candidates(bars))
    <3>1. Candidates(bars) \subseteq 1..N
      BY DEF Candidates
    <3> HIDE DEF N, hold
    <3>2. DOMAIN held = Candidates(bars)
      OBVIOUS
    <3>3. IsOffers(held, N)
      BY <2>1, <2>2, <3>1 DEF IsOffers
    <3> HIDE DEF held
    <3>4. BookStands(BookWalk(held, N)[N].taken, Candidates(bars))
      BY <2>1, <3>2, <3>3, BookStandsHolds
    <3> QED
      BY <3>4 DEF Simulate, held
  <2> QED
    BY <2>5, <2>6, <2>7 DEF BacktestStands
<1> QED
  BY <1>1, ResearchInvariant, PTL

-----------------------------------------------------------------------------
(* The market upside down *)

\* A candle and the same one upside down.
Mirrors(b, m) ==
    /\ b \in MarketBar /\ m \in MarketBar
    /\ m.open = Ceiling - b.open /\ m.close = Ceiling - b.close
    /\ m.high = Ceiling - b.low /\ m.low = Ceiling - b.high

\* Two markets of which each is the other upside down.
Turned(f, g) ==
    /\ f \in Seq(MarketBar) /\ g \in Seq(MarketBar)
    /\ Len(f) \in Nat /\ Len(g) = Len(f)
    /\ \A k \in 1..Len(f) : Mirrors(f[k], g[k])

LEMMA MirrorsBack ==
    ASSUME NEW b, NEW m, Mirrors(b, m)
    PROVE  Mirrors(m, b)
<1>1. /\ b.open \in Int /\ b.close \in Int /\ b.high \in Int /\ b.low \in Int /\ Ceiling \in Int
  BY ResearchAssumption DEF Mirrors, MarketBar
<1> QED
  BY <1>1 DEF Mirrors

LEMMA TurnedBack ==
    ASSUME NEW f, NEW g, Turned(f, g)
    PROVE  Turned(g, f)
BY MirrorsBack DEF Turned

LEMMA InvertedIsTurned ==
    ASSUME NEW f \in Seq(MarketBar)
    PROVE  Turned(f, Inverted(f))
<1> DEFINE g == Inverted(f)
<1>1. Len(f) \in Nat
  OBVIOUS
<1>2. ASSUME NEW k \in 1..Len(f)
      PROVE  Mirrors(f[k], g[k])
  <2> DEFINE b == f[k]
  <2>1. b \in MarketBar
    OBVIOUS
  <2>2. g[k] = Shape(Ceiling - b.open, Ceiling - b.low, Ceiling - b.high, Ceiling - b.close)
    BY DEF Inverted
  <2>3. Most = Ceiling - 1 /\ Ceiling \in Nat
    BY ResearchAssumption DEF Most
  <2> HIDE DEF b, g
  <2>4. /\ b.open \in 1..Most /\ b.low \in 1..Most /\ b.high \in 1..Most /\ b.close \in 1..Most
        /\ IsCandle(b) /\ b.low <= b.open /\ b.open <= b.high
    BY <2>1 DEF MarketBar
  <2>5. /\ Ceiling - b.open \in 1..Most /\ Ceiling - b.low \in 1..Most
        /\ Ceiling - b.high \in 1..Most /\ Ceiling - b.close \in 1..Most
    BY <2>3, <2>4
  <2>6. /\ g[k].open = Ceiling - b.open /\ g[k].high = Ceiling - b.low
        /\ g[k].low = Ceiling - b.high /\ g[k].close = Ceiling - b.close
        /\ g[k] \in [open : 1..Most, low : 1..Most, high : 1..Most, close : 1..Most]
    BY <2>2, <2>5 DEF Shape
  <2>7. IsCandle(g[k]) /\ g[k].low <= g[k].open /\ g[k].open <= g[k].high
    <3>1. b.low <= b.close /\ b.close <= b.high /\ b.low <= b.high
      BY <2>4 DEF IsCandle
    <3>2. /\ Ceiling - b.high <= Ceiling - b.close /\ Ceiling - b.close <= Ceiling - b.low
          /\ Ceiling - b.high <= Ceiling - b.low
          /\ Ceiling - b.high <= Ceiling - b.open /\ Ceiling - b.open <= Ceiling - b.low
      BY <2>3, <2>4, <3>1
    <3> QED
      BY <2>6, <3>2 DEF IsCandle
  <2>8. g[k] \in MarketBar
    BY <2>6, <2>7 DEF MarketBar
  <2> QED
    BY <2>1, <2>6, <2>8 DEF Mirrors, b
<1>3. g = [k \in 1..Len(f) |-> g[k]] /\ \A k \in 1..Len(f) : g[k] \in MarketBar
  BY <1>2 DEF Inverted, Mirrors
<1> HIDE DEF g
<1>4. g \in [1..Len(f) -> MarketBar]
  BY <1>3
<1>5. g \in Seq(MarketBar) /\ Len(g) = Len(f)
  BY <1>1, <1>4
<1> QED
  BY <1>1, <1>2, <1>5 DEF Turned, g

\* What is above in the one is below in the other.
LEMMA AnatomyTurns ==
    ASSUME NEW b, NEW m, Mirrors(b, m)
    PROVE  /\ Span(m) = Span(b) /\ Body(m) = Body(b)
           /\ Upper(m) = Lower(b) /\ Lower(m) = Upper(b)
           /\ Top(m) = Ceiling - Bottom(b) /\ Bottom(m) = Ceiling - Top(b)
           /\ Bull(m) = Bear(b) /\ Bear(m) = Bull(b)
<1>1. /\ b.open \in Int /\ b.close \in Int /\ b.high \in Int /\ b.low \in Int /\ Ceiling \in Int
      /\ m.open = Ceiling - b.open /\ m.close = Ceiling - b.close
      /\ m.high = Ceiling - b.low /\ m.low = Ceiling - b.high
  BY ResearchAssumption DEF Mirrors, MarketBar
<1>2. Span(m) = Span(b) /\ Body(m) = Body(b)
  BY <1>1 DEF Span, Body, Abs
<1>3. Top(m) = Ceiling - Bottom(b) /\ Bottom(m) = Ceiling - Top(b)
  BY <1>1 DEF Top, Bottom, Max2, Min2
<1>4. Top(b) \in Int /\ Bottom(b) \in Int
  BY <1>1 DEF Top, Bottom, Max2, Min2
<1>5. Upper(m) = Lower(b) /\ Lower(m) = Upper(b)
  BY <1>1, <1>3, <1>4 DEF Upper, Lower
<1>6. Bull(m) = Bear(b) /\ Bear(m) = Bull(b)
  BY <1>1 DEF Bull, Bear
<1> QED
  BY <1>2, <1>3, <1>5, <1>6

LEMMA PartsTurn ==
    ASSUME NEW b, NEW m, Mirrors(b, m)
    PROVE  /\ \A part, percent : AtLeast(part, percent, m) = AtLeast(part, percent, b)
           /\ \A part, percent : AtMost(part, percent, m) = AtMost(part, percent, b)
           /\ \A percent : SmallBody(percent, m) = SmallBody(percent, b)
           /\ LongBody(m) = LongBody(b) /\ Doji(m) = Doji(b) /\ DojiBefore(m) = DojiBefore(b)
BY AnatomyTurns DEF AtLeast, AtMost, SmallBody, LongBody, Doji, DojiBefore

\* The names of a pattern and of its twin.
Twinned(P, Q) ==
    \A pair \in Twins : /\ pair[1] \in P => pair[2] \in Q
                        /\ pair[2] \in P => pair[1] \in Q

LEMMA TwinsAreUnique ==
    \A s, t \in Twins : /\ s[1] = t[1] => s = t
                        /\ s[2] = t[2] => s = t
                        /\ s[1] # t[2]
BY DEF Twins

LEMMA TwinIs ==
    ASSUME NEW pair \in Twins
    PROVE  /\ pair[1] \in Directed /\ pair[2] \in Directed
           /\ TwinOf[pair[1]] = pair[2] /\ TwinOf[pair[2]] = pair[1]
<1>1. pair[1] \in Directed /\ pair[2] \in Directed
  BY DEF Directed
<1>2. \A t \in Twins : t = <<t[1], t[2]>>
  BY DEF Twins
<1>3. ASSUME NEW name \in Directed, NEW twin \in Directed,
             (name = pair[1] /\ twin = pair[2]) \/ (name = pair[2] /\ twin = pair[1])
      PROVE  TwinOf[name] = twin
  <2> DEFINE Fits(t) == {<<name, t>>, <<t, name>>} \cap Twins # {}
  <2>1. TwinOf[name] = CHOOSE t \in Directed : Fits(t)
    BY DEF TwinOf
  <2>2. Fits(twin)
    BY <1>2, <1>3
  <2>3. ASSUME NEW t \in Directed, Fits(t)
        PROVE  t = twin
    <3>1. PICK s \in Twins : s = <<name, t>> \/ s = <<t, name>>
      BY <2>3
    <3>2. (s[1] = name /\ s[2] = t) \/ (s[1] = t /\ s[2] = name)
      BY <3>1
    <3> QED
      BY <1>3, <3>2, TwinsAreUnique
  <2> HIDE DEF Fits
  <2> QED
    BY <2>1, <2>2, <2>3
<1> QED
  BY <1>1, <1>3

\* Each pattern of one market is its twin of the other.
LEMMA NamesSwap ==
    ASSUME NEW P, NEW Q, Twinned(P, Q), Twinned(Q, P)
    PROVE  Q \cap Directed = SwapNames(P)
<1>1. ASSUME NEW x \in Q \cap Directed
      PROVE  x \in SwapNames(P)
  <2>1. PICK pair \in Twins : x = pair[1] \/ x = pair[2]
    BY DEF Directed
  <2>2. CASE x = pair[1]
    BY <2>2, TwinIs DEF SwapNames, Twinned
  <2>3. CASE x = pair[2]
    BY <2>3, TwinIs DEF SwapNames, Twinned
  <2> QED
    BY <2>1, <2>2, <2>3
<1>2. ASSUME NEW x \in SwapNames(P)
      PROVE  x \in Q \cap Directed
  <2>1. PICK y \in P \cap Directed : x = TwinOf[y]
    BY DEF SwapNames
  <2>2. PICK pair \in Twins : y = pair[1] \/ y = pair[2]
    BY DEF Directed
  <2>3. CASE y = pair[1]
    BY <2>1, <2>3, TwinIs DEF Twinned
  <2>4. CASE y = pair[2]
    BY <2>1, <2>4, TwinIs DEF Twinned
  <2> QED
    BY <2>2, <2>3, <2>4
<1> QED
  BY <1>1, <1>2

LEMMA PricesTurn ==
    ASSUME NEW b, NEW m, Mirrors(b, m)
    PROVE  /\ b.open \in Int /\ b.close \in Int /\ b.high \in Int /\ b.low \in Int /\ Ceiling \in Int
           /\ m.open = Ceiling - b.open /\ m.close = Ceiling - b.close
           /\ m.high = Ceiling - b.low /\ m.low = Ceiling - b.high
           /\ b.low <= b.close /\ b.close <= b.high /\ b.low <= b.open /\ b.open <= b.high
           /\ Top(b) \in Int /\ Bottom(b) \in Int /\ Body(b) \in Int /\ Span(b) \in Int
BY ResearchAssumption DEF Mirrors, MarketBar, IsCandle, Top, Bottom, Body, Span, Abs, Max2, Min2

LEMMA CoreSingleTurns ==
    ASSUME NEW b, NEW m, Mirrors(b, m)
    PROVE  Twinned(CoreSingle(b), CoreSingle(m)) /\ ("doji" \in CoreSingle(b) => "doji" \in CoreSingle(m))
<1>1. "doji" \in CoreSingle(b) => "doji" \in CoreSingle(m)
  BY PartsTurn DEF CoreSingle, Fired
<1>2. /\ "pin_bull" \in CoreSingle(b) => "pin_bear" \in CoreSingle(m)
      /\ "pin_bear" \in CoreSingle(b) => "pin_bull" \in CoreSingle(m)
      /\ "dragonfly_doji" \in CoreSingle(b) => "gravestone_doji" \in CoreSingle(m)
      /\ "gravestone_doji" \in CoreSingle(b) => "dragonfly_doji" \in CoreSingle(m)
  BY AnatomyTurns, PartsTurn DEF CoreSingle, Fired
<1>3. CoreSingle(b) \subseteq {"doji", "dragonfly_doji", "gravestone_doji", "pin_bull", "pin_bear"}
  BY DEF CoreSingle, Fired
<1> QED
  BY <1>1, <1>2, <1>3 DEF Twinned, Twins

LEMMA CoreDoubleTurns ==
    ASSUME NEW p, NEW o, Mirrors(p, o), NEW b, NEW m, Mirrors(b, m)
    PROVE  /\ Twinned(CoreDouble(p, b), CoreDouble(o, m))
           /\ "inside_bar" \in CoreDouble(p, b) => "inside_bar" \in CoreDouble(o, m)
<1>0. Inside(m, o) = Inside(b, p)
  BY AnatomyTurns, PricesTurn DEF Inside
<1>1. "inside_bar" \in CoreDouble(p, b) => "inside_bar" \in CoreDouble(o, m)
  BY PricesTurn DEF CoreDouble, Fired
<1>2. /\ "engulf_bull" \in CoreDouble(p, b) => "engulf_bear" \in CoreDouble(o, m)
      /\ "engulf_bear" \in CoreDouble(p, b) => "engulf_bull" \in CoreDouble(o, m)
  BY AnatomyTurns, PricesTurn DEF CoreDouble, Fired
<1>3. /\ "harami_bull" \in CoreDouble(p, b) => "harami_bear" \in CoreDouble(o, m)
      /\ "harami_bear" \in CoreDouble(p, b) => "harami_bull" \in CoreDouble(o, m)
  BY <1>0, AnatomyTurns DEF CoreDouble, Fired
<1>4. /\ "tweezer_top" \in CoreDouble(p, b) => "tweezer_bottom" \in CoreDouble(o, m)
      /\ "tweezer_bottom" \in CoreDouble(p, b) => "tweezer_top" \in CoreDouble(o, m)
  BY AnatomyTurns, PricesTurn DEF CoreDouble, Fired
<1>5. CoreDouble(p, b) \subseteq {"engulf_bull", "engulf_bear", "harami_bull", "harami_bear", "inside_bar",
                                  "tweezer_top", "tweezer_bottom"}
  BY DEF CoreDouble, Fired
<1> QED
  BY <1>1, <1>2, <1>3, <1>4, <1>5 DEF Twinned, Twins

LEMMA CoreTripleTurns ==
    ASSUME NEW q, NEW r, Mirrors(q, r), NEW p, NEW o, Mirrors(p, o), NEW b, NEW m, Mirrors(b, m)
    PROVE  Twinned(CoreTriple(q, p, b), CoreTriple(r, o, m))
<1>1. /\ "morning_star" \in CoreTriple(q, p, b) => "evening_star" \in CoreTriple(r, o, m)
      /\ "evening_star" \in CoreTriple(q, p, b) => "morning_star" \in CoreTriple(r, o, m)
  BY AnatomyTurns, PricesTurn DEF CoreTriple, Fired, SmallMiddle
<1>2. CoreTriple(q, p, b) \subseteq {"morning_star", "evening_star"}
  BY DEF CoreTriple, Fired
<1> QED
  BY <1>1, <1>2 DEF Twinned, Twins

LEMMA CorePatternsTurn ==
    ASSUME NEW f, NEW g, Turned(f, g), NEW i \in 1..Len(f)
    PROVE  /\ Twinned(CorePatterns(f, i), CorePatterns(g, i))
           /\ CorePatterns(f, i) # {} => CorePatterns(g, i) # {}
<1>1. /\ Mirrors(f[i], g[i])
      /\ i > 1 => Mirrors(f[i - 1], g[i - 1])
      /\ i > 2 => Mirrors(f[i - 2], g[i - 2])
  BY DEF Turned
<1> DEFINE F == CoreSingle(f[i])
           G == CoreSingle(g[i])
           F2 == IF i > 1 THEN CoreDouble(f[i - 1], f[i]) ELSE {}
           G2 == IF i > 1 THEN CoreDouble(g[i - 1], g[i]) ELSE {}
           F3 == IF i > 2 THEN CoreTriple(f[i - 2], f[i - 1], f[i]) ELSE {}
           G3 == IF i > 2 THEN CoreTriple(g[i - 2], g[i - 1], g[i]) ELSE {}
<1>2. Twinned(F, G) /\ ("doji" \in F => "doji" \in G)
  BY <1>1, CoreSingleTurns
<1>3. Twinned(F2, G2) /\ ("inside_bar" \in F2 => "inside_bar" \in G2)
  BY <1>1, CoreDoubleTurns DEF Twinned
<1>4. Twinned(F3, G3)
  <2>1. i > 2 => i > 1
    OBVIOUS
  <2> QED
    BY <1>1, <2>1, CoreTripleTurns DEF Twinned
<1>5. F \subseteq Directed \cup {"doji"} /\ F2 \subseteq Directed \cup {"inside_bar"} /\ F3 \subseteq Directed
  <2>1. \A name \in {"dragonfly_doji", "gravestone_doji", "pin_bull", "pin_bear", "engulf_bull", "engulf_bear",
                     "harami_bull", "harami_bear", "tweezer_top", "tweezer_bottom", "morning_star",
                     "evening_star"} : name \in Directed
    BY DEF Directed, Twins
  <2>2. F \subseteq {"doji", "dragonfly_doji", "gravestone_doji", "pin_bull", "pin_bear"}
    BY DEF CoreSingle, Fired
  <2>3. F2 \subseteq {"engulf_bull", "engulf_bear", "harami_bull", "harami_bear", "inside_bar",
                      "tweezer_top", "tweezer_bottom"}
    BY DEF CoreDouble, Fired
  <2>4. F3 \subseteq {"morning_star", "evening_star"}
    BY DEF CoreTriple, Fired
  <2> HIDE DEF F, F2, F3
  <2> QED
    BY <2>1, <2>2, <2>3, <2>4
<1>6. CorePatterns(f, i) = F \cup F2 \cup F3 /\ CorePatterns(g, i) = G \cup G2 \cup G3
  BY DEF CorePatterns
<1> HIDE DEF F, G, F2, G2, F3, G3
<1>7. Twinned(CorePatterns(f, i), CorePatterns(g, i))
  BY <1>2, <1>3, <1>4, <1>6 DEF Twinned
<1>8. ASSUME NEW x \in CorePatterns(f, i)
      PROVE  CorePatterns(g, i) # {}
  <2>1. CASE x \in Directed
    BY <1>7, <1>8, <2>1 DEF Directed, Twinned
  <2>2. CASE x \notin Directed
    <3>1. x \in F \cup F2 /\ (x \in F => x = "doji") /\ (x \in F2 => x = "inside_bar")
      BY <1>5, <1>6, <1>8, <2>2
    <3> QED
      BY <1>2, <1>3, <1>6, <3>1
  <2> QED
    BY <2>1, <2>2
<1> QED
  BY <1>7, <1>8

\* What a candle and the same one upside down have in common: their prices,
Priced(b, m) ==
    /\ b.open \in Int /\ b.close \in Int /\ b.high \in Int /\ b.low \in Int /\ Ceiling \in Int
    /\ m.open = Ceiling - b.open /\ m.close = Ceiling - b.close
    /\ m.high = Ceiling - b.low /\ m.low = Ceiling - b.high

\* and their shapes.
Likened(b, m) ==
    /\ (Bull(m) <=> Bear(b)) /\ (Bear(m) <=> Bull(b))
    /\ (LongBody(m) <=> LongBody(b)) /\ (Doji(m) <=> Doji(b)) /\ (DojiBefore(m) <=> DojiBefore(b))
    /\ (AtLeast(Body(m), 90, m) <=> AtLeast(Body(b), 90, b))
    /\ (AtMost(Upper(m), 3, m) <=> AtMost(Lower(b), 3, b)) /\ (AtMost(Lower(m), 3, m) <=> AtMost(Upper(b), 3, b))
    /\ (LongLowerWick(m) <=> LongUpperWick(b)) /\ (LongUpperWick(m) <=> LongLowerWick(b))

LEMMA MirrorsLiken ==
    ASSUME NEW b, NEW m, Mirrors(b, m)
    PROVE  Priced(b, m) /\ Likened(b, m)
BY AnatomyTurns, PartsTurn, PricesTurn DEF Priced, Likened, LongLowerWick, LongUpperWick

LEMMA TrendsTurn ==
    ASSUME NEW f, NEW g, Turned(f, g), NEW i \in 1..Len(f)
    PROVE  (Uptrend(f, i) => Downtrend(g, i)) /\ (Downtrend(f, i) => Uptrend(g, i))
<1> SUFFICES ASSUME i > TrendLag
             PROVE  /\ f[i - 1].close > f[i - TrendLag].close => g[i - 1].close < g[i - TrendLag].close
                    /\ f[i - 1].close < f[i - TrendLag].close => g[i - 1].close > g[i - TrendLag].close
  BY DEF Uptrend, Downtrend
<1>1. i - 1 \in 1..Len(f) /\ i - TrendLag \in 1..Len(f)
  BY PatternAssumption DEF Turned
<1> DEFINE x == f[i - 1]
           y == f[i - TrendLag]
           u == g[i - 1]
           w == g[i - TrendLag]
<1>2. Priced(x, u) /\ Priced(y, w)
  BY <1>1, MirrorsLiken DEF Turned
<1> HIDE DEF x, y, u, w
<1>3. (x.close > y.close => u.close < w.close) /\ (x.close < y.close => u.close > w.close)
  BY <1>2 DEF Priced
<1> QED
  BY <1>3 DEF x, y, u, w

LEMMA ExtendedSingleTurns ==
    ASSUME NEW f, NEW g, Turned(f, g), NEW i \in 1..Len(f)
    PROVE  Twinned(ExtendedSingle(f, i), ExtendedSingle(g, i))
<1> DEFINE b == f[i]
           m == g[i]
<1>1. /\ Likened(b, m)
      /\ Priced(b, m)
  BY MirrorsLiken DEF Turned
<1>2. (Uptrend(f, i) => Downtrend(g, i)) /\ (Downtrend(f, i) => Uptrend(g, i))
  BY TrendsTurn
<1> HIDE DEF b, m
<1>3. "marubozu_bull" \in ExtendedSingle(f, i) => "marubozu_bear" \in ExtendedSingle(g, i)
  BY <1>1 DEF ExtendedSingle, Fired, Likened, b, m
<1>4. "marubozu_bear" \in ExtendedSingle(f, i) => "marubozu_bull" \in ExtendedSingle(g, i)
  BY <1>1 DEF ExtendedSingle, Fired, Likened, b, m
<1>5. "belt_hold_bull" \in ExtendedSingle(f, i) => "belt_hold_bear" \in ExtendedSingle(g, i)
  BY <1>1 DEF ExtendedSingle, Fired, Likened, b, m
<1>6. "belt_hold_bear" \in ExtendedSingle(f, i) => "belt_hold_bull" \in ExtendedSingle(g, i)
  BY <1>1 DEF ExtendedSingle, Fired, Likened, b, m
<1>7. "hanging_man" \in ExtendedSingle(f, i) => "inverted_hammer" \in ExtendedSingle(g, i)
  BY <1>1, <1>2 DEF ExtendedSingle, Fired, Likened, b, m
<1>8. "inverted_hammer" \in ExtendedSingle(f, i) => "hanging_man" \in ExtendedSingle(g, i)
  BY <1>1, <1>2 DEF ExtendedSingle, Fired, Likened, b, m
<1>9. ExtendedSingle(f, i) \subseteq {"marubozu_bull", "marubozu_bear", "belt_hold_bull", "belt_hold_bear",
          "hanging_man", "inverted_hammer", "spinning_top", "long_legged_doji",
          "four_price_doji", "high_wave"}
  BY Zenon DEF ExtendedSingle, Fired
<1>10. \A pair \in Twins :
        /\ pair[1] \in ExtendedSingle(f, i) => pair[2] \in ExtendedSingle(g, i)
        /\ pair[2] \in ExtendedSingle(f, i) => pair[1] \in ExtendedSingle(g, i)
  BY <1>3, <1>4, <1>5, <1>6, <1>7, <1>8, <1>9 DEF Twins
<1> QED
  BY <1>10 DEF Twinned

\* What each of the patterns asks of its candles.
Piercing(p, b) ==
    Bear(p) /\ LongBody(p) /\ Bull(b) /\ b.open < p.low /\ 2 * b.close > Middle2(p) /\ b.close < p.open
DarkCloud(p, b) ==
    Bull(p) /\ LongBody(p) /\ Bear(b) /\ b.open > p.high /\ 2 * b.close < Middle2(p) /\ b.close > p.open
KickerBull(p, b) == Bear(p) /\ Bull(b) /\ b.open >= p.open /\ b.low > p.high
KickerBear(p, b) == Bull(p) /\ Bear(b) /\ b.open <= p.open /\ b.high < p.low
CounterattackBull(p, b) == Bear(p) /\ LongBody(p) /\ Bull(b) /\ b.open < p.low /\ b.close = p.close
CounterattackBear(p, b) == Bull(p) /\ LongBody(p) /\ Bear(b) /\ b.open > p.high /\ b.close = p.close
GapUp(p, b) == b.low > p.high
GapDown(p, b) == b.high < p.low
MatchingLow(p, b) == Bear(p) /\ Bear(b) /\ b.close = p.close
MatchingHigh(p, b) == Bull(p) /\ Bull(b) /\ b.close = p.close
SeparatingBull(p, b) == Bear(p) /\ Bull(b) /\ LongBody(b) /\ b.open = p.open
SeparatingBear(p, b) == Bull(p) /\ Bear(b) /\ LongBody(b) /\ b.open = p.open

LEMMA ExtendedDoubleIs ==
    ASSUME NEW f, NEW i
    PROVE  LET p == f[i - 1]
               b == f[i]
           IN  /\ "piercing" \in ExtendedDouble(f, i) <=> Piercing(p, b)
               /\ "dark_cloud" \in ExtendedDouble(f, i) <=> DarkCloud(p, b)
               /\ "kicker_bull" \in ExtendedDouble(f, i) <=> KickerBull(p, b)
               /\ "kicker_bear" \in ExtendedDouble(f, i) <=> KickerBear(p, b)
               /\ "counterattack_bull" \in ExtendedDouble(f, i) <=> CounterattackBull(p, b)
               /\ "counterattack_bear" \in ExtendedDouble(f, i) <=> CounterattackBear(p, b)
               /\ "gap_up" \in ExtendedDouble(f, i) <=> GapUp(p, b)
               /\ "gap_down" \in ExtendedDouble(f, i) <=> GapDown(p, b)
               /\ "matching_low" \in ExtendedDouble(f, i) <=> MatchingLow(p, b)
               /\ "matching_high" \in ExtendedDouble(f, i) <=> MatchingHigh(p, b)
               /\ "separating_bull" \in ExtendedDouble(f, i) <=> SeparatingBull(p, b)
               /\ "separating_bear" \in ExtendedDouble(f, i) <=> SeparatingBear(p, b)
BY Zenon DEF ExtendedDouble, Fired, Piercing, DarkCloud, KickerBull, KickerBear, CounterattackBull, CounterattackBear,
    GapUp, GapDown, MatchingLow, MatchingHigh, SeparatingBull, SeparatingBear

LEMMA PiercingTurns ==
    ASSUME NEW p, NEW o, NEW b, NEW m,
           Priced(p, o), Priced(b, m),
           Likened(p, o), Likened(b, m), Piercing(p, b)
    PROVE  DarkCloud(o, m)
<1>1. Bull(o) /\ LongBody(o) /\ Bear(m)
  BY DEF Likened, Piercing
<1>2. b.open < p.low /\ 2 * b.close > Middle2(p) /\ b.close < p.open
  BY Zenon DEF Piercing
<1>3. m.open > o.high /\ 2 * m.close < Middle2(o) /\ m.close > o.open
  BY <1>2 DEF Priced, Middle2
<1> QED
  BY <1>1, <1>3, Zenon DEF DarkCloud

LEMMA DarkCloudTurns ==
    ASSUME NEW p, NEW o, NEW b, NEW m,
           Priced(p, o), Priced(b, m),
           Likened(p, o), Likened(b, m), DarkCloud(p, b)
    PROVE  Piercing(o, m)
<1>1. Bear(o) /\ LongBody(o) /\ Bull(m)
  BY DEF Likened, DarkCloud
<1>2. b.open > p.high /\ 2 * b.close < Middle2(p) /\ b.close > p.open
  BY Zenon DEF DarkCloud
<1>3. m.open < o.low /\ 2 * m.close > Middle2(o) /\ m.close < o.open
  BY <1>2 DEF Priced, Middle2
<1> QED
  BY <1>1, <1>3, Zenon DEF Piercing

LEMMA KickerBullTurns ==
    ASSUME NEW p, NEW o, NEW b, NEW m,
           Priced(p, o), Priced(b, m),
           Likened(p, o), Likened(b, m), KickerBull(p, b)
    PROVE  KickerBear(o, m)
<1>1. Bull(o) /\ Bear(m)
  BY DEF Likened, KickerBull
<1>2. b.open >= p.open /\ b.low > p.high
  BY Zenon DEF KickerBull
<1>3. m.open <= o.open /\ m.high < o.low
  BY <1>2 DEF Priced
<1> QED
  BY <1>1, <1>3, Zenon DEF KickerBear

LEMMA KickerBearTurns ==
    ASSUME NEW p, NEW o, NEW b, NEW m,
           Priced(p, o), Priced(b, m),
           Likened(p, o), Likened(b, m), KickerBear(p, b)
    PROVE  KickerBull(o, m)
<1>1. Bear(o) /\ Bull(m)
  BY DEF Likened, KickerBear
<1>2. b.open <= p.open /\ b.high < p.low
  BY Zenon DEF KickerBear
<1>3. m.open >= o.open /\ m.low > o.high
  BY <1>2 DEF Priced
<1> QED
  BY <1>1, <1>3, Zenon DEF KickerBull

LEMMA CounterattackBullTurns ==
    ASSUME NEW p, NEW o, NEW b, NEW m,
           Priced(p, o), Priced(b, m),
           Likened(p, o), Likened(b, m), CounterattackBull(p, b)
    PROVE  CounterattackBear(o, m)
<1>1. Bull(o) /\ LongBody(o) /\ Bear(m)
  BY DEF Likened, CounterattackBull
<1>2. b.open < p.low /\ b.close = p.close
  BY Zenon DEF CounterattackBull
<1>3. m.open > o.high /\ m.close = o.close
  BY <1>2 DEF Priced
<1> QED
  BY <1>1, <1>3, Zenon DEF CounterattackBear

LEMMA CounterattackBearTurns ==
    ASSUME NEW p, NEW o, NEW b, NEW m,
           Priced(p, o), Priced(b, m),
           Likened(p, o), Likened(b, m), CounterattackBear(p, b)
    PROVE  CounterattackBull(o, m)
<1>1. Bear(o) /\ LongBody(o) /\ Bull(m)
  BY DEF Likened, CounterattackBear
<1>2. b.open > p.high /\ b.close = p.close
  BY Zenon DEF CounterattackBear
<1>3. m.open < o.low /\ m.close = o.close
  BY <1>2 DEF Priced
<1> QED
  BY <1>1, <1>3, Zenon DEF CounterattackBull

LEMMA GapUpTurns ==
    ASSUME NEW p, NEW o, NEW b, NEW m,
           Priced(p, o), Priced(b, m), GapUp(p, b)
    PROVE  GapDown(o, m)
<1>1. b.low > p.high
  BY Zenon DEF GapUp
<1>2. m.high < o.low
  BY <1>1 DEF Priced
<1> QED
  BY <1>2, Zenon DEF GapDown

LEMMA GapDownTurns ==
    ASSUME NEW p, NEW o, NEW b, NEW m,
           Priced(p, o), Priced(b, m), GapDown(p, b)
    PROVE  GapUp(o, m)
<1>1. b.high < p.low
  BY Zenon DEF GapDown
<1>2. m.low > o.high
  BY <1>1 DEF Priced
<1> QED
  BY <1>2, Zenon DEF GapUp

LEMMA MatchingLowTurns ==
    ASSUME NEW p, NEW o, NEW b, NEW m,
           Priced(p, o), Priced(b, m),
           Likened(p, o), Likened(b, m), MatchingLow(p, b)
    PROVE  MatchingHigh(o, m)
<1>1. Bull(o) /\ Bull(m)
  BY Zenon DEF Likened, MatchingLow
<1>2. b.close = p.close
  BY Zenon DEF MatchingLow
<1>3. m.close = o.close
  BY <1>2 DEF Priced
<1> QED
  BY <1>1, <1>3, Zenon DEF MatchingHigh

LEMMA MatchingHighTurns ==
    ASSUME NEW p, NEW o, NEW b, NEW m,
           Priced(p, o), Priced(b, m),
           Likened(p, o), Likened(b, m), MatchingHigh(p, b)
    PROVE  MatchingLow(o, m)
<1>1. Bear(o) /\ Bear(m)
  BY Zenon DEF Likened, MatchingHigh
<1>2. b.close = p.close
  BY Zenon DEF MatchingHigh
<1>3. m.close = o.close
  BY <1>2 DEF Priced
<1> QED
  BY <1>1, <1>3, Zenon DEF MatchingLow

LEMMA SeparatingBullTurns ==
    ASSUME NEW p, NEW o, NEW b, NEW m,
           Priced(p, o), Priced(b, m),
           Likened(p, o), Likened(b, m), SeparatingBull(p, b)
    PROVE  SeparatingBear(o, m)
<1>1. Bull(o) /\ Bear(m) /\ LongBody(m)
  BY Zenon DEF Likened, SeparatingBull
<1>2. b.open = p.open
  BY Zenon DEF SeparatingBull
<1>3. m.open = o.open
  BY <1>2 DEF Priced
<1> QED
  BY <1>1, <1>3, Zenon DEF SeparatingBear

LEMMA SeparatingBearTurns ==
    ASSUME NEW p, NEW o, NEW b, NEW m,
           Priced(p, o), Priced(b, m),
           Likened(p, o), Likened(b, m), SeparatingBear(p, b)
    PROVE  SeparatingBull(o, m)
<1>1. Bear(o) /\ Bull(m) /\ LongBody(m)
  BY Zenon DEF Likened, SeparatingBear
<1>2. b.open = p.open
  BY Zenon DEF SeparatingBear
<1>3. m.open = o.open
  BY <1>2 DEF Priced
<1> QED
  BY <1>1, <1>3, Zenon DEF SeparatingBull

LEMMA ExtendedDoubleTurns ==
    ASSUME NEW f, NEW g, Turned(f, g), NEW i \in 1..Len(f), i > 1
    PROVE  Twinned(ExtendedDouble(f, i), ExtendedDouble(g, i))
<1> DEFINE p == f[i - 1]
           b == f[i]
           o == g[i - 1]
           m == g[i]
<1>1. /\ Likened(p, o) /\ Likened(b, m)
      /\ Priced(p, o) /\ Priced(b, m)
  BY MirrorsLiken DEF Turned
<1>2. /\ "piercing" \in ExtendedDouble(f, i) <=> Piercing(p, b)
      /\ "dark_cloud" \in ExtendedDouble(f, i) <=> DarkCloud(p, b)
      /\ "kicker_bull" \in ExtendedDouble(f, i) <=> KickerBull(p, b)
      /\ "kicker_bear" \in ExtendedDouble(f, i) <=> KickerBear(p, b)
      /\ "counterattack_bull" \in ExtendedDouble(f, i) <=> CounterattackBull(p, b)
      /\ "counterattack_bear" \in ExtendedDouble(f, i) <=> CounterattackBear(p, b)
      /\ "gap_up" \in ExtendedDouble(f, i) <=> GapUp(p, b)
      /\ "gap_down" \in ExtendedDouble(f, i) <=> GapDown(p, b)
      /\ "matching_low" \in ExtendedDouble(f, i) <=> MatchingLow(p, b)
      /\ "matching_high" \in ExtendedDouble(f, i) <=> MatchingHigh(p, b)
      /\ "separating_bull" \in ExtendedDouble(f, i) <=> SeparatingBull(p, b)
      /\ "separating_bear" \in ExtendedDouble(f, i) <=> SeparatingBear(p, b)
      /\ "piercing" \in ExtendedDouble(g, i) <=> Piercing(o, m)
      /\ "dark_cloud" \in ExtendedDouble(g, i) <=> DarkCloud(o, m)
      /\ "kicker_bull" \in ExtendedDouble(g, i) <=> KickerBull(o, m)
      /\ "kicker_bear" \in ExtendedDouble(g, i) <=> KickerBear(o, m)
      /\ "counterattack_bull" \in ExtendedDouble(g, i) <=> CounterattackBull(o, m)
      /\ "counterattack_bear" \in ExtendedDouble(g, i) <=> CounterattackBear(o, m)
      /\ "gap_up" \in ExtendedDouble(g, i) <=> GapUp(o, m)
      /\ "gap_down" \in ExtendedDouble(g, i) <=> GapDown(o, m)
      /\ "matching_low" \in ExtendedDouble(g, i) <=> MatchingLow(o, m)
      /\ "matching_high" \in ExtendedDouble(g, i) <=> MatchingHigh(o, m)
      /\ "separating_bull" \in ExtendedDouble(g, i) <=> SeparatingBull(o, m)
      /\ "separating_bear" \in ExtendedDouble(g, i) <=> SeparatingBear(o, m)
  BY ExtendedDoubleIs, Zenon
<1> HIDE DEF p, b, o, m
<1>3. Piercing(p, b) => DarkCloud(o, m)
  BY <1>1, PiercingTurns
<1>4. DarkCloud(p, b) => Piercing(o, m)
  BY <1>1, DarkCloudTurns
<1>5. KickerBull(p, b) => KickerBear(o, m)
  BY <1>1, KickerBullTurns
<1>6. KickerBear(p, b) => KickerBull(o, m)
  BY <1>1, KickerBearTurns
<1>7. GapUp(p, b) => GapDown(o, m)
  BY <1>1, GapUpTurns
<1>8. GapDown(p, b) => GapUp(o, m)
  BY <1>1, GapDownTurns
<1>9. MatchingLow(p, b) => MatchingHigh(o, m)
  BY <1>1, MatchingLowTurns
<1>10. MatchingHigh(p, b) => MatchingLow(o, m)
  BY <1>1, MatchingHighTurns
<1>11. CounterattackBull(p, b) => CounterattackBear(o, m)
  BY <1>1, CounterattackBullTurns
<1>12. CounterattackBear(p, b) => CounterattackBull(o, m)
  BY <1>1, CounterattackBearTurns
<1>13. SeparatingBull(p, b) => SeparatingBear(o, m)
  BY <1>1, SeparatingBullTurns
<1>14. SeparatingBear(p, b) => SeparatingBull(o, m)
  BY <1>1, SeparatingBearTurns
<1>15. ExtendedDouble(f, i) \subseteq {"piercing", "dark_cloud", "kicker_bull", "kicker_bear", "gap_up", "gap_down",
          "matching_low", "matching_high", "counterattack_bull", "counterattack_bear",
          "separating_bull", "separating_bear", "outside_bar", "homing_pigeon", "on_neck",
          "thrusting"}
  BY Zenon DEF ExtendedDouble, Fired
<1>16. \A pair \in Twins :
        /\ pair[1] \in ExtendedDouble(f, i) => pair[2] \in ExtendedDouble(g, i)
        /\ pair[2] \in ExtendedDouble(f, i) => pair[1] \in ExtendedDouble(g, i)
  BY <1>2, <1>3, <1>4, <1>5, <1>6, <1>7, <1>8, <1>9, <1>10, <1>11, <1>12, <1>13, <1>14, <1>15 DEF Twins
<1> QED
  BY <1>16 DEF Twinned

\* What each of the patterns asks of its candles.
ThreeWhiteSoldiers(q, p, b) == Soldiers(q, p, b)
ThreeBlackCrows(q, p, b) == Crows(q, p, b)
ThreeInsideUp(q, p, b) ==
    /\ Bear(q) /\ LongBody(q) /\ Bull(p) /\ p.open >= q.close /\ p.close <= q.open /\ Bull(b)
    /\ b.close > q.open
ThreeInsideDown(q, p, b) ==
    /\ Bull(q) /\ LongBody(q) /\ Bear(p) /\ p.open <= q.close /\ p.close >= q.open /\ Bear(b)
    /\ b.close < q.open
ThreeOutsideUp(q, p, b) ==
    Bear(q) /\ Bull(p) /\ p.close >= q.open /\ p.open <= q.close /\ Bull(b) /\ b.close > p.close
ThreeOutsideDown(q, p, b) ==
    Bull(q) /\ Bear(p) /\ p.close <= q.open /\ p.open >= q.close /\ Bear(b) /\ b.close < p.close
AbandonedBabyBull(q, p, b) == Bear(q) /\ DojiBefore(p) /\ p.high < q.low /\ Bull(b) /\ b.low > p.high
AbandonedBabyBear(q, p, b) == Bull(q) /\ DojiBefore(p) /\ p.low > q.high /\ Bear(b) /\ b.high < p.low
MorningDojiStar(q, p, b) ==
    Bear(q) /\ LongBody(q) /\ DojiBefore(p) /\ Bull(b) /\ 2 * b.close > Middle2(q)
EveningDojiStar(q, p, b) ==
    Bull(q) /\ LongBody(q) /\ DojiBefore(p) /\ Bear(b) /\ 2 * b.close < Middle2(q)
UpsideTasukiGap(q, p, b) ==
    /\ Bull(q) /\ Bull(p) /\ p.low > q.high /\ Bear(b) /\ b.open > p.open /\ b.open < p.close
    /\ b.close < p.open /\ b.close > q.close
DownsideTasukiGap(q, p, b) ==
    /\ Bear(q) /\ Bear(p) /\ p.high < q.low /\ Bull(b) /\ b.open < p.open /\ b.open > p.close
    /\ b.close > p.open /\ b.close < q.close

LEMMA ExtendedTripleIs ==
    ASSUME NEW f, NEW i
    PROVE  LET q == f[i - 2]
               p == f[i - 1]
               b == f[i]
           IN  /\ "three_white_soldiers" \in ExtendedTriple(f, i) <=> ThreeWhiteSoldiers(q, p, b)
               /\ "three_black_crows" \in ExtendedTriple(f, i) <=> ThreeBlackCrows(q, p, b)
               /\ "three_inside_up" \in ExtendedTriple(f, i) <=> ThreeInsideUp(q, p, b)
               /\ "three_inside_down" \in ExtendedTriple(f, i) <=> ThreeInsideDown(q, p, b)
               /\ "three_outside_up" \in ExtendedTriple(f, i) <=> ThreeOutsideUp(q, p, b)
               /\ "three_outside_down" \in ExtendedTriple(f, i) <=> ThreeOutsideDown(q, p, b)
               /\ "abandoned_baby_bull" \in ExtendedTriple(f, i) <=> AbandonedBabyBull(q, p, b)
               /\ "abandoned_baby_bear" \in ExtendedTriple(f, i) <=> AbandonedBabyBear(q, p, b)
               /\ "morning_doji_star" \in ExtendedTriple(f, i) <=> MorningDojiStar(q, p, b)
               /\ "evening_doji_star" \in ExtendedTriple(f, i) <=> EveningDojiStar(q, p, b)
               /\ "upside_tasuki_gap" \in ExtendedTriple(f, i) <=> UpsideTasukiGap(q, p, b)
               /\ "downside_tasuki_gap" \in ExtendedTriple(f, i) <=> DownsideTasukiGap(q, p, b)
BY Zenon DEF ExtendedTriple, Fired, ThreeWhiteSoldiers, ThreeBlackCrows, ThreeInsideUp, ThreeInsideDown,
             ThreeOutsideUp, ThreeOutsideDown, AbandonedBabyBull, AbandonedBabyBear, MorningDojiStar,
             EveningDojiStar, UpsideTasukiGap, DownsideTasukiGap

LEMMA ThreeWhiteSoldiersTurns ==
    ASSUME NEW q, NEW r, NEW p, NEW o, NEW b, NEW m,
           Priced(q, r), Priced(p, o), Priced(b, m),
           Likened(q, r), Likened(p, o), Likened(b, m), ThreeWhiteSoldiers(q, p, b)
    PROVE  ThreeBlackCrows(r, o, m)
<1>1. Bear(r) /\ LongBody(r) /\ Bear(o) /\ LongBody(o) /\ Bear(m) /\ LongBody(m)
  BY DEF Likened, ThreeWhiteSoldiers, Soldiers
<1>2. /\ p.close > q.close /\ b.close > p.close
      /\ p.open >= q.open /\ p.open <= q.close /\ b.open >= p.open /\ b.open <= p.close
  BY Zenon DEF ThreeWhiteSoldiers, Soldiers
<1>3. /\ o.close < r.close /\ m.close < o.close
      /\ o.open <= r.open /\ o.open >= r.close /\ m.open <= o.open /\ m.open >= o.close
  BY <1>2 DEF Priced
<1> QED
  BY <1>1, <1>3, Zenon DEF ThreeBlackCrows, Crows

LEMMA ThreeBlackCrowsTurns ==
    ASSUME NEW q, NEW r, NEW p, NEW o, NEW b, NEW m,
           Priced(q, r), Priced(p, o), Priced(b, m),
           Likened(q, r), Likened(p, o), Likened(b, m), ThreeBlackCrows(q, p, b)
    PROVE  ThreeWhiteSoldiers(r, o, m)
<1>1. Bull(r) /\ LongBody(r) /\ Bull(o) /\ LongBody(o) /\ Bull(m) /\ LongBody(m)
  BY DEF Likened, ThreeBlackCrows, Crows
<1>2. /\ p.close < q.close /\ b.close < p.close
      /\ p.open <= q.open /\ p.open >= q.close /\ b.open <= p.open /\ b.open >= p.close
  BY Zenon DEF ThreeBlackCrows, Crows
<1>3. /\ o.close > r.close /\ m.close > o.close
      /\ o.open >= r.open /\ o.open <= r.close /\ m.open >= o.open /\ m.open <= o.close
  BY <1>2 DEF Priced
<1> QED
  BY <1>1, <1>3, Zenon DEF ThreeWhiteSoldiers, Soldiers

LEMMA ThreeInsideUpTurns ==
    ASSUME NEW q, NEW r, NEW p, NEW o, NEW b, NEW m,
           Priced(q, r), Priced(p, o), Priced(b, m),
           Likened(q, r), Likened(p, o), Likened(b, m), ThreeInsideUp(q, p, b)
    PROVE  ThreeInsideDown(r, o, m)
<1>1. Bull(r) /\ LongBody(r) /\ Bear(o) /\ Bear(m)
  BY DEF Likened, ThreeInsideUp
<1>2. p.open >= q.close /\ p.close <= q.open /\ b.close > q.open
  BY Zenon DEF ThreeInsideUp
<1>3. o.open <= r.close /\ o.close >= r.open /\ m.close < r.open
  BY <1>2 DEF Priced
<1> QED
  BY <1>1, <1>3, Zenon DEF ThreeInsideDown

LEMMA ThreeInsideDownTurns ==
    ASSUME NEW q, NEW r, NEW p, NEW o, NEW b, NEW m,
           Priced(q, r), Priced(p, o), Priced(b, m),
           Likened(q, r), Likened(p, o), Likened(b, m), ThreeInsideDown(q, p, b)
    PROVE  ThreeInsideUp(r, o, m)
<1>1. Bear(r) /\ LongBody(r) /\ Bull(o) /\ Bull(m)
  BY DEF Likened, ThreeInsideDown
<1>2. p.open <= q.close /\ p.close >= q.open /\ b.close < q.open
  BY Zenon DEF ThreeInsideDown
<1>3. o.open >= r.close /\ o.close <= r.open /\ m.close > r.open
  BY <1>2 DEF Priced
<1> QED
  BY <1>1, <1>3, Zenon DEF ThreeInsideUp

LEMMA ThreeOutsideUpTurns ==
    ASSUME NEW q, NEW r, NEW p, NEW o, NEW b, NEW m,
           Priced(q, r), Priced(p, o), Priced(b, m),
           Likened(q, r), Likened(p, o), Likened(b, m), ThreeOutsideUp(q, p, b)
    PROVE  ThreeOutsideDown(r, o, m)
<1>1. Bull(r) /\ Bear(o) /\ Bear(m)
  BY DEF Likened, ThreeOutsideUp
<1>2. p.close >= q.open /\ p.open <= q.close /\ b.close > p.close
  BY Zenon DEF ThreeOutsideUp
<1>3. o.close <= r.open /\ o.open >= r.close /\ m.close < o.close
  BY <1>2 DEF Priced
<1> QED
  BY <1>1, <1>3, Zenon DEF ThreeOutsideDown

LEMMA ThreeOutsideDownTurns ==
    ASSUME NEW q, NEW r, NEW p, NEW o, NEW b, NEW m,
           Priced(q, r), Priced(p, o), Priced(b, m),
           Likened(q, r), Likened(p, o), Likened(b, m), ThreeOutsideDown(q, p, b)
    PROVE  ThreeOutsideUp(r, o, m)
<1>1. Bear(r) /\ Bull(o) /\ Bull(m)
  BY DEF Likened, ThreeOutsideDown
<1>2. p.close <= q.open /\ p.open >= q.close /\ b.close < p.close
  BY Zenon DEF ThreeOutsideDown
<1>3. o.close >= r.open /\ o.open <= r.close /\ m.close > o.close
  BY <1>2 DEF Priced
<1> QED
  BY <1>1, <1>3, Zenon DEF ThreeOutsideUp

LEMMA AbandonedBabyBullTurns ==
    ASSUME NEW q, NEW r, NEW p, NEW o, NEW b, NEW m,
           Priced(q, r), Priced(p, o), Priced(b, m),
           Likened(q, r), Likened(p, o), Likened(b, m), AbandonedBabyBull(q, p, b)
    PROVE  AbandonedBabyBear(r, o, m)
<1>1. Bull(r) /\ DojiBefore(o) /\ Bear(m)
  BY DEF Likened, AbandonedBabyBull
<1>2. p.high < q.low /\ b.low > p.high
  BY Zenon DEF AbandonedBabyBull
<1>3. o.low > r.high /\ m.high < o.low
  BY <1>2 DEF Priced
<1> QED
  BY <1>1, <1>3, Zenon DEF AbandonedBabyBear

LEMMA AbandonedBabyBearTurns ==
    ASSUME NEW q, NEW r, NEW p, NEW o, NEW b, NEW m,
           Priced(q, r), Priced(p, o), Priced(b, m),
           Likened(q, r), Likened(p, o), Likened(b, m), AbandonedBabyBear(q, p, b)
    PROVE  AbandonedBabyBull(r, o, m)
<1>1. Bear(r) /\ DojiBefore(o) /\ Bull(m)
  BY DEF Likened, AbandonedBabyBear
<1>2. p.low > q.high /\ b.high < p.low
  BY Zenon DEF AbandonedBabyBear
<1>3. o.high < r.low /\ m.low > o.high
  BY <1>2 DEF Priced
<1> QED
  BY <1>1, <1>3, Zenon DEF AbandonedBabyBull

LEMMA MorningDojiStarTurns ==
    ASSUME NEW q, NEW r, NEW p, NEW o, NEW b, NEW m,
           Priced(q, r), Priced(p, o), Priced(b, m),
           Likened(q, r), Likened(p, o), Likened(b, m), MorningDojiStar(q, p, b)
    PROVE  EveningDojiStar(r, o, m)
<1>1. Bull(r) /\ LongBody(r) /\ DojiBefore(o) /\ Bear(m)
  BY DEF Likened, MorningDojiStar
<1>2. 2 * b.close > Middle2(q)
  BY Zenon DEF MorningDojiStar
<1>3. 2 * m.close < Middle2(r)
  BY <1>2 DEF Priced, Middle2
<1> QED
  BY <1>1, <1>3, Zenon DEF EveningDojiStar

LEMMA EveningDojiStarTurns ==
    ASSUME NEW q, NEW r, NEW p, NEW o, NEW b, NEW m,
           Priced(q, r), Priced(p, o), Priced(b, m),
           Likened(q, r), Likened(p, o), Likened(b, m), EveningDojiStar(q, p, b)
    PROVE  MorningDojiStar(r, o, m)
<1>1. Bear(r) /\ LongBody(r) /\ DojiBefore(o) /\ Bull(m)
  BY DEF Likened, EveningDojiStar
<1>2. 2 * b.close < Middle2(q)
  BY Zenon DEF EveningDojiStar
<1>3. 2 * m.close > Middle2(r)
  BY <1>2 DEF Priced, Middle2
<1> QED
  BY <1>1, <1>3, Zenon DEF MorningDojiStar

LEMMA UpsideTasukiGapTurns ==
    ASSUME NEW q, NEW r, NEW p, NEW o, NEW b, NEW m,
           Priced(q, r), Priced(p, o), Priced(b, m),
           Likened(q, r), Likened(p, o), Likened(b, m), UpsideTasukiGap(q, p, b)
    PROVE  DownsideTasukiGap(r, o, m)
<1>1. Bear(r) /\ Bear(o) /\ Bull(m)
  BY DEF Likened, UpsideTasukiGap
<1>2. /\ p.low > q.high /\ b.open > p.open
      /\ b.open < p.close /\ b.close < p.open /\ b.close > q.close
  BY Zenon DEF UpsideTasukiGap
<1>3. o.high < r.low /\ m.open < o.open /\ m.open > o.close /\ m.close > o.open /\ m.close < r.close
  BY <1>2 DEF Priced
<1> QED
  BY <1>1, <1>3, Zenon DEF DownsideTasukiGap

LEMMA DownsideTasukiGapTurns ==
    ASSUME NEW q, NEW r, NEW p, NEW o, NEW b, NEW m,
           Priced(q, r), Priced(p, o), Priced(b, m),
           Likened(q, r), Likened(p, o), Likened(b, m), DownsideTasukiGap(q, p, b)
    PROVE  UpsideTasukiGap(r, o, m)
<1>1. Bull(r) /\ Bull(o) /\ Bear(m)
  BY DEF Likened, DownsideTasukiGap
<1>2. /\ p.high < q.low /\ b.open < p.open
      /\ b.open > p.close /\ b.close > p.open /\ b.close < q.close
  BY Zenon DEF DownsideTasukiGap
<1>3. o.low > r.high /\ m.open > o.open /\ m.open < o.close /\ m.close < o.open /\ m.close > r.close
  BY <1>2 DEF Priced
<1> QED
  BY <1>1, <1>3, Zenon DEF UpsideTasukiGap

LEMMA ExtendedTripleTurns ==
    ASSUME NEW f, NEW g, Turned(f, g), NEW i \in 1..Len(f), i > 2
    PROVE  Twinned(ExtendedTriple(f, i), ExtendedTriple(g, i))
<1> DEFINE q == f[i - 2]
           p == f[i - 1]
           b == f[i]
           r == g[i - 2]
           o == g[i - 1]
           m == g[i]
<1>1. /\ Likened(q, r) /\ Likened(p, o) /\ Likened(b, m)
      /\ Priced(q, r) /\ Priced(p, o) /\ Priced(b, m)
  BY MirrorsLiken DEF Turned
<1>2. (Uptrend(f, i) => Downtrend(g, i)) /\ (Downtrend(f, i) => Uptrend(g, i))
  BY TrendsTurn
<1>3. /\ "three_white_soldiers" \in ExtendedTriple(f, i) <=> ThreeWhiteSoldiers(q, p, b)
      /\ "three_black_crows" \in ExtendedTriple(f, i) <=> ThreeBlackCrows(q, p, b)
      /\ "three_inside_up" \in ExtendedTriple(f, i) <=> ThreeInsideUp(q, p, b)
      /\ "three_inside_down" \in ExtendedTriple(f, i) <=> ThreeInsideDown(q, p, b)
      /\ "three_outside_up" \in ExtendedTriple(f, i) <=> ThreeOutsideUp(q, p, b)
      /\ "three_outside_down" \in ExtendedTriple(f, i) <=> ThreeOutsideDown(q, p, b)
      /\ "abandoned_baby_bull" \in ExtendedTriple(f, i) <=> AbandonedBabyBull(q, p, b)
      /\ "abandoned_baby_bear" \in ExtendedTriple(f, i) <=> AbandonedBabyBear(q, p, b)
      /\ "morning_doji_star" \in ExtendedTriple(f, i) <=> MorningDojiStar(q, p, b)
      /\ "evening_doji_star" \in ExtendedTriple(f, i) <=> EveningDojiStar(q, p, b)
      /\ "upside_tasuki_gap" \in ExtendedTriple(f, i) <=> UpsideTasukiGap(q, p, b)
      /\ "downside_tasuki_gap" \in ExtendedTriple(f, i) <=> DownsideTasukiGap(q, p, b)
      /\ "three_white_soldiers" \in ExtendedTriple(g, i) <=> ThreeWhiteSoldiers(r, o, m)
      /\ "three_black_crows" \in ExtendedTriple(g, i) <=> ThreeBlackCrows(r, o, m)
      /\ "three_inside_up" \in ExtendedTriple(g, i) <=> ThreeInsideUp(r, o, m)
      /\ "three_inside_down" \in ExtendedTriple(g, i) <=> ThreeInsideDown(r, o, m)
      /\ "three_outside_up" \in ExtendedTriple(g, i) <=> ThreeOutsideUp(r, o, m)
      /\ "three_outside_down" \in ExtendedTriple(g, i) <=> ThreeOutsideDown(r, o, m)
      /\ "abandoned_baby_bull" \in ExtendedTriple(g, i) <=> AbandonedBabyBull(r, o, m)
      /\ "abandoned_baby_bear" \in ExtendedTriple(g, i) <=> AbandonedBabyBear(r, o, m)
      /\ "morning_doji_star" \in ExtendedTriple(g, i) <=> MorningDojiStar(r, o, m)
      /\ "evening_doji_star" \in ExtendedTriple(g, i) <=> EveningDojiStar(r, o, m)
      /\ "upside_tasuki_gap" \in ExtendedTriple(g, i) <=> UpsideTasukiGap(r, o, m)
      /\ "downside_tasuki_gap" \in ExtendedTriple(g, i) <=> DownsideTasukiGap(r, o, m)
  BY ExtendedTripleIs, Zenon
<1> HIDE DEF q, p, b, r, o, m
<1>4. ThreeWhiteSoldiers(q, p, b) => ThreeBlackCrows(r, o, m)
  BY <1>1, ThreeWhiteSoldiersTurns
<1>5. ThreeBlackCrows(q, p, b) => ThreeWhiteSoldiers(r, o, m)
  BY <1>1, ThreeBlackCrowsTurns
<1>6. ThreeInsideUp(q, p, b) => ThreeInsideDown(r, o, m)
  BY <1>1, ThreeInsideUpTurns
<1>7. ThreeInsideDown(q, p, b) => ThreeInsideUp(r, o, m)
  BY <1>1, ThreeInsideDownTurns
<1>8. ThreeOutsideUp(q, p, b) => ThreeOutsideDown(r, o, m)
  BY <1>1, ThreeOutsideUpTurns
<1>9. ThreeOutsideDown(q, p, b) => ThreeOutsideUp(r, o, m)
  BY <1>1, ThreeOutsideDownTurns
<1>10. AbandonedBabyBull(q, p, b) => AbandonedBabyBear(r, o, m)
  BY <1>1, AbandonedBabyBullTurns
<1>11. AbandonedBabyBear(q, p, b) => AbandonedBabyBull(r, o, m)
  BY <1>1, AbandonedBabyBearTurns
<1>12. MorningDojiStar(q, p, b) => EveningDojiStar(r, o, m)
  BY <1>1, MorningDojiStarTurns
<1>13. EveningDojiStar(q, p, b) => MorningDojiStar(r, o, m)
  BY <1>1, EveningDojiStarTurns
<1>14. "tri_star_bull" \in ExtendedTriple(f, i) => "tri_star_bear" \in ExtendedTriple(g, i)
  BY <1>1, <1>2 DEF ExtendedTriple, Fired, Likened, q, p, b, r, o, m
<1>15. "tri_star_bear" \in ExtendedTriple(f, i) => "tri_star_bull" \in ExtendedTriple(g, i)
  BY <1>1, <1>2 DEF ExtendedTriple, Fired, Likened, q, p, b, r, o, m
<1>16. UpsideTasukiGap(q, p, b) => DownsideTasukiGap(r, o, m)
  BY <1>1, UpsideTasukiGapTurns
<1>17. DownsideTasukiGap(q, p, b) => UpsideTasukiGap(r, o, m)
  BY <1>1, DownsideTasukiGapTurns
<1>18. ExtendedTriple(f, i) \subseteq {"three_white_soldiers", "three_black_crows", "three_inside_up",
          "three_inside_down", "three_outside_up", "three_outside_down",
          "abandoned_baby_bull", "abandoned_baby_bear", "morning_doji_star",
          "evening_doji_star", "tri_star_bull", "tri_star_bear", "upside_tasuki_gap",
          "downside_tasuki_gap", "identical_three_crows", "advance_block", "deliberation",
          "stick_sandwich", "unique_three_river"}
  BY Zenon DEF ExtendedTriple, Fired
<1>19. \A pair \in Twins :
        /\ pair[1] \in ExtendedTriple(f, i) => pair[2] \in ExtendedTriple(g, i)
        /\ pair[2] \in ExtendedTriple(f, i) => pair[1] \in ExtendedTriple(g, i)
  BY <1>3, <1>4, <1>5, <1>6, <1>7, <1>8, <1>9, <1>10, <1>11, <1>12, <1>13, <1>14, <1>15, <1>16, <1>17, <1>18 DEF Twins
<1> QED
  BY <1>19 DEF Twinned

\* The three candles before the last stay within the first of the five.
RestIn(frame, i) == \A k \in 1..3 : frame[i - k].high <= frame[i - 4].high /\ frame[i - k].low >= frame[i - 4].low
RisingThreeMethods(frame, i) ==
    /\ Bull(frame[i - 4]) /\ LongBody(frame[i - 4]) /\ RestIn(frame, i)
    /\ Bull(frame[i]) /\ LongBody(frame[i]) /\ frame[i].close > frame[i - 4].close
FallingThreeMethods(frame, i) ==
    /\ Bear(frame[i - 4]) /\ LongBody(frame[i - 4]) /\ RestIn(frame, i)
    /\ Bear(frame[i]) /\ LongBody(frame[i]) /\ frame[i].close < frame[i - 4].close

LEMMA ExtendedFiveIs ==
    ASSUME NEW f, NEW i
    PROVE  /\ "rising_three_methods" \in ExtendedFive(f, i) <=> RisingThreeMethods(f, i)
           /\ "falling_three_methods" \in ExtendedFive(f, i) <=> FallingThreeMethods(f, i)
BY Zenon DEF ExtendedFive, Fired, RisingThreeMethods, FallingThreeMethods, RestIn

LEMMA RestTurns ==
    ASSUME NEW x, NEW y, NEW s, NEW t, Priced(x, y), Priced(s, t), x.high <= s.high, x.low >= s.low
    PROVE  y.high <= t.high /\ y.low >= t.low
BY DEF Priced

LEMMA ExtendedFiveTurns ==
    ASSUME NEW f, NEW g, Turned(f, g), NEW i \in 1..Len(f), i > 4
    PROVE  Twinned(ExtendedFive(f, i), ExtendedFive(g, i))
<1>1. \A k \in 0..4 : Priced(f[i - k], g[i - k])
  BY MirrorsLiken DEF Turned
<1> DEFINE b == f[i]
           m == g[i]
           s == f[i - 4]
           t == g[i - 4]
<1>2. /\ Likened(b, m) /\ Likened(s, t)
      /\ Priced(b, m) /\ Priced(s, t)
  BY MirrorsLiken DEF Turned
<1> HIDE DEF b, m, s, t
<1>3. RestIn(f, i) => RestIn(g, i)
  <2> SUFFICES ASSUME RestIn(f, i), NEW k \in 1..3
               PROVE  g[i - k].high <= t.high /\ g[i - k].low >= t.low
    BY DEF RestIn, t
  <2> DEFINE x == f[i - k]
             y == g[i - k]
  <2>1. Priced(x, y) /\ x.high <= s.high /\ x.low >= s.low
    BY <1>1 DEF RestIn, s
  <2> HIDE DEF x, y
  <2>2. y.high <= t.high /\ y.low >= t.low
    BY <1>2, <2>1, RestTurns
  <2> QED
    BY <2>2 DEF y
<1>4. ASSUME RisingThreeMethods(f, i)
      PROVE  FallingThreeMethods(g, i)
  <2>1. Bear(t) /\ LongBody(t) /\ RestIn(g, i) /\ Bear(m) /\ LongBody(m)
    BY <1>2, <1>3, <1>4 DEF Likened, RisingThreeMethods, b, s
  <2>2. m.close < t.close
    BY <1>2, <1>4 DEF Priced, RisingThreeMethods, b, s
  <2> QED
    BY <2>1, <2>2 DEF FallingThreeMethods, m, t
<1>5. ASSUME FallingThreeMethods(f, i)
      PROVE  RisingThreeMethods(g, i)
  <2>1. Bull(t) /\ LongBody(t) /\ RestIn(g, i) /\ Bull(m) /\ LongBody(m)
    BY <1>2, <1>3, <1>5 DEF Likened, FallingThreeMethods, b, s
  <2>2. m.close > t.close
    BY <1>2, <1>5 DEF Priced, FallingThreeMethods, b, s
  <2> QED
    BY <2>1, <2>2 DEF RisingThreeMethods, m, t
<1>6. ExtendedFive(f, i) \subseteq {"rising_three_methods", "falling_three_methods"}
  BY Zenon DEF ExtendedFive, Fired
<1> QED
  BY <1>4, <1>5, <1>6, ExtendedFiveIs DEF Twinned, Twins

LEMMA NegationIs == \A x \in Int : -x = 0 - x
OBVIOUS

LEMMA ZeroNegated == -0 = 0
<1>1. 0 \in Int /\ 0 - 0 = 0
  OBVIOUS
<1>2. -0 = 0 - 0
  BY <1>1, NegationIs, Zenon
<1> QED
  BY <1>1, <1>2, Zenon

LEMMA ExtendedPatternsTurn ==
    ASSUME NEW f, NEW g, Turned(f, g), NEW i \in 1..Len(f)
    PROVE  Twinned(ExtendedPatternsAt(f, i), ExtendedPatternsAt(g, i))
<1> DEFINE F == ExtendedSingle(f, i)
           G == ExtendedSingle(g, i)
           F2 == IF i > 1 THEN ExtendedDouble(f, i) ELSE {}
           G2 == IF i > 1 THEN ExtendedDouble(g, i) ELSE {}
           F3 == IF i > 2 THEN ExtendedTriple(f, i) ELSE {}
           G3 == IF i > 2 THEN ExtendedTriple(g, i) ELSE {}
           F5 == IF i > 4 THEN ExtendedFive(f, i) ELSE {}
           G5 == IF i > 4 THEN ExtendedFive(g, i) ELSE {}
<1>1. Twinned(F, G)
  BY ExtendedSingleTurns
<1>2. Twinned(F2, G2)
  BY ExtendedDoubleTurns DEF Twinned
<1>3. Twinned(F3, G3)
  BY ExtendedTripleTurns DEF Twinned
<1>4. Twinned(F5, G5)
  BY ExtendedFiveTurns DEF Twinned
<1>5. ExtendedPatternsAt(f, i) = F \cup F2 \cup F3 \cup F5 /\ ExtendedPatternsAt(g, i) = G \cup G2 \cup G3 \cup G5
  BY DEF ExtendedPatternsAt
<1> HIDE DEF F, G, F2, G2, F3, G3, F5, G5
<1> QED
  BY <1>1, <1>2, <1>3, <1>4, <1>5 DEF Twinned

LEMMA StepsTurn ==
    ASSUME NEW b, NEW m, NEW q, NEW r, Priced(b, m), Priced(q, r)
    PROVE  /\ m.low - r.high = q.low - b.high /\ r.low - m.high = b.low - q.high
           /\ b.low - q.high \in Int /\ q.low - b.high \in Int
           /\ m.high - r.high = q.low - b.low /\ r.low - m.low = b.high - q.high
           /\ Abs(m.high - r.close) = Abs(b.low - q.close) /\ Abs(m.low - r.close) = Abs(b.high - q.close)
<1>1. m.low - r.high = q.low - b.high /\ r.low - m.high = b.low - q.high
  BY DEF Priced
<1>2. b.low - q.high \in Int /\ q.low - b.high \in Int
  BY DEF Priced
<1>3. m.high - r.high = q.low - b.low /\ r.low - m.low = b.high - q.high
  BY DEF Priced
<1>4. Abs(m.high - r.close) = Abs(b.low - q.close)
  BY DEF Priced, Abs
<1>5. Abs(m.low - r.close) = Abs(b.high - q.close)
  BY DEF Priced, Abs
<1> QED
  BY <1>1, <1>2, <1>3, <1>4, <1>5

LEMMA GapsExclude ==
    ASSUME NEW b, NEW m, NEW q, NEW r, Priced(b, m), Priced(q, r), b.low <= b.high, q.low <= q.high
    PROVE  ~(b.low - q.high > 0 /\ q.low - b.high > 0)
BY DEF Priced

LEMMA GapTurns ==
    ASSUME NEW f, NEW g, Turned(f, g), NEW i \in 1..Len(f)
    PROVE  FairValueGap(g, i) = -FairValueGap(f, i)
<1>1. CASE i <= 2
  <2>1. FairValueGap(g, i) = 0 /\ FairValueGap(f, i) = 0
    BY <1>1 DEF FairValueGap
  <2> QED
    BY <2>1, ZeroNegated, Zenon
<1>2. CASE i > 2
  <2> DEFINE b == f[i]
             m == g[i]
             q == f[i - 2]
             r == g[i - 2]
             above == b.low - q.high
             below == q.low - b.high
  <2>1. Priced(b, m) /\ Priced(q, r) /\ b \in MarketBar /\ q \in MarketBar
    BY <1>2, MirrorsLiken DEF Turned
  <2>2. /\ FairValueGap(f, i) = CASE above > 0 /\ above >= MinGap -> above
                                  [] below > 0 /\ below >= MinGap -> -below
                                  [] OTHER -> 0
        /\ FairValueGap(g, i) = CASE m.low - r.high > 0 /\ m.low - r.high >= MinGap -> m.low - r.high
                                  [] r.low - m.high > 0 /\ r.low - m.high >= MinGap -> -(r.low - m.high)
                                  [] OTHER -> 0
    BY <1>2 DEF FairValueGap
  <2> HIDE DEF b, m, q, r
  <2>3. m.low - r.high = below /\ r.low - m.high = above /\ above \in Int /\ below \in Int
    BY <2>1, StepsTurn
  <2>4. ~(above > 0 /\ below > 0)
    <3>1. b.low <= b.high /\ q.low <= q.high
      BY <2>1 DEF MarketBar, IsCandle, Priced
    <3> QED
      BY <2>1, <3>1, GapsExclude
  <2> HIDE DEF above, below
  <2> QED
    BY <2>2, <2>3, <2>4, StructureAssumption
<1> QED
  BY <1>1, <1>2

LEMMA FlagsTurn ==
    ASSUME NEW a, NEW b, NEW c, NEW d, a <=> d, b <=> c
    PROVE  Flag(a) - Flag(b) = -(Flag(c) - Flag(d))
BY DEF Flag

LEMMA ClosesTurn ==
    ASSUME NEW b, NEW m, NEW next, NEW then, Priced(b, m), Priced(next, then)
    PROVE  /\ m.close < m.open <=> b.close > b.open
           /\ m.close > m.open <=> b.close < b.open
           /\ then.close < then.open <=> next.close > next.open
           /\ then.close > then.open <=> next.close < next.open
           /\ then.close > m.high <=> next.close < b.low
           /\ then.close < m.low <=> next.close > b.high
<1>1. (m.close < m.open <=> b.close > b.open) /\ (m.close > m.open <=> b.close < b.open)
  BY DEF Priced
<1>2. (then.close < then.open <=> next.close > next.open) /\ (then.close > then.open <=> next.close < next.open)
  BY DEF Priced
<1>3. (then.close > m.high <=> next.close < b.low) /\ (then.close < m.low <=> next.close > b.high)
  BY DEF Priced
<1> QED
  BY <1>1, <1>2, <1>3

LEMMA BlocksTurn ==
    ASSUME NEW f, NEW g, Turned(f, g), NEW i \in 1..Len(f)
    PROVE  OrderBlock(g, i) = -OrderBlock(f, i)
<1>1. Len(g) = Len(f)
  BY DEF Turned
<1>2. CASE i + 1 > Len(f)
  <2>1. OrderBlock(g, i) = 0 /\ OrderBlock(f, i) = 0
    BY <1>1, <1>2 DEF OrderBlock
  <2> QED
    BY <2>1, ZeroNegated, Zenon
<1>3. CASE ~(i + 1 > Len(f))
  <2> DEFINE b == f[i]
             m == g[i]
             next == f[i + 1]
             then == g[i + 1]
  <2>1. Priced(b, m) /\ Priced(next, then)
    BY <1>3, MirrorsLiken DEF Turned
  <2>2. /\ OrderBlock(f, i) = Flag(b.close < b.open /\ next.close > next.open /\ next.close > b.high)
                              - Flag(b.close > b.open /\ next.close < next.open /\ next.close < b.low)
        /\ OrderBlock(g, i) = Flag(m.close < m.open /\ then.close > then.open /\ then.close > m.high)
                              - Flag(m.close > m.open /\ then.close < then.open /\ then.close < m.low)
    BY <1>1, <1>3 DEF OrderBlock
  <2> HIDE DEF b, m, next, then
  <2>3. /\ m.close < m.open <=> b.close > b.open
        /\ m.close > m.open <=> b.close < b.open
        /\ then.close < then.open <=> next.close > next.open
        /\ then.close > then.open <=> next.close < next.open
        /\ then.close > m.high <=> next.close < b.low
        /\ then.close < m.low <=> next.close > b.high
    BY <2>1, ClosesTurn
  <2> QED
    BY <2>2, <2>3, FlagsTurn
<1> QED
  BY <1>2, <1>3

\* The highs above the one are the lows below the other.
LEMMA LiquidityTurns ==
    ASSUME NEW f, NEW g, Turned(f, g), NEW i \in 1..Len(f)
    PROVE  LiquidityPools(g, i).sell = LiquidityPools(f, i).buy
<1> DEFINE window == IF i <= Lookback THEN {} ELSE (i - Lookback)..(i - 1)
           Up(k) == g[k].high - g[i].high
           Down(k) == f[i].low - f[k].low
           Above == {k \in window : Up(k) >= 0}
           Under == {k \in window : Down(k) >= 0}
<1>1. window \subseteq 1..Len(f)
  BY StructureAssumption DEF Turned
<1> HIDE DEF window
<1>2. ASSUME NEW k \in window
      PROVE  Up(k) = Down(k)
  <2>1. Priced(f[i], g[i]) /\ Priced(f[k], g[k])
    BY <1>1, MirrorsLiken DEF Turned
  <2> QED
    BY <2>1 DEF Priced
<1>3. LiquidityPools(g, i).sell = Nearest([k \in Above |-> Up(k)])
  BY DEF LiquidityPools, window
<1>4. LiquidityPools(f, i).buy = Nearest([k \in Under |-> Down(k)])
  BY DEF LiquidityPools, window
<1> HIDE DEF Up, Down
<1>5. Above = Under
  BY <1>2
<1>6. [k \in Above |-> Up(k)] = [k \in Under |-> Down(k)]
  BY <1>2, <1>5
<1> QED
  BY <1>3, <1>4, <1>6

LEMMA RangeTurns ==
    ASSUME NEW f, NEW g, Turned(f, g), NEW i \in 1..Len(f)
    PROVE  TrueRange(g, i) = TrueRange(f, i)
<1>1. Priced(f[i], g[i]) /\ (i # 1 => Priced(f[i - 1], g[i - 1]))
  BY MirrorsLiken DEF Turned
<1>2. g[i].high - g[i].low = f[i].high - f[i].low
  BY <1>1 DEF Priced
<1>3. ASSUME i # 1
      PROVE  /\ Abs(g[i].high - g[i - 1].close) = Abs(f[i].low - f[i - 1].close)
             /\ Abs(g[i].low - g[i - 1].close) = Abs(f[i].high - f[i - 1].close)
  BY <1>1, <1>3, StepsTurn
<1> DEFINE F == IF i = 1 THEN {} ELSE {Abs(f[i].high - f[i - 1].close), Abs(f[i].low - f[i - 1].close)}
           G == IF i = 1 THEN {} ELSE {Abs(g[i].high - g[i - 1].close), Abs(g[i].low - g[i - 1].close)}
<1>4. F = G
  BY <1>3
<1> QED
  BY <1>2, <1>4 DEF TrueRange

LEMMA MovesTurn ==
    ASSUME NEW f, NEW g, Turned(f, g), NEW i \in 1..Len(f)
    PROVE  DirectionalMove(g, i).plus = DirectionalMove(f, i).minus
<1>1. Priced(f[i], g[i]) /\ (i # 1 => Priced(f[i - 1], g[i - 1]))
  BY MirrorsLiken DEF Turned
<1>2. i # 1 => /\ g[i].high - g[i - 1].high = f[i - 1].low - f[i].low
               /\ g[i - 1].low - g[i].low = f[i].high - f[i - 1].high
  BY <1>1, StepsTurn
<1> QED
  BY <1>2 DEF DirectionalMove

-----------------------------------------------------------------------------
(* The structure of the market upside down *)

\* A level of the one market, of the other.
Flip(level) == IF level = None THEN None ELSE Ceiling - level
Levels == Int \cup {None}

\* What a bar shows of one market and of the other, and that a swing it confirms
\* is not broken by that bar.
ShownTurned(bar, there) ==
    /\ bar.high \in Levels /\ bar.low \in Levels /\ bar.close \in Int
    /\ there.high = Flip(bar.low) /\ there.low = Flip(bar.high) /\ there.close = Ceiling - bar.close
    /\ bar.high # None => bar.close <= bar.high
    /\ bar.low # None => bar.low <= bar.close

LEMMA HeightsTurn ==
    ASSUME NEW b, NEW m, NEW s, NEW t, Priced(b, m), Priced(s, t)
    PROVE  /\ m.high < t.high <=> b.low > s.low
           /\ m.low > t.low <=> b.high < s.high
<1>1. m.high < t.high <=> b.low > s.low
  BY DEF Priced
<1>2. m.low > t.low <=> b.high < s.high
  BY DEF Priced
<1> QED
  BY <1>1, <1>2

LEMMA ShownTurns ==
    ASSUME NEW f, NEW g, Turned(f, g), NEW n \in 1..Len(f)
    PROVE  ShownTurned(Shown(f, n), Shown(g, n))
<1> DEFINE j == ConfirmedAt(n)
<1>1. n \in Int /\ j = n - Width /\ j + Width = n /\ j \in Int /\ Width \in Nat \ {0} /\ Len(f) \in Nat
      /\ Len(g) = Len(f)
  BY StructureAssumption DEF Turned, ConfirmedAt
<1>2. /\ HasBothSides(f, j) <=> j - Width >= 1
      /\ HasBothSides(g, j) <=> j - Width >= 1
  BY <1>1 DEF HasBothSides
<1>3. Around(f, j) = Around(g, j)
  BY DEF Around
<1>4. ASSUME j - Width >= 1
      PROVE  j \in 1..Len(f) /\ n \in Around(f, j) /\ \A k \in Around(f, j) : k \in 1..Len(f)
  <2> HIDE DEF j
  <2> QED
    BY <1>1, <1>4 DEF Around
<1> HIDE DEF j
<1>5. ASSUME NEW k \in 1..Len(f)
      PROVE  Priced(f[k], g[k]) /\ f[k].low <= f[k].close /\ f[k].close <= f[k].high
  <2>1. f[k] \in MarketBar /\ Mirrors(f[k], g[k])
    BY <1>5 DEF Turned
  <2> QED
    BY <2>1, MirrorsLiken DEF MarketBar, IsCandle
<1>6. ASSUME j - Width >= 1
      PROVE  /\ SwingHigh(g, j) <=> SwingLow(f, j)
             /\ SwingLow(g, j) <=> SwingHigh(f, j)
             /\ SwingHigh(f, j) => f[n].high < f[j].high
             /\ SwingLow(f, j) => f[n].low > f[j].low
  <2>1. ASSUME NEW k \in Around(f, j)
        PROVE  /\ g[k].high < g[j].high <=> f[k].low > f[j].low
               /\ g[k].low > g[j].low <=> f[k].high < f[j].high
    <3>1. Priced(f[k], g[k]) /\ Priced(f[j], g[j])
      BY <1>4, <1>5, <1>6, <2>1
    <3> QED
      BY <3>1, HeightsTurn
  <2>2. SwingHigh(g, j) <=> SwingLow(f, j)
    BY <1>2, <1>3, <1>6, <2>1 DEF SwingHigh, SwingLow
  <2>3. SwingLow(g, j) <=> SwingHigh(f, j)
    BY <1>2, <1>3, <1>6, <2>1 DEF SwingHigh, SwingLow
  <2>4. SwingHigh(f, j) => f[n].high < f[j].high
    BY <1>4, <1>6 DEF SwingHigh
  <2>5. SwingLow(f, j) => f[n].low > f[j].low
    BY <1>4, <1>6 DEF SwingLow
  <2> QED
    BY <2>2, <2>3, <2>4, <2>5
<1> DEFINE b == f[n]
           m == g[n]
           s == f[j]
           t == g[j]
           top == SwingHigh(f, j)
           floor == SwingLow(f, j)
<1>7. Priced(b, m) /\ b.low <= b.close /\ b.close <= b.high
  BY <1>5
<1>8. top \/ floor => Priced(s, t)
  BY <1>2, <1>4, <1>5 DEF SwingHigh, SwingLow
<1>9. (top => b.high < s.high) /\ (floor => b.low > s.low)
  BY <1>2, <1>6 DEF SwingHigh, SwingLow
<1>10. (SwingHigh(g, j) <=> floor) /\ (SwingLow(g, j) <=> top)
  BY <1>2, <1>6 DEF SwingHigh, SwingLow
<1>11. /\ Shown(f, n) = [high |-> IF top THEN s.high ELSE None, low |-> IF floor THEN s.low ELSE None,
                         close |-> b.close]
       /\ Shown(g, n) = [high |-> IF floor THEN t.high ELSE None, low |-> IF top THEN t.low ELSE None,
                         close |-> m.close]
  BY <1>10 DEF Shown, j
<1>12. top \in BOOLEAN /\ floor \in BOOLEAN
  BY DEF SwingHigh, SwingLow
<1> HIDE DEF b, m, s, t, top, floor
<1>13. top => s.high \in Int /\ s.high # None /\ t.low = Ceiling - s.high /\ b.close <= s.high
  BY <1>7, <1>8, <1>9, NoneAssumption DEF Priced
<1>14. floor => s.low \in Int /\ s.low # None /\ t.high = Ceiling - s.low /\ s.low <= b.close
  BY <1>7, <1>8, <1>9, NoneAssumption DEF Priced
<1>15. m.close = Ceiling - b.close /\ b.close \in Int
  BY <1>7 DEF Priced
<1> QED
  BY <1>11, <1>12, <1>13, <1>14, <1>15 DEF ShownTurned, Flip, Levels

Signs == {-1, 0, 1}
Structures == [high : Levels, low : Levels, trend : Signs, bos : Signs, choch : Signs]

\* The two structures: the levels change places, the signs turn, and the lower
\* level is not above the upper one.
Turns(here, there) ==
    /\ here \in Structures
    /\ there.high = Flip(here.low) /\ there.low = Flip(here.high)
    /\ there.trend = -here.trend /\ there.bos = -here.bos /\ there.choch = -here.choch
    /\ here.high # None /\ here.low # None => here.low <= here.high

LEMMA FlipIs ==
    ASSUME NEW level \in Levels
    PROVE  /\ Flip(level) \in Levels
           /\ Flip(level) # None <=> level # None
           /\ level # None => level \in Int /\ Flip(level) = Ceiling - level
BY ResearchAssumption, NoneAssumption DEF Flip, Levels

LEMMA SignsTurn ==
    ASSUME NEW x \in Signs, NEW y, y = -x, NEW up, NEW down, ~(up /\ down)
    PROVE  /\ (IF up THEN 1 ELSE IF down THEN -1 ELSE x) \in Signs
           /\ (IF down THEN 1 ELSE IF up THEN -1 ELSE y) = -(IF up THEN 1 ELSE IF down THEN -1 ELSE x)
           /\ Flag(up /\ x >= 0) - Flag(down /\ x <= 0) \in Signs
           /\ Flag(down /\ y >= 0) - Flag(up /\ y <= 0) = -(Flag(up /\ x >= 0) - Flag(down /\ x <= 0))
           /\ Flag(up /\ x < 0) - Flag(down /\ x > 0) \in Signs
           /\ Flag(down /\ y < 0) - Flag(up /\ y > 0) = -(Flag(up /\ x < 0) - Flag(down /\ x > 0))
<1>1. x \in Int /\ y \in Int
  BY DEF Signs
<1>2. (y >= 0 <=> x <= 0) /\ (y <= 0 <=> x >= 0) /\ (y < 0 <=> x > 0) /\ (y > 0 <=> x < 0)
  BY <1>1
<1>3. /\ Flag(up /\ x >= 0) - Flag(down /\ x <= 0) \in Signs
      /\ Flag(up /\ x < 0) - Flag(down /\ x > 0) \in Signs
  BY DEF Flag, Signs
<1>4. Flag(down /\ y >= 0) - Flag(up /\ y <= 0) = -(Flag(up /\ x >= 0) - Flag(down /\ x <= 0))
  BY <1>2, FlagsTurn
<1>5. Flag(down /\ y < 0) - Flag(up /\ y > 0) = -(Flag(up /\ x < 0) - Flag(down /\ x > 0))
  BY <1>2, FlagsTurn
<1>6. (IF up THEN 1 ELSE IF down THEN -1 ELSE x) \in Signs
  BY DEF Signs
<1>7. (IF down THEN 1 ELSE IF up THEN -1 ELSE y) = -(IF up THEN 1 ELSE IF down THEN -1 ELSE x)
  BY <1>1
<1> QED
  BY <1>3, <1>4, <1>5, <1>6, <1>7

LEMMA StepTurns ==
    ASSUME NEW u, NEW v, Turns(u, v), NEW bar, NEW there, ShownTurned(bar, there)
    PROVE  Turns(StructureStep(u, bar), StructureStep(v, there))
<1> DEFINE high == IF bar.high # None THEN bar.high ELSE u.high
           low == IF bar.low # None THEN bar.low ELSE u.low
           up == high # None /\ bar.close > high
           down == low # None /\ bar.close < low
           high2 == IF there.high # None THEN there.high ELSE v.high
           low2 == IF there.low # None THEN there.low ELSE v.low
           up2 == high2 # None /\ there.close > high2
           down2 == low2 # None /\ there.close < low2
           Stepped(hi, lo, last, rose, fell) ==
             [high |-> IF rose THEN None ELSE hi, low |-> IF fell THEN None ELSE lo,
              trend |-> IF rose THEN 1 ELSE IF fell THEN -1 ELSE last.trend,
              bos |-> Flag(rose /\ last.trend >= 0) - Flag(fell /\ last.trend <= 0),
              choch |-> Flag(rose /\ last.trend < 0) - Flag(fell /\ last.trend > 0)]
<1>1. /\ StructureStep(u, bar) = Stepped(high, low, u, up, ~up /\ down)
      /\ StructureStep(v, there) = Stepped(high2, low2, v, up2, ~up2 /\ down2)
  BY Zenon DEF StructureStep
<1>2. /\ u.high \in Levels /\ u.low \in Levels /\ bar.high \in Levels /\ bar.low \in Levels
      /\ u.trend \in Signs /\ v.trend = -u.trend /\ bar.close \in Int /\ Ceiling \in Int
  BY ResearchAssumption DEF Turns, Structures, ShownTurned
<1>3. high \in Levels /\ low \in Levels
  BY <1>2
<1>4. high2 = Flip(low) /\ low2 = Flip(high)
  BY <1>2, FlipIs DEF Turns, ShownTurned
<1>5. /\ up => bar.high = None /\ high = u.high
      /\ down => bar.low = None /\ low = u.low
  <2>1. bar.high # None => bar.high \in Int /\ bar.close <= bar.high
    BY <1>2 DEF ShownTurned, Levels
  <2>2. bar.low # None => bar.low \in Int /\ bar.low <= bar.close
    BY <1>2 DEF ShownTurned, Levels
  <2> QED
    BY <1>2, <2>1, <2>2
<1> HIDE DEF high, low, high2, low2
<1>6. (high # None => high \in Int) /\ (low # None => low \in Int)
  BY <1>3 DEF Levels
<1>7. ~(up /\ down)
  <2> SUFFICES ASSUME up, down
               PROVE  FALSE
    OBVIOUS
  <2>1. low <= high
    BY <1>5 DEF Turns
  <2> QED
    BY <1>2, <1>6, <2>1
<1>8. (up2 <=> down) /\ (down2 <=> up)
  <2>1. there.close = Ceiling - bar.close
    BY DEF ShownTurned
  <2>2. /\ low # None => high2 \in Int /\ high2 = Ceiling - low
        /\ high # None => low2 \in Int /\ low2 = Ceiling - high
        /\ (high2 # None <=> low # None) /\ (low2 # None <=> high # None)
    BY <1>2, <1>3, <1>4, <1>6, FlipIs
  <2>3. up2 <=> down
    BY <1>2, <1>6, <2>1, <2>2
  <2>4. down2 <=> up
    BY <1>2, <1>6, <2>1, <2>2
  <2> QED
    BY <2>3, <2>4
<1>9. ~up /\ ~down /\ high # None /\ low # None => low <= high
  BY <1>2, <1>6
<1> HIDE DEF up, down, up2, down2
<1>10. StructureStep(u, bar) = Stepped(high, low, u, up, down)
  <2>1. (~up /\ down) = down
    BY <1>7 DEF down
  <2> QED
    BY <1>1, <2>1, Zenon
<1>11. StructureStep(v, there) = Stepped(high2, low2, v, down, up)
  <2>1. up2 = down /\ (~up2 /\ down2) = up
    BY <1>7, <1>8 DEF up, down, up2, down2
  <2> QED
    BY <1>1, <2>1, Zenon
<1> DEFINE here == Stepped(high, low, u, up, down)
           mirror == Stepped(high2, low2, v, down, up)
<1>12. /\ mirror.high = Flip(here.low) /\ mirror.low = Flip(here.high)
       /\ here.high \in Levels /\ here.low \in Levels
  BY <1>3, <1>4 DEF Flip, Levels
<1>13. here.high # None /\ here.low # None => low <= high /\ here.high = high /\ here.low = low
  BY <1>9
<1>14. /\ here.trend \in Signs /\ mirror.trend = -here.trend
  BY <1>2, <1>7, SignsTurn
<1>15. /\ here.bos \in Signs /\ mirror.bos = -here.bos
  BY <1>2, <1>7, SignsTurn
<1>16. /\ here.choch \in Signs /\ mirror.choch = -here.choch
  BY <1>2, <1>7, SignsTurn
<1>17. here = [high |-> here.high, low |-> here.low, trend |-> here.trend, bos |-> here.bos, choch |-> here.choch]
  OBVIOUS
<1> HIDE DEF here, mirror
<1>18. here \in Structures
  BY <1>12, <1>14, <1>15, <1>16, <1>17 DEF Structures
<1> QED
  BY <1>10, <1>11, <1>12, <1>13, <1>14, <1>15, <1>16, <1>18 DEF Turns, here, mirror

LEMMA StructureStepType ==
    ASSUME NEW u \in Structures, NEW bar, bar.high \in Levels, bar.low \in Levels
    PROVE  StructureStep(u, bar) \in Structures
<1> DEFINE high == IF bar.high # None THEN bar.high ELSE u.high
           low == IF bar.low # None THEN bar.low ELSE u.low
           up == high # None /\ bar.close > high
           down == ~up /\ low # None /\ bar.close < low
<1>1. StructureStep(u, bar) =
        [high |-> IF up THEN None ELSE high, low |-> IF down THEN None ELSE low,
         trend |-> IF up THEN 1 ELSE IF down THEN -1 ELSE u.trend,
         bos |-> Flag(up /\ u.trend >= 0) - Flag(down /\ u.trend <= 0),
         choch |-> Flag(up /\ u.trend < 0) - Flag(down /\ u.trend > 0)]
  BY Zenon DEF StructureStep
<1>2. high \in Levels /\ low \in Levels /\ ~(up /\ down) /\ u.trend \in Signs
  BY DEF Structures, Levels
<1>3. (IF up THEN None ELSE high) \in Levels /\ (IF down THEN None ELSE low) \in Levels
  <2> HIDE DEF high, low, up, down
  <2> QED
    BY <1>2 DEF Levels
<1> HIDE DEF high, low, up, down
<1>4. -u.trend = -u.trend
  OBVIOUS
<1>5. /\ (IF up THEN 1 ELSE IF down THEN -1 ELSE u.trend) \in Signs
      /\ Flag(up /\ u.trend >= 0) - Flag(down /\ u.trend <= 0) \in Signs
      /\ Flag(up /\ u.trend < 0) - Flag(down /\ u.trend > 0) \in Signs
  BY <1>2, <1>4, SignsTurn
<1> QED
  BY <1>1, <1>3, <1>5 DEF Structures

LEMMA StructureWalkIs ==
    ASSUME NEW shown, Len(shown) \in Nat,
           \A n \in 1..Len(shown) : shown[n].high \in Levels /\ shown[n].low \in Levels
    PROVE  /\ StructureWalk(shown)[0] = Unstructured
           /\ \A n \in 1..Len(shown) :
                StructureWalk(shown)[n] = StructureStep(StructureWalk(shown)[n - 1], shown[n])
<1> DEFINE N == Len(shown)
           step == [n \in 1..N |-> [last \in Structures |-> StructureStep(last, shown[n])]]
           Walked(w) == w = [n \in 0..N |-> IF n = 0 THEN Unstructured ELSE StructureStep(w[n - 1], shown[n])]
<1>1. Unstructured \in Structures
  BY DEF Unstructured, Structures, Levels, Signs
<1>2. step \in [1..N -> [Structures -> Structures]]
  BY StructureStepType
<1> HIDE DEF N, step
<1>3. PICK w \in [0..N -> Structures] : IsWalk(w, N, Unstructured, step)
  BY <1>1, <1>2, WalkExists DEF N
<1>4. \A n \in 1..N : w[n] = StructureStep(w[n - 1], shown[n])
  <2> SUFFICES ASSUME NEW n \in 1..N
               PROVE  w[n] = StructureStep(w[n - 1], shown[n])
    OBVIOUS
  <2>1. n - 1 \in 0..N
    BY DEF N
  <2>2. w[n - 1] \in Structures /\ w[n] = step[n][w[n - 1]]
    BY <1>3, <2>1 DEF IsWalk
  <2> QED
    BY <2>2 DEF step
<1>5. Walked(w)
  <2>1. w[0] = Unstructured
    BY <1>3 DEF IsWalk
  <2> QED
    BY <1>3, <1>4, <2>1
<1>6. StructureWalk(shown) = CHOOSE v : Walked(v)
  BY DEF StructureWalk, N
<1>7. Walked(StructureWalk(shown))
  BY <1>5, <1>6
<1> DEFINE walk == StructureWalk(shown)
<1>8. walk[0] = Unstructured /\ \A n \in 1..N : walk[n] = StructureStep(walk[n - 1], shown[n])
  <2> HIDE DEF walk
  <2>1. 0 \in 0..N /\ \A n \in 1..N : n \in 0..N /\ n # 0
    BY DEF N
  <2> QED
    BY <1>7, <2>1 DEF walk
<1> QED
  BY <1>8 DEF N, walk

\* What breaks upwards in the one breaks downwards in the other.
LEMMA StructureTurns ==
    ASSUME NEW f, NEW g, Turned(f, g), NEW i \in 1..Len(f)
    PROVE  Turns(StructureAt(f, i), StructureAt(g, i))
<1> DEFINE shown == [n \in 1..i |-> Shown(f, n)]
           there == [n \in 1..i |-> Shown(g, n)]
           walk == StructureWalk(shown)
           mirror == StructureWalk(there)
<1>1. i \in Nat /\ Len(shown) = i /\ Len(there) = i /\ \A n \in 1..i : n \in 1..Len(f)
  BY DEF Turned
<1>2. \A n \in 1..i : ShownTurned(shown[n], there[n])
  BY <1>1, ShownTurns
<1>3. \A n \in 1..i : there[n].high \in Levels /\ there[n].low \in Levels
  BY <1>2, FlipIs DEF ShownTurned
<1> HIDE DEF shown, there
<1>4. walk[0] = Unstructured /\ \A n \in 1..i : walk[n] = StructureStep(walk[n - 1], shown[n])
  BY <1>1, <1>2, StructureWalkIs DEF ShownTurned
<1>5. mirror[0] = Unstructured /\ \A n \in 1..i : mirror[n] = StructureStep(mirror[n - 1], there[n])
  BY <1>1, <1>3, StructureWalkIs
<1> HIDE DEF walk, mirror
<1> DEFINE T == {n \in 0..i : Turns(walk[n], mirror[n])}
<1>6. 0 \in T
  <2>1. Turns(Unstructured, Unstructured)
    BY ZeroNegated DEF Turns, Unstructured, Structures, Flip, Levels, Signs
  <2> QED
    BY <1>1, <1>4, <1>5, <2>1
<1>7. ASSUME NEW n \in 1..i, n - 1 \in T
      PROVE  n \in T
  <2>1. Turns(walk[n - 1], mirror[n - 1])
    BY <1>7
  <2>2. Turns(walk[n], mirror[n])
    BY <1>2, <1>4, <1>5, <2>1, StepTurns
  <2> QED
    BY <1>1, <2>2
<1> HIDE DEF T
<1>8. i \in T
  <2>1. i \in 0..i
    BY <1>1
  <2> QED
    BY <1>1, <1>6, <1>7, <2>1, Induction
<1> QED
  BY <1>8 DEF T, walk, mirror, shown, there, StructureAt

-----------------------------------------------------------------------------
(* The signal of the market upside down *)

LEMMA ExtremesTurn ==
    ASSUME NEW S \in SUBSET (1..Most), S # {}, NEW T, T = {Ceiling - x : x \in S}
    PROVE  /\ Least(S) \in Int /\ Greatest(S) \in Int
           /\ Least(T) = Ceiling - Greatest(S) /\ Greatest(T) = Ceiling - Least(S)
<1>1. Most \in Nat /\ Ceiling \in Nat /\ Most = Ceiling - 1
  BY ResearchAssumption DEF Most
<1>2. \A x \in S : Ceiling - x \in 1..Most
  BY <1>1
<1>3. T \in SUBSET (1..Most) /\ T # {}
  BY <1>2
<1>4. S \in SUBSET Nat /\ T \in SUBSET Nat /\ S \in SUBSET (0..Most) /\ T \in SUBSET (0..Most)
  BY <1>1, <1>3
<1>5. /\ Least(S) \in S /\ \A x \in S : Least(S) <= x
      /\ Least(T) \in T /\ \A x \in T : Least(T) <= x
  BY <1>3, <1>4, LeastIs
<1>6. /\ Greatest(S) \in S /\ \A x \in S : x <= Greatest(S)
      /\ Greatest(T) \in T /\ \A x \in T : x <= Greatest(T)
  BY <1>1, <1>3, <1>4, GreatestIs
<1>7. PICK x \in S : Least(T) = Ceiling - x
  BY <1>5
<1>8. PICK y \in S : Greatest(T) = Ceiling - y
  BY <1>6
<1>9. Least(T) <= Ceiling - Greatest(S) /\ Ceiling - Least(S) <= Greatest(T)
  BY <1>5, <1>6
<1>10. x <= Greatest(S) /\ Least(S) <= y
  BY <1>5, <1>6
<1>11. x \in Int /\ y \in Int /\ Least(S) \in Int /\ Greatest(S) \in Int
  <2>1. \A z \in S : z \in Int
    OBVIOUS
  <2> QED
    BY <1>5, <1>6, <2>1
<1> QED
  BY <1>1, <1>7, <1>8, <1>9, <1>10, <1>11

LEMMA ChannelTurns ==
    ASSUME NEW f, NEW g, Turned(f, g), NEW i \in 1..Len(f), i >= Channel
    PROVE  /\ Donchian(f, i) # None /\ Donchian(g, i) # None
           /\ Donchian(f, i).lower \in Int /\ Donchian(f, i).upper \in Int
           /\ Donchian(g, i).lower = Ceiling - Donchian(f, i).upper
           /\ Donchian(g, i).upper = Ceiling - Donchian(f, i).lower
<1> DEFINE window == (i - Channel + 1)..i
           lows(h) == {h[k].low : k \in window}
           highs(h) == {h[k].high : k \in window}
<1>1. i \in window /\ window \subseteq 1..Len(f)
  BY StructureAssumption DEF Turned
<1>2. /\ Donchian(f, i) = [lower |-> Least(lows(f)), upper |-> Greatest(highs(f))]
      /\ Donchian(g, i) = [lower |-> Least(lows(g)), upper |-> Greatest(highs(g))]
  BY StructureAssumption DEF Turned, Donchian
<1> HIDE DEF window
<1>3. ASSUME NEW k \in window
      PROVE  /\ g[k].low = Ceiling - f[k].high /\ g[k].high = Ceiling - f[k].low
             /\ f[k].low \in 1..Most /\ f[k].high \in 1..Most
  <2>1. f[k] \in MarketBar /\ Mirrors(f[k], g[k])
    BY <1>1 DEF Turned
  <2> QED
    BY <2>1 DEF Mirrors, MarketBar
<1>4. /\ lows(f) \in SUBSET (1..Most) /\ highs(f) \in SUBSET (1..Most)
      /\ lows(f) # {} /\ highs(f) # {}
  BY <1>1, <1>3
<1>5. lows(g) = {Ceiling - x : x \in highs(f)} /\ highs(g) = {Ceiling - x : x \in lows(f)}
  <2>1. lows(g) = {Ceiling - f[k].high : k \in window} /\ highs(g) = {Ceiling - f[k].low : k \in window}
    BY <1>3
  <2>2. /\ {Ceiling - x : x \in highs(f)} = {Ceiling - f[k].high : k \in window}
        /\ {Ceiling - x : x \in lows(f)} = {Ceiling - f[k].low : k \in window}
    OBVIOUS
  <2> QED
    BY <2>1, <2>2
<1> HIDE DEF lows, highs
<1>6. /\ Least(lows(f)) \in Int /\ Greatest(highs(f)) \in Int
      /\ Least(lows(g)) = Ceiling - Greatest(highs(f)) /\ Greatest(highs(g)) = Ceiling - Least(lows(f))
  BY <1>4, <1>5, ExtremesTurn
<1>7. Ceiling \in Int
  BY ResearchAssumption
<1>8. Least(lows(g)) \in Int /\ Greatest(highs(g)) \in Int
  BY <1>6, <1>7
<1>9. Donchian(f, i) # None /\ Donchian(g, i) # None
  BY <1>2, <1>6, <1>8, StructureAssumption
<1> QED
  BY <1>2, <1>6, <1>9

\* What is near the floor of the one channel is near the ceiling of the other.
LEMMA NearnessTurns ==
    ASSUME NEW f, NEW g, Turned(f, g), NEW i \in 1..Len(f)
    PROVE  /\ NearSupport(g, i) <=> NearResistance(f, i)
           /\ NearResistance(g, i) <=> NearSupport(f, i)
<1>1. CASE i < Channel
  BY <1>1 DEF NearSupport, NearResistance, Donchian
<1>2. CASE ~(i < Channel)
  <2> DEFINE c == f[i].close
             d == g[i].close
             lower == Donchian(f, i).lower
             upper == Donchian(f, i).upper
  <2>1. i >= Channel
    BY <1>2, StructureAssumption DEF Turned
  <2>2. /\ Donchian(f, i) # None /\ Donchian(g, i) # None /\ lower \in Int /\ upper \in Int
        /\ Donchian(g, i).lower = Ceiling - upper /\ Donchian(g, i).upper = Ceiling - lower
    BY <2>1, ChannelTurns
  <2>3. c \in Int /\ d = Ceiling - c /\ Ceiling \in Int
    BY MirrorsLiken DEF Turned, Priced
  <2>4. /\ NearSupport(g, i) <=> Abs(d - (Ceiling - upper)) <= Nearness
        /\ NearResistance(g, i) <=> Abs(d - (Ceiling - lower)) <= Nearness
        /\ NearSupport(f, i) <=> Abs(c - lower) <= Nearness
        /\ NearResistance(f, i) <=> Abs(c - upper) <= Nearness
    BY <2>2 DEF NearSupport, NearResistance
  <2> HIDE DEF c, d, lower, upper
  <2>5. Abs(d - (Ceiling - upper)) = Abs(c - upper) /\ Abs(d - (Ceiling - lower)) = Abs(c - lower)
    BY <2>2, <2>3 DEF Abs
  <2> QED
    BY <2>4, <2>5
<1> QED
  BY <1>1, <1>2

LEMMA ScoresTurn ==
    ASSUME NEW P, NEW Q, Twinned(P, Q), Twinned(Q, P)
    PROVE  /\ BearScore(Q) > 0 <=> BullScore(P) > 0
           /\ BullScore(Q) > 0 <=> BearScore(P) > 0
<1> DEFINE Bullish == {"pin_bull", "engulf_bull", "harami_bull", "tweezer_bottom", "dragonfly_doji", "morning_star"}
           Bearish == {"pin_bear", "engulf_bear", "harami_bear", "tweezer_top", "gravestone_doji", "evening_star"}
<1>1. IsFiniteSet(Bullish) /\ IsFiniteSet(Bearish)
  <2>1. ASSUME NEW a, NEW b, NEW c, NEW d, NEW e, NEW h
        PROVE  IsFiniteSet({a, b, c, d, e, h})
    <3>1. IsFiniteSet({a} \cup ({b} \cup ({c} \cup ({d} \cup ({e} \cup {h})))))
      BY FS_Singleton, FS_Union
    <3>2. {a} \cup ({b} \cup ({c} \cup ({d} \cup ({e} \cup {h})))) = {a, b, c, d, e, h}
      OBVIOUS
    <3> QED
      BY <3>1, <3>2, Zenon
  <2> QED
    BY <2>1, Zenon
<1>2. ASSUME NEW names, IsFiniteSet(names), NEW R
      PROVE  Cardinality(R \cap names) > 0 <=> \E name \in names : name \in R
  <2>1. IsFiniteSet(R \cap names)
    BY <1>2, FS_Subset
  <2>2. Cardinality(R \cap names) \in Nat /\ (Cardinality(R \cap names) = 0 <=> R \cap names = {})
    BY <2>1, FS_CardinalityType, FS_EmptySet
  <2> QED
    BY <2>2
<1>3. /\ \A R : BullScore(R) > 0 <=> \E name \in Bullish : name \in R
      /\ \A R : BearScore(R) > 0 <=> \E name \in Bearish : name \in R
  BY <1>1, <1>2 DEF BullScore, BearScore
<1>4. ASSUME NEW R, NEW S, Twinned(R, S)
      PROVE  /\ (\E name \in Bullish : name \in R) => \E name \in Bearish : name \in S
             /\ (\E name \in Bearish : name \in R) => \E name \in Bullish : name \in S
  <2>1. \A name \in Bullish : \E pair \in Twins : pair[1] = name /\ pair[2] \in Bearish
    BY DEF Twins
  <2>2. \A name \in Bearish : \E pair \in Twins : pair[2] = name /\ pair[1] \in Bullish
    BY DEF Twins
  <2> QED
    BY <1>4, <2>1, <2>2 DEF Twinned
<1> QED
  BY <1>3, <1>4

LEMMA SetupTurns ==
    ASSUME NEW bottom, NEW top, NEW rising, NEW falling, ~(bottom /\ top)
    PROVE  /\ Setup(top, bottom, falling, rising) = -Setup(bottom, top, rising, falling)
           /\ Setup(bottom, top, rising, falling) \in Int
<1>1. CASE bottom
  <2>1. Setup(bottom, top, rising, falling) = IF rising THEN 10 ELSE IF falling THEN 0 ELSE 6
    BY <1>1 DEF Setup
  <2>2. Setup(top, bottom, falling, rising) = IF rising THEN -10 ELSE IF falling THEN 0 ELSE -6
    BY <1>1 DEF Setup
  <2> QED
    BY <2>1, <2>2, ZeroNegated
<1>2. CASE top
  <2>1. Setup(bottom, top, rising, falling) = IF falling THEN -10 ELSE IF rising THEN 0 ELSE -6
    BY <1>2 DEF Setup
  <2>2. Setup(top, bottom, falling, rising) = IF falling THEN 10 ELSE IF rising THEN 0 ELSE 6
    BY <1>2 DEF Setup
  <2> QED
    BY <2>1, <2>2, ZeroNegated
<1>3. CASE ~bottom /\ ~top
  <2>1. Setup(bottom, top, rising, falling) = 0
    BY <1>3 DEF Setup
  <2>2. Setup(top, bottom, falling, rising) = 0
    BY <1>3 DEF Setup
  <2> QED
    BY <2>1, <2>2, ZeroNegated
<1> QED
  BY <1>1, <1>2, <1>3

\* Two readings of which each is the other turned round, and neither of them
\* left to the heuristic.
ReadRound(r, m) ==
    /\ r.stack \in Int /\ m.stack = -r.stack
    /\ r.trend = None <=> m.trend = None
    /\ r.trend # None => r.trend \in Int /\ r.trend # 0 /\ m.trend = -r.trend
    /\ m.trending = r.trending
    /\ r.rsi \in 1..99 /\ m.rsi = 100 - r.rsi
    /\ r.macd \in Int /\ m.macd = -r.macd
    /\ r.bias \in Side /\ m.bias = Opposite(r.bias) /\ m.bias \in Side
    /\ m.conf = r.conf /\ m.wild = r.wild
    /\ r.atr \in Nat \ {0} /\ m.atr = r.atr

LEMMA OppositeIs ==
    ASSUME NEW side \in Direction
    PROVE  /\ Opposite(side) \in Direction /\ Opposite(Opposite(side)) = side
           /\ side = "BUY" <=> Opposite(side) = "SELL"
           /\ side = "SELL" <=> Opposite(side) = "BUY"
           /\ side = "WAIT" <=> Opposite(side) = "WAIT"
           /\ side \in Side => Opposite(side) \in Side
BY DEF Opposite, Direction, Side

LEMMA ReadRoundBack ==
    ASSUME NEW r, NEW m, ReadRound(r, m)
    PROVE  ReadRound(m, r)
<1>1. m.stack \in Int /\ r.stack = -m.stack /\ m.macd \in Int /\ r.macd = -m.macd
  BY DEF ReadRound
<1>2. m.trend # None => m.trend \in Int /\ m.trend # 0 /\ r.trend = -m.trend
  <2> SUFFICES ASSUME m.trend # None
               PROVE  m.trend \in Int /\ m.trend # 0 /\ r.trend = -m.trend
    OBVIOUS
  <2>1. r.trend \in Int /\ r.trend # 0 /\ m.trend = -r.trend
    BY DEF ReadRound
  <2> QED
    BY <2>1
<1>3. m.rsi \in 1..99 /\ r.rsi = 100 - m.rsi
  BY DEF ReadRound
<1>4. r.bias = Opposite(m.bias)
  BY OppositeIs DEF ReadRound, Side, Direction
<1> QED
  BY <1>1, <1>2, <1>3, <1>4 DEF ReadRound

LEMMA InvertedReadingIs ==
    ASSUME NEW r \in Readings, r.bias # None
    PROVE  ReadRound(r, InvertedReading(r))
<1> DEFINE m == InvertedReading(r)
           Fields == {"stack", "trend", "trending", "rsi", "macd", "bias", "conf", "atr", "wild"}
<1>1. /\ DOMAIN r = Fields
      /\ r.stack \in {-1, 1} /\ r.trend \in {-1, 1, None} /\ r.rsi \in {60, 55, 30, 15, 50}
      /\ r.macd \in {-1, 1} /\ r.bias \in {"BUY", "SELL", None} /\ r.atr = 1
      /\ r = [field \in Fields |-> r[field]]
  BY DEF Readings
<1>2. /\ m.stack = -r.stack /\ m.trend = (IF r.trend = None THEN None ELSE -r.trend) /\ m.rsi = 100 - r.rsi
      /\ m.macd = -r.macd /\ m.bias = Opposite(r.bias) /\ m.trending = r.trending /\ m.conf = r.conf
      /\ m.wild = r.wild /\ m.atr = r.atr
  BY <1>1 DEF InvertedReading
<1> HIDE DEF m
<1>3. r.bias \in Side /\ Opposite(r.bias) \in Side
  BY <1>1, OppositeIs DEF Side, Direction
<1>4. /\ r.trend = None <=> m.trend = None
      /\ r.trend # None => r.trend \in Int /\ r.trend # 0 /\ m.trend = -r.trend
  <2>1. CASE r.trend = None
    BY <1>2, <2>1
  <2>2. CASE r.trend # None
    <3>1. r.trend \in {-1, 1} /\ m.trend = -r.trend /\ -r.trend \in Int
      BY <1>1, <1>2, <2>2
    <3> QED
      BY <2>2, <3>1, NoneAssumption
  <2> QED
    BY <2>1, <2>2
<1>5. r.stack \in Int /\ r.macd \in Int /\ r.rsi \in 1..99 /\ r.atr \in Nat \ {0}
  BY <1>1
<1> QED
  BY <1>2, <1>3, <1>4, <1>5 DEF ReadRound, m

\* A last bar that is not near both ends of its channel.
LEMMA ConfluenceTurns ==
    ASSUME NEW f, NEW g, Turned(f, g), NEW i \in 1..Len(f), ~(NearSupport(f, i) /\ NearResistance(f, i)),
           NEW average \in Int
    PROVE  /\ Confluence(f, i, average) \in Int
           /\ Confluence(g, i, -average) = -Confluence(f, i, average)
<1> DEFINE P == CorePatterns(f, i)
           Q == CorePatterns(g, i)
           trend == StructureAt(f, i).trend
           opposite == StructureAt(g, i).trend
           bottom == BullScore(P) > 0 /\ NearSupport(f, i)
           top == BearScore(P) > 0 /\ NearResistance(f, i)
           rising == average > 0 \/ trend > 0
           falling == average < 0 \/ trend < 0
<1>1. Turned(g, f) /\ Len(g) = Len(f)
  BY TurnedBack DEF Turned
<1>2. Twinned(P, Q) /\ Twinned(Q, P)
  BY <1>1, CorePatternsTurn
<1>3. trend \in Int /\ opposite = -trend
  BY StructureTurns DEF Turns, Structures, Signs
<1>4. Confluence(f, i, average) = Setup(bottom, top, rising, falling)
  BY DEF Confluence
<1>5. Confluence(g, i, -average) = Setup(BullScore(Q) > 0 /\ NearSupport(g, i),
                                          BearScore(Q) > 0 /\ NearResistance(g, i),
                                          -average > 0 \/ opposite > 0, -average < 0 \/ opposite < 0)
  BY DEF Confluence
<1> HIDE DEF trend, opposite, P, Q
<1>6. /\ (BullScore(Q) > 0 /\ NearSupport(g, i)) = top
      /\ (BearScore(Q) > 0 /\ NearResistance(g, i)) = bottom
  <2>1. /\ BearScore(Q) > 0 <=> BullScore(P) > 0
        /\ BullScore(Q) > 0 <=> BearScore(P) > 0
    BY <1>2, ScoresTurn
  <2>2. /\ NearSupport(g, i) <=> NearResistance(f, i)
        /\ NearResistance(g, i) <=> NearSupport(f, i)
    BY NearnessTurns
  <2> QED
    BY <2>1, <2>2
<1>7. /\ (-average > 0 \/ opposite > 0) = falling
      /\ (-average < 0 \/ opposite < 0) = rising
  BY <1>3
<1>8. Confluence(g, i, -average) = Setup(top, bottom, falling, rising)
  BY <1>5, <1>6, <1>7, Zenon
<1>9. ~(bottom /\ top)
  OBVIOUS
<1> HIDE DEF bottom, top, rising, falling
<1> QED
  BY <1>4, <1>8, <1>9, SetupTurns

\* What the confirmations look at: a bar that does not close where it opened, a
\* reading, a structure, some patterns and their confluence, and the same turned.
SeenRound(b, m, r, s, here, there, P, Q, c, d) ==
    /\ Mirrors(b, m) /\ b.close # b.open /\ ReadRound(r, s)
    /\ here.trend \in Int /\ here.bos \in Int
    /\ there.trend = -here.trend /\ there.bos = -here.bos
    /\ Twinned(P, Q) /\ Twinned(Q, P) /\ c \in Int /\ d = -c

LEMMA SeenRoundBack ==
    ASSUME NEW b, NEW m, NEW r, NEW s, NEW here, NEW there, NEW P, NEW Q, NEW c, NEW d,
           SeenRound(b, m, r, s, here, there, P, Q, c, d)
    PROVE  SeenRound(m, b, s, r, there, here, Q, P, d, c)
<1>1. ReadRound(s, r) /\ Mirrors(m, b)
  BY ReadRoundBack, MirrorsBack DEF SeenRound
<1>2. m.close # m.open
  BY PricesTurn DEF SeenRound
<1>3. there.trend \in Int /\ there.bos \in Int /\ here.trend = -there.trend /\ here.bos = -there.bos
  BY DEF SeenRound
<1>4. d \in Int /\ c = -d
  BY DEF SeenRound
<1> QED
  BY <1>1, <1>2, <1>3, <1>4 DEF SeenRound

LEMMA BuyConfirmed ==
    ASSUME NEW b, NEW m, NEW r, NEW s, NEW here, NEW there, NEW P, NEW Q, NEW c, NEW d,
           SeenRound(b, m, r, s, here, there, P, Q, c, d), r.bias = "BUY"
    PROVE  Confirmed(b, r, here, P, c) = Confirmed(m, s, there, Q, d)
<1>0. /\ Mirrors(b, m) /\ b.close # b.open /\ ReadRound(r, s)
      /\ here.trend \in Int /\ here.bos \in Int
      /\ there.trend = -here.trend /\ there.bos = -here.bos
      /\ Twinned(P, Q) /\ Twinned(Q, P) /\ c \in Int /\ d = -c
  BY DEF SeenRound
<1>1. s.bias = "SELL"
  BY <1>0 DEF ReadRound, Opposite
<1> DEFINE trend == r.stack > 0 /\ r.trending
           volume == BuyingVolume(b)
           momentum == r.macd > 0 /\ RsiOf(r) \in RsiRange("BUY")
           structure == here.trend > 0 \/ here.bos > 0
           candlestick == /\ BullScore(P) > 0 \/ (Bull(b) /\ DecisiveBody(b))
                          /\ c >= 0
           trend2 == s.stack < 0 /\ s.trending
           volume2 == ~BuyingVolume(m)
           momentum2 == s.macd < 0 /\ RsiOf(s) \in RsiRange("SELL")
           structure2 == there.trend < 0 \/ there.bos < 0
           candlestick2 == /\ BearScore(Q) > 0 \/ (Bear(m) /\ DecisiveBody(m))
                           /\ d <= 0
<1>2. Confirmed(b, r, here, P, c) =
        Fired([trend |-> trend, volume |-> volume, momentum |-> momentum, structure |-> structure,
               candlestick |-> candlestick])
  BY Zenon DEF Confirmed
<1>3. Confirmed(m, s, there, Q, d) =
        Fired([trend |-> trend2, volume |-> volume2, momentum |-> momentum2, structure |-> structure2,
               candlestick |-> candlestick2])
  <2>1. s.bias # "BUY"
    BY <1>1
  <2> QED
    BY <2>1, Zenon DEF Confirmed
<1>4. trend = trend2
  <2>1. r.stack > 0 <=> s.stack < 0
    BY <1>0 DEF ReadRound
  <2>2. r.trending = s.trending
    BY <1>0 DEF ReadRound
  <2> QED
    BY <2>1, <2>2
<1>5. volume = volume2
  BY <1>0, PricesTurn DEF BuyingVolume
<1>6. momentum = momentum2
  <2>1. r.macd > 0 <=> s.macd < 0
    BY <1>0 DEF ReadRound
  <2>2. RsiOf(r) = r.rsi /\ RsiOf(s) = 100 - r.rsi /\ r.rsi \in Int
    BY <1>0 DEF ReadRound, RsiOf
  <2>3. r.rsi \in 45..72 <=> 100 - r.rsi \in 28..55
    BY <2>2
  <2>4. RsiRange("BUY") = 45..72 /\ RsiRange("SELL") = 28..55
    BY DEF RsiRange
  <2>5. RsiOf(r) \in RsiRange("BUY") <=> RsiOf(s) \in RsiRange("SELL")
    BY <2>2, <2>3, <2>4
  <2> QED
    BY <2>1, <2>5
<1>7. structure = structure2
  BY <1>0
<1>8. candlestick = candlestick2
  <2>1. Span(m) = Span(b) /\ Body(m) = Body(b) /\ (Bear(m) <=> Bull(b))
    BY <1>0, AnatomyTurns
  <2>2. DecisiveBody(m) <=> DecisiveBody(b)
    BY <2>1 DEF DecisiveBody
  <2>3. BearScore(Q) > 0 <=> BullScore(P) > 0
    BY <1>0, ScoresTurn
  <2>4. d <= 0 <=> c >= 0
    BY <1>0
  <2> QED
    BY <2>1, <2>2, <2>3, <2>4
<1> HIDE DEF trend, volume, momentum, structure, candlestick, trend2, volume2, momentum2, structure2, candlestick2
<1> QED
  BY <1>2, <1>3, <1>4, <1>5, <1>6, <1>7, <1>8, Zenon

LEMMA ConfirmedTurns ==
    ASSUME NEW b, NEW m, NEW r, NEW s, NEW here, NEW there, NEW P, NEW Q, NEW c, NEW d,
           SeenRound(b, m, r, s, here, there, P, Q, c, d)
    PROVE  Confirmed(m, s, there, Q, d) = Confirmed(b, r, here, P, c)
<1>1. CASE r.bias = "BUY"
  BY <1>1, BuyConfirmed
<1>2. CASE r.bias = "SELL"
  <2>1. s.bias = "BUY"
    BY <1>2 DEF SeenRound, ReadRound, Opposite
  <2>2. Confirmed(m, s, there, Q, d) = Confirmed(b, r, here, P, c)
    BY <2>1, SeenRoundBack, BuyConfirmed
  <2> QED
    BY <2>2
<1> QED
  BY <1>1, <1>2 DEF SeenRound, ReadRound, Side

\* The decision of a market and that of the same one upside down.
LEMMA EvaluateTurns ==
    ASSUME NEW f, NEW g, Turned(f, g), Len(f) > 0, f[Len(f)].close # f[Len(f)].open,
           ~(NearSupport(f, Len(f)) /\ NearResistance(f, Len(f))),
           NEW r, NEW s, ReadRound(r, s)
    PROVE  Evaluate(g, s) = Opposite(Evaluate(f, r)) /\ Evaluate(f, r) \in Direction
<1> DEFINE i == Len(f)
<1>1. i \in 1..Len(f) /\ Len(g) = i /\ Turned(g, f) /\ i \in 1..Len(g)
  BY TurnedBack DEF Turned
<1>2. Mirrors(f[i], g[i])
  BY <1>1 DEF Turned
<1>3. Turns(StructureAt(f, i), StructureAt(g, i))
  BY <1>1, StructureTurns
<1>4. Twinned(CorePatterns(f, i), CorePatterns(g, i)) /\ Twinned(CorePatterns(g, i), CorePatterns(f, i))
  BY <1>1, CorePatternsTurn
<1>5. /\ Confluence(f, i, r.stack) \in Int
      /\ Confluence(g, i, s.stack) = -Confluence(f, i, r.stack)
  <2>1. r.stack \in Int /\ s.stack = -r.stack
    BY DEF ReadRound
  <2>2. /\ Confluence(f, i, r.stack) \in Int
        /\ Confluence(g, i, -r.stack) = -Confluence(f, i, r.stack)
    BY <1>1, <2>1, ConfluenceTurns, Zenon
  <2> QED
    BY <2>1, <2>2
<1>6. Confirmations(g, s) = Confirmations(f, r)
  <2>1. /\ StructureAt(f, i).trend \in Int /\ StructureAt(f, i).bos \in Int
        /\ StructureAt(g, i).trend = -StructureAt(f, i).trend /\ StructureAt(g, i).bos = -StructureAt(f, i).bos
    BY <1>3 DEF Turns, Structures, Signs
  <2>2. /\ Confirmations(f, r) = Confirmed(f[i], r, StructureAt(f, i), CorePatterns(f, i), Confluence(f, i, r.stack))
        /\ Confirmations(g, s) = Confirmed(g[i], s, StructureAt(g, i), CorePatterns(g, i), Confluence(g, i, s.stack))
    BY <1>1 DEF Confirmations
  <2> HIDE DEF i
  <2> QED
    BY <1>2, <1>4, <1>5, <2>1, <2>2, ConfirmedTurns DEF SeenRound, i
<1>7. r.bias \in Side /\ s.bias = Opposite(r.bias) /\ s.bias \in Side /\ s.conf = r.conf
  BY DEF ReadRound
<1>8. Evaluate(g, s) = IF Evaluate(f, r) = "WAIT" THEN "WAIT" ELSE s.bias
  BY <1>6, <1>7 DEF Evaluate, Side
<1>9. Evaluate(f, r) \in {r.bias, "WAIT"}
  BY DEF Evaluate
<1> QED
  BY <1>7, <1>8, <1>9 DEF Opposite, Side, Direction

LEMMA PlansTurn ==
    ASSUME NEW side \in Side, NEW entry \in 1..Most, NEW distance \in Nat \ {0}
    PROVE  LET plan == BuildPlan(side, entry, distance)
               mirror == BuildPlan(Opposite(side), Ceiling - entry, distance)
           IN  /\ plan # None /\ mirror # None /\ plan.rr = 20 /\ mirror.rr = 20
               /\ mirror.stop = Ceiling - plan.stop
<1> DEFINE plan == BuildPlan(side, entry, distance)
           mirror == BuildPlan(Opposite(side), Ceiling - entry, distance)
<1>1. Ceiling \in Int /\ entry \in Int /\ entry > 0 /\ Ceiling - entry \in Int /\ Ceiling - entry > 0
  BY ResearchAssumption DEF Most
<1>2. Opposite(side) \in Side
  BY OppositeIs DEF Side, Direction
<1>3. plan # None /\ mirror # None
  BY <1>1, <1>2, PlanIs
<1>4. /\ plan.stop = IF side = "BUY" THEN entry - distance ELSE entry + distance
      /\ mirror.stop = IF Opposite(side) = "BUY" THEN Ceiling - entry - distance
                                                 ELSE Ceiling - entry + distance
  <2> HIDE DEF plan, mirror
  <2> QED
    BY <1>1, <1>2, <1>3, PlanIs DEF plan, mirror
<1>5. plan.rr = 20 /\ mirror.rr = 20
  BY <1>1, <1>2 DEF BuildPlan
<1>6. side = "BUY" <=> Opposite(side) # "BUY"
  BY DEF Opposite, Side
<1> HIDE DEF plan, mirror
<1>7. mirror.stop = Ceiling - plan.stop
  BY <1>1, <1>4, <1>6
<1> QED
  BY <1>3, <1>5, <1>7 DEF plan, mirror

\* A signal and the same one turned.
SignalRound(signal, opposite) ==
    /\ signal.decision \in Direction /\ opposite.decision = Opposite(signal.decision)
    /\ opposite.conf = signal.conf
    /\ signal.plan = None <=> signal.decision = "WAIT"
    /\ opposite.plan = None <=> signal.decision = "WAIT"
    /\ signal.plan # None => /\ signal.plan.rr = opposite.plan.rr
                             /\ opposite.plan.stop = Ceiling - signal.plan.stop

LEMMA SignalsTurn ==
    ASSUME NEW side \in Direction, NEW conf, NEW entry \in 1..Most, NEW distance \in Nat \ {0}
    PROVE  SignalRound(Signal(side, conf, entry, distance), Signal(Opposite(side), conf, Ceiling - entry, distance))
<1> DEFINE signal == Signal(side, conf, entry, distance)
           opposite == Signal(Opposite(side), conf, Ceiling - entry, distance)
           plan == BuildPlan(side, entry, distance)
           mirror == BuildPlan(Opposite(side), Ceiling - entry, distance)
           Waits(s) == s.decision = "WAIT" /\ s.conf = conf /\ s.plan = None
<1>1. CASE side = "WAIT"
  <2>1. Opposite(side) = "WAIT" /\ "WAIT" \notin Side
    BY <1>1 DEF Opposite, Side
  <2>2. plan = None /\ mirror = None
    BY <1>1, <2>1 DEF BuildPlan
  <2>3. Waits(signal) /\ Waits(opposite)
    BY <2>2 DEF Signal, MeetsMinRewardRisk
  <2> QED
    BY <1>1, <2>1, <2>3 DEF SignalRound, Direction
<1>2. CASE side # "WAIT"
  <2>1. side \in Side
    BY <1>2 DEF Direction, Side
  <2>2. plan # None /\ mirror # None /\ plan.rr = 20 /\ mirror.rr = 20 /\ mirror.stop = Ceiling - plan.stop
    BY <2>1, PlansTurn
  <2> HIDE DEF plan, mirror
  <2>3. CASE 20 >= MinRewardRisk
    <3>1. MeetsMinRewardRisk(plan) /\ MeetsMinRewardRisk(mirror)
      BY <2>2, <2>3 DEF MeetsMinRewardRisk
    <3>2. /\ signal = [decision |-> side, conf |-> conf, entry |-> entry, plan |-> plan]
          /\ opposite = [decision |-> Opposite(side), conf |-> conf, entry |-> Ceiling - entry, plan |-> mirror]
      BY <3>1 DEF Signal, plan, mirror
    <3> HIDE DEF signal, opposite
    <3> QED
      BY <1>2, <2>2, <3>2 DEF SignalRound, signal, opposite
  <2>4. CASE ~(20 >= MinRewardRisk)
    <3>1. ~MeetsMinRewardRisk(plan) /\ ~MeetsMinRewardRisk(mirror)
      BY <2>2, <2>4 DEF MeetsMinRewardRisk
    <3>2. Waits(signal) /\ Waits(opposite)
      BY <3>1 DEF Signal, plan, mirror
    <3>3. Opposite("WAIT") = "WAIT" /\ "WAIT" \in Direction
      BY DEF Opposite, Direction
    <3> HIDE DEF signal, opposite
    <3> QED
      BY <3>2, <3>3 DEF SignalRound, signal, opposite
  <2> QED
    BY <2>3, <2>4
<1> QED
  BY <1>1, <1>2

LEMMA AnalysisTurns ==
    ASSUME NEW f, NEW g, Turned(f, g), Len(f) > 0, f[Len(f)].close # f[Len(f)].open,
           ~(NearSupport(f, Len(f)) /\ NearResistance(f, Len(f))),
           NEW r, NEW s, ReadRound(r, s)
    PROVE  SignalRound(Analyze(f, r), Analyze(g, s))
<1> DEFINE i == Len(f)
           side == Evaluate(f, r)
<1>1. i \in 1..Len(f) /\ Len(g) = i
  BY DEF Turned
<1>2. r.bias # None /\ s.bias # None /\ s.conf = r.conf /\ s.atr = r.atr /\ r.atr \in Nat \ {0}
  <2>1. None \notin Side
    BY StockAssumption
  <2> QED
    BY <2>1 DEF ReadRound
<1>3. /\ Analyze(f, r) = Signal(side, r.conf, f[i].close, r.atr)
      /\ Analyze(g, s) = Signal(Evaluate(g, s), r.conf, g[i].close, r.atr)
  BY <1>1, <1>2 DEF Analyze, Predicted
<1>4. f[i].close \in 1..Most /\ g[i].close = Ceiling - f[i].close
  <2>1. Mirrors(f[i], g[i])
    BY <1>1 DEF Turned
  <2> QED
    BY <2>1 DEF Mirrors, MarketBar
<1>5. Evaluate(g, s) = Opposite(side) /\ side \in Direction
  BY EvaluateTurns
<1> HIDE DEF i, side
<1> QED
  BY <1>2, <1>3, <1>4, <1>5, SignalsTurn

LEMMA StretchTurns ==
    ASSUME NEW x \in 1..99, NEW y, y = 100 - x
    PROVE  (y < 70 <=> x > 100 - 70) /\ (y > 100 - 70 <=> x < 70)
OBVIOUS

LEMMA RulesTurn ==
    ASSUME NEW f, NEW g, Turned(f, g), Len(f) > 0, NEW r, NEW s, ReadRound(r, s),
           NEW signal, NEW opposite, SignalRound(signal, opposite),
           NEW rule \in DOMAIN Defaults, NEW news \in {-40, 0, 40}
    PROVE  CheckRule(rule, None, opposite, g, s, -news, 1) = CheckRule(rule, None, signal, f, r, news, 1)
<1> DEFINE side == signal.decision
           back == opposite.decision
           need == OrDefault(rule, None)
           Verdict(judged, good) == IF ~judged THEN "n/a" ELSE IF good THEN "pass" ELSE "fail"
<1>1. side \in {"BUY", "SELL", "WAIT"} /\ back = Opposite(side)
  BY DEF SignalRound, Direction, Side
<1>2. /\ side = "WAIT" <=> back = "WAIT"
      /\ side = "BUY" <=> back = "SELL"
      /\ side = "SELL" <=> back = "BUY"
  BY <1>1 DEF Opposite
<1>3. rule \in {"min_confidence", "with_trend", "min_rr", "not_stretched", "candle_confirm", "news_agrees",
                "max_trades", "calm_market"}
  BY DEF Defaults
<1>4. CASE side = "WAIT"
  BY <1>2, <1>4 DEF CheckRule
<1>5. CASE side # "WAIT"
  <2>1. CASE rule = "min_confidence"
    BY <1>2, <1>5, <2>1 DEF CheckRule, SignalRound
  <2>2. CASE rule = "with_trend"
    <3>1. CheckRule(rule, None, signal, f, r, news, 1) =
            Verdict(r.trend # None, IF side = "BUY" THEN r.trend > 0 ELSE r.trend <= 0)
      BY <1>5, <2>2 DEF CheckRule
    <3>2. CheckRule(rule, None, opposite, g, s, -news, 1) =
            Verdict(s.trend # None, IF back = "BUY" THEN s.trend > 0 ELSE s.trend <= 0)
      BY <1>2, <1>5, <2>2 DEF CheckRule
    <3>3. r.trend = None <=> s.trend = None
      BY DEF ReadRound
    <3>4. r.trend # None => (s.trend > 0 <=> r.trend <= 0) /\ (s.trend <= 0 <=> r.trend > 0)
      BY DEF ReadRound
    <3> QED
      BY <1>1, <1>2, <1>5, <3>1, <3>2, <3>3, <3>4
  <2>3. CASE rule = "min_rr"
    BY <1>2, <1>5, <2>3 DEF CheckRule, SignalRound
  <2>4. CASE rule = "not_stretched"
    <3>1. need = 70
      BY <2>4 DEF OrDefault, Defaults
    <3>2. CheckRule(rule, None, signal, f, r, news, 1) =
            Verdict(TRUE, IF side = "BUY" THEN r.rsi < need ELSE r.rsi > 100 - need)
      BY <1>5, <2>4 DEF CheckRule
    <3>3. CheckRule(rule, None, opposite, g, s, -news, 1) =
            Verdict(TRUE, IF back = "BUY" THEN s.rsi < need ELSE s.rsi > 100 - need)
      BY <1>2, <1>5, <2>4 DEF CheckRule
    <3>4. r.rsi \in 1..99 /\ s.rsi = 100 - r.rsi
      BY Zenon DEF ReadRound
    <3>5. (s.rsi < 70 <=> r.rsi > 100 - 70) /\ (s.rsi > 100 - 70 <=> r.rsi < 70)
      BY <3>4, StretchTurns
    <3> QED
      BY <1>1, <1>2, <1>5, <3>1, <3>2, <3>3, <3>5
  <2>5. CASE rule = "candle_confirm"
    <3>1. Turned(g, f) /\ Len(g) = Len(f) /\ Len(f) \in 1..Len(f)
      BY TurnedBack DEF Turned
    <3>2. CorePatterns(f, Len(f)) # {} <=> CorePatterns(g, Len(g)) # {}
      BY <3>1, CorePatternsTurn
    <3> QED
      BY <1>2, <1>5, <2>5, <3>2 DEF CheckRule
  <2>6. CASE rule = "news_agrees"
    <3>1. news # None /\ -news # None /\ news \in Int /\ -news \in Int
      BY NoneAssumption
    <3>2. CheckRule(rule, None, signal, f, r, news, 1) =
            Verdict(news # None, IF side = "BUY" THEN news > -35 ELSE news < 35)
      BY <1>5, <2>6 DEF CheckRule
    <3>3. CheckRule(rule, None, opposite, g, s, -news, 1) =
            Verdict(-news # None, IF back = "BUY" THEN -news > -35 ELSE -news < 35)
      BY <1>2, <1>5, <2>6 DEF CheckRule
    <3>4. (-news > -35 <=> news < 35) /\ (-news < 35 <=> news > -35)
      BY <3>1
    <3> QED
      BY <1>1, <1>2, <1>5, <3>1, <3>2, <3>3, <3>4
  <2>7. CASE rule = "max_trades"
    BY <1>2, <1>5, <2>7 DEF CheckRule
  <2>8. CASE rule = "calm_market"
    BY <1>2, <1>5, <2>8 DEF CheckRule, ReadRound
  <2> QED
    BY <1>3, <2>1, <2>2, <2>3, <2>4, <2>5, <2>6, <2>7, <2>8
<1> QED
  BY <1>4, <1>5

LEMMA SignalIsMirroredHolds ==
    ASSUME NEW flip, Turned(bars, flip), Len(bars) > 0, ReadRound(study.reading, InvertedReading(study.reading)),
           NEW signal, NEW opposite, SignalRound(signal, opposite)
    PROVE  SignalIsMirrored(signal, opposite, flip)
<1>1. opposite.decision = Opposite(signal.decision)
  BY DEF SignalRound
<1>2. signal.plan # None => opposite.plan.stop = Ceiling - signal.plan.stop
  BY DEF SignalRound
<1>3. ASSUME NEW news \in {-40, 0, 40}
      PROVE  CheckRules(AllRules, opposite, flip, InvertedReading(study.reading), -news, 1)
               = CheckRules(AllRules, signal, bars, study.reading, news, 1)
  <2>1. \A rule \in DOMAIN Defaults : AllRules[rule].enabled /\ AllRules[rule].value = None
    BY DEF AllRules
  <2>2. {rule \in DOMAIN Defaults : AllRules[rule].enabled} = DOMAIN Defaults
    BY <2>1
  <2>3. \A rule \in DOMAIN Defaults :
          CheckRule(rule, None, opposite, flip, InvertedReading(study.reading), -news, 1)
            = CheckRule(rule, None, signal, bars, study.reading, news, 1)
    BY RulesTurn
  <2>4. /\ CheckRules(AllRules, opposite, flip, InvertedReading(study.reading), -news, 1) =
             [rule \in DOMAIN Defaults |->
                CheckRule(rule, None, opposite, flip, InvertedReading(study.reading), -news, 1)]
        /\ CheckRules(AllRules, signal, bars, study.reading, news, 1) =
             [rule \in DOMAIN Defaults |-> CheckRule(rule, None, signal, bars, study.reading, news, 1)]
    BY <2>1, <2>2 DEF CheckRules
  <2> QED
    BY <2>3, <2>4
<1> QED
  BY <1>1, <1>2, <1>3 DEF SignalIsMirrored

-----------------------------------------------------------------------------
(* The report of a stock whose prices are turned *)

\* What an index says of a sector, and what the sector's label is made of.
IndexIs(index) == index.rs \in Int /\ index.above \in BOOLEAN /\ index.slope \in Int

IndicesAre(indices) ==
    \A name \in Range(SectorNames) : indices[name] # None => IndexIs(indices[name])

LEMMA ScoreIs ==
    ASSUME NEW index, IndexIs(index)
    PROVE  SectorScore(index) \in Int
<1>1. (IF index.above THEN 2 ELSE -2) \in Int
  OBVIOUS
<1> QED
  BY <1>1 DEF SectorScore, IndexIs

LEMMA LabelIs ==
    ASSUME NEW s, Readable(s), NEW indices, IndicesAre(indices)
    PROVE  /\ SectorForStock(s, TRUE, indices) # None
           /\ SectorForStock(s, TRUE, indices).label =
                IF indices[s.sector] = None THEN "Unknown" ELSE SectorLabel(SectorScore(indices[s.sector]))
<1> DEFINE known == {k \in DOMAIN SectorNames : indices[SectorNames[k]] # None}
           score == [k \in known |-> SectorScore(indices[SectorNames[k]])]
           order == Sorted(known, score)
           row(n) == [sector |-> SectorNames[order[n]], rank |-> n,
                      label |-> SectorLabel(score[order[n]])]
           rows == {r \in Range(SectorRankings(indices)) : r.sector = s.sector}
           context == SectorForStock(s, TRUE, indices)
<1>1. SectorRankings(indices) = [n \in DOMAIN order |-> row(n)]
  BY DEF SectorRankings
<1>2. DOMAIN SectorNames = {1, 2}
  <2>1. DOMAIN SectorNames = 1..2
    BY StockAssumption, ResearchAssumption
  <2> QED
    BY <2>1
<1>3. \A k \in known : score[k] \in Int
  <2> SUFFICES ASSUME NEW k \in known
               PROVE  SectorScore(indices[SectorNames[k]]) \in Int
    OBVIOUS
  <2>1. SectorNames[k] \in Range(SectorNames) /\ indices[SectorNames[k]] # None
    BY DEF Range
  <2> QED
    BY <2>1, ScoreIs DEF IndicesAre
<1>4. known \in SUBSET {1, 2}
  BY <1>2
<1>5. Range(order) = known
  <2> HIDE DEF known, score
  <2> QED
    BY <1>3, <1>4, SortedIs
<1>6. s.sector \in Range(SectorNames) /\ s.sector # None
  BY StockAssumption DEF Readable
<1>7. \A k \in known : k \in DOMAIN SectorNames /\ indices[SectorNames[k]] # None
                       /\ score[k] = SectorScore(indices[SectorNames[k]])
  OBVIOUS
<1> HIDE DEF score, order
<1>8. ASSUME NEW r \in rows
      PROVE  indices[s.sector] # None /\ r.label = SectorLabel(SectorScore(indices[s.sector]))
  <2>1. r \in Range(SectorRankings(indices)) /\ r.sector = s.sector
    OBVIOUS
  <2>2. PICK n \in DOMAIN order : r = row(n)
    BY <1>1, <2>1 DEF Range
  <2>3. order[n] \in known
    BY <1>5, <2>2 DEF Range
  <2>4. SectorNames[order[n]] = s.sector /\ r.label = SectorLabel(score[order[n]])
    BY <2>1, <2>2
  <2> HIDE DEF known
  <2> QED
    BY <1>7, <2>3, <2>4
<1>9. indices[s.sector] # None => rows # {}
  <2> SUFFICES ASSUME indices[s.sector] # None
               PROVE  rows # {}
    OBVIOUS
  <2>1. PICK k \in DOMAIN SectorNames : SectorNames[k] = s.sector
    BY <1>6 DEF Range
  <2>2. k \in Range(order)
    BY <1>5, <2>1
  <2>3. PICK n \in DOMAIN order : order[n] = k
    BY <2>2 DEF Range
  <2>4. row(n) \in Range(SectorRankings(indices)) /\ row(n).sector = s.sector
    BY <1>1, <2>1, <2>3 DEF Range
  <2> QED
    BY <2>4
<1> HIDE DEF known, rows
<1>10. context = IF rows = {} THEN [sector |-> s.sector, rank |-> None, label |-> "Unknown"]
                 ELSE CHOOSE r \in rows : TRUE
  BY <1>6 DEF SectorForStock, rows
<1> HIDE DEF context
<1>11. CASE indices[s.sector] = None
  <2>1. rows = {}
    BY <1>8, <1>11
  <2>2. context = [sector |-> s.sector, rank |-> None, label |-> "Unknown"]
    BY <1>10, <2>1
  <2>3. context \in SectorRows
    BY <1>6, <2>2 DEF SectorRows
  <2>4. context # None
    BY <2>3, StockAssumption, Zenon
  <2>5. context.label = "Unknown"
    BY <2>2
  <2> QED
    BY <1>11, <2>4, <2>5 DEF context
<1>12. CASE indices[s.sector] # None
  <2>1. rows # {}
    BY <1>9, <1>12
  <2>2. context \in rows
    BY <1>10, <2>1
  <2>3. context.label = SectorLabel(SectorScore(indices[s.sector]))
    BY <1>8, <2>2
  <2>4. context.label \in {"Strong", "Weak", "Neutral"}
    BY <2>3 DEF SectorLabel
  <2>5. context \in Range(SectorRankings(indices)) /\ context.sector = s.sector
    BY <2>2 DEF rows
  <2>6. PICK n \in DOMAIN order : context = row(n)
    BY <1>1, <2>5 DEF Range
  <2>7. n \in Nat
    <3>1. order \in Seq(Nat)
      BY <1>3, <1>4, SortedIs DEF order
    <3>2. DOMAIN order = 1..Len(order) /\ Len(order) \in Nat
      BY <3>1
    <3> QED
      BY <2>6, <3>2
  <2>8. context = [sector |-> s.sector, rank |-> n, label |-> context.label]
    <3>1. context = [sector |-> SectorNames[order[n]], rank |-> n, label |-> SectorLabel(score[order[n]])]
      BY <2>6
    <3>2. SectorNames[order[n]] = s.sector /\ SectorLabel(score[order[n]]) = context.label
      BY <2>5, <3>1
    <3> QED
      BY <3>1, <3>2, Zenon
  <2>9. context \in SectorRows
    BY <1>6, <2>4, <2>7, <2>8 DEF SectorRows
  <2>10. context # None
    BY <2>9, StockAssumption, Zenon
  <2> QED
    BY <1>12, <2>3, <2>10 DEF context
<1> QED
  BY <1>11, <1>12 DEF context

TwinLabel == [Strong |-> "Weak", Weak |-> "Strong", Neutral |-> "Neutral", Unknown |-> "Unknown"]

LEMMA LabelsTurn ==
    ASSUME NEW here, NEW there, IndexIs(here), IndexIs(there),
           there.rs = -here.rs, there.above = ~here.above, there.slope = -here.slope
    PROVE  SectorLabel(SectorScore(there)) = TwinLabel[SectorLabel(SectorScore(here))]
<1>1. SectorScore(there) = -SectorScore(here) /\ SectorScore(here) \in Int
  <2>1. here.rs \in Int /\ here.slope \in Int
    BY Zenon DEF IndexIs
  <2>2. CASE here.above
    <3>1. SectorScore(here) = here.rs + 2 + here.slope
      BY <2>2 DEF SectorScore
    <3>2. SectorScore(there) = -here.rs + (-2) + (-here.slope)
      BY <2>2 DEF SectorScore
    <3> QED
      BY <2>1, <3>1, <3>2
  <2>3. CASE ~here.above
    <3>1. SectorScore(here) = here.rs + (-2) + here.slope
      BY <2>3 DEF SectorScore
    <3>2. SectorScore(there) = -here.rs + 2 + (-here.slope)
      BY <2>3 DEF SectorScore
    <3> QED
      BY <2>1, <3>1, <3>2
  <2> QED
    BY <2>2, <2>3
<1> DEFINE x == SectorScore(here)
           y == SectorScore(there)
<1>2. y = -x /\ x \in Int
  BY <1>1
<1> HIDE DEF x, y
<1>3. /\ SectorLabel(x) = IF x > 3 THEN "Strong" ELSE IF x < -3 THEN "Weak" ELSE "Neutral"
      /\ SectorLabel(y) = IF x < -3 THEN "Strong" ELSE IF x > 3 THEN "Weak" ELSE "Neutral"
  BY <1>2 DEF SectorLabel
<1> QED
  BY <1>2, <1>3 DEF x, y, TwinLabel

\* A stock, and the same stock with its prices turned round the last close.
StockRound(s, t) ==
    /\ Readable(s) /\ Readable(t) /\ s.probs.up # s.probs.down
    /\ t.history = s.history /\ t.model = s.model /\ t.chance = s.chance /\ t.close = s.close
    /\ t.atr = s.atr /\ t.adx = s.adx /\ t.past = s.past /\ t.sector = s.sector
    /\ t.probs.up = s.probs.down /\ t.probs.down = s.probs.up /\ t.probs.flat = s.probs.flat
    /\ s.macd \in Int /\ s.ahead \in Int /\ s.ahead # 0 /\ s.rsi \in 1..99
    /\ t.stack = -s.stack /\ t.macd = -s.macd /\ t.ahead = -s.ahead /\ t.rsi = 100 - s.rsi

\* What the two know of their sector.
SectorRound(here, there) ==
    /\ here # None /\ there # None
    /\ here.label \in {"Strong", "Weak", "Neutral", "Unknown"}
    /\ there.label = TwinLabel[here.label]

LEMMA LikeliestTurns ==
    ASSUME NEW up \in Int, NEW down \in Int, NEW flat \in Int, up # down
    PROVE  LET here == IF up >= down /\ up >= flat THEN 1 ELSE IF down >= flat THEN -1 ELSE 0
               there == IF down >= up /\ down >= flat THEN 1 ELSE IF up >= flat THEN -1 ELSE 0
           IN  <<here, there>> \in {<<1, -1>>, <<-1, 1>>, <<0, 0>>}
OBVIOUS

LEMMA SideTurns ==
    ASSUME NEW s, NEW t, StockRound(s, t)
    PROVE  LET here == DirectionSide(s.probs)
               there == DirectionSide(t.probs)
           IN  <<here, there>> \in {<<1, -1>>, <<-1, 1>>, <<0, 0>>}
<1>1. /\ s.probs.up \in Int /\ s.probs.down \in Int /\ s.probs.flat \in Int /\ s.probs.up # s.probs.down
      /\ t.probs.up = s.probs.down /\ t.probs.down = s.probs.up /\ t.probs.flat = s.probs.flat
  BY Zenon DEF StockRound, Readable
<1> QED
  BY <1>1, LikeliestTurns DEF DirectionSide

LEMMA LevelsTurn ==
    ASSUME NEW close \in Int, NEW atr \in Int, NEW side, NEW back,
           <<side, back>> \in {<<1, -1>>, <<-1, 1>>}
    PROVE  LET plan == LevelsAt(side, close, atr)
           IN  LevelsAt(back, close, atr) = [level \in DOMAIN plan |-> 4 * close - plan[level]]
<1> DEFINE plan == LevelsAt(side, close, atr)
           mirror == LevelsAt(back, close, atr)
           Fields == {"entry", "stop", "target1", "target2"}
<1>1. /\ DOMAIN plan = Fields /\ DOMAIN mirror = Fields
      /\ mirror = [level \in Fields |-> mirror[level]]
  BY DEF LevelsAt
<1>2. /\ plan.entry = 2 * close /\ mirror.entry = 2 * close
      /\ plan.stop = 2 * (close - side * atr) /\ mirror.stop = 2 * (close - back * atr)
      /\ plan.target1 = 2 * close + side * 3 * atr /\ mirror.target1 = 2 * close + back * 3 * atr
      /\ plan.target2 = 2 * close + side * 5 * atr /\ mirror.target2 = 2 * close + back * 5 * atr
  BY DEF LevelsAt
<1> HIDE DEF plan, mirror
<1>3. \A level \in Fields : mirror[level] = 4 * close - plan[level]
  <2>1. CASE side = 1 /\ back = -1
    BY <1>2, <2>1
  <2>2. CASE side = -1 /\ back = 1
    BY <1>2, <2>2
  <2> QED
    BY <2>1, <2>2
<1> QED
  BY <1>1, <1>3 DEF plan, mirror

LEMMA StateTurns ==
    ASSUME NEW s, NEW t, StockRound(s, t)
    PROVE  MarketState(t) = [MarketState(s) EXCEPT !.trend = -@]
<1>1. t.stack = -s.stack /\ s.stack \in Int /\ t.adx = s.adx /\ t.close = s.close /\ t.atr = s.atr
  BY Zenon DEF StockRound, Readable
<1>2. t.stack # 0 <=> s.stack # 0
  BY <1>1
<1> DEFINE state == MarketState(s)
           mirror == MarketState(t)
           Fields == {"trend", "strong", "volatility"}
<1>3. /\ state = [trend |-> state.trend, strong |-> state.strong, volatility |-> state.volatility]
      /\ mirror = [trend |-> mirror.trend, strong |-> mirror.strong, volatility |-> mirror.volatility]
      /\ state.trend = s.stack /\ mirror.trend = t.stack
  BY DEF MarketState
<1>4. mirror.strong = state.strong /\ mirror.volatility = state.volatility
  BY <1>1, <1>2 DEF MarketState
<1> HIDE DEF state, mirror
<1> QED
  BY <1>1, <1>3, <1>4 DEF state, mirror

LEMMA SupportTurns ==
    ASSUME NEW side, NEW back, <<side, back>> \in {<<1, -1>>, <<-1, 1>>},
           NEW here, NEW there, SectorRound(here, there)
    PROVE  Supports(back, there) = Supports(side, here)
<1>1. /\ here # None /\ there # None
      /\ \/ here.label = "Strong" /\ there.label = "Weak"
         \/ here.label = "Weak" /\ there.label = "Strong"
         \/ here.label = "Neutral" /\ there.label = "Neutral"
         \/ here.label = "Unknown" /\ there.label = "Unknown"
  BY DEF SectorRound, TwinLabel
<1>2. CASE side = 1 /\ back = -1
  BY <1>1, <1>2 DEF Supports
<1>3. CASE side = -1 /\ back = 1
  BY <1>1, <1>3 DEF Supports
<1> QED
  BY <1>2, <1>3

LEMMA LeadTurns ==
    ASSUME NEW ahead \in Int, ahead # 0, NEW side, NEW back,
           <<side, back>> \in {<<1, -1>>, <<-1, 1>>}
    PROVE  /\ (-ahead > 0) = (back > 0) <=> (ahead > 0) = (side > 0)
           /\ Abs(-ahead) = Abs(ahead)
BY DEF Abs

LEMMA StretchedTurns ==
    ASSUME NEW rsi \in 1..99, NEW side, NEW back,
           <<side, back>> \in {<<1, -1>>, <<-1, 1>>}
    PROVE  (IF back > 0 THEN 100 - rsi >= 72 ELSE 100 - rsi <= 28) <=> (IF side > 0 THEN rsi >= 72 ELSE rsi <= 28)
OBVIOUS

LEMMA SignTurns ==
    ASSUME NEW x \in Int, NEW side, NEW back,
           <<side, back>> \in {<<1, -1>>, <<-1, 1>>}
    PROVE  -x = back <=> x = side
OBVIOUS

\* The reasons, of what is true of the stock on the side.
Argued(trend, momentum, stretched, ahead, far, known, well, opposed, ranked, wild) ==
    LET leads == IF far THEN {"strength"} ELSE {}
        past == IF known THEN {"history"} ELSE {}
        sector == IF ranked THEN {"sector"} ELSE {}
        shaky == IF wild THEN {"volatility"} ELSE {}
        for == (IF trend THEN {"trend"} ELSE {}) \cup (IF momentum THEN {"momentum"} ELSE {})
               \cup (IF stretched THEN {} ELSE {"rsi"}) \cup (IF ahead THEN leads ELSE {})
               \cup (IF well THEN past ELSE {})
               \cup (IF opposed THEN {} ELSE sector)
    IN  [for |-> for,
         against |-> ({"trend", "momentum", "rsi"} \cup leads \cup past \cup sector \cup shaky) \ for]

LEMMA ReasonsTurn ==
    ASSUME NEW s, NEW t, StockRound(s, t), NEW here, NEW there, SectorRound(here, there),
           NEW side, NEW back, <<side, back>> \in {<<1, -1>>, <<-1, 1>>}
    PROVE  Reasons(t, back, there) = Reasons(s, side, here)
<1>1. /\ s.stack \in Int /\ s.macd \in Int /\ s.ahead \in Int /\ s.ahead # 0 /\ s.rsi \in 1..99
      /\ t.stack = -s.stack /\ t.macd = -s.macd /\ t.ahead = -s.ahead /\ t.rsi = 100 - s.rsi
      /\ t.past = s.past
  BY Zenon DEF StockRound, Readable
<1>2. /\ t.stack = back <=> s.stack = side
      /\ t.macd = back <=> s.macd = side
  BY <1>1, SignTurns
<1>3. /\ (t.ahead > 0) = (back > 0) <=> (s.ahead > 0) = (side > 0)
      /\ Abs(t.ahead) = Abs(s.ahead)
  BY <1>1, LeadTurns
<1>4. StockRsi(s) = s.rsi /\ StockRsi(t) = 100 - s.rsi
  BY <1>1 DEF StockRsi
<1>5. (IF back > 0 THEN StockRsi(t) >= 72 ELSE StockRsi(t) <= 28)
        <=> (IF side > 0 THEN StockRsi(s) >= 72 ELSE StockRsi(s) <= 28)
  BY <1>1, <1>4, StretchedTurns
<1>6. Supports(back, there) = Supports(side, here)
  BY SupportTurns
<1>7. there # None /\ there.label # "Unknown" <=> here # None /\ here.label # "Unknown"
  BY DEF SectorRound, TwinLabel
<1>8. MarketState(t).volatility = MarketState(s).volatility
  <2>1. t.close = s.close /\ t.atr = s.atr
    BY Zenon DEF StockRound
  <2> QED
    BY <2>1 DEF MarketState
<1> DEFINE Trend(u, on) == u.stack = on
           Momentum(u, on) == u.macd = on
           Stretched(u, on) == IF on > 0 THEN StockRsi(u) >= 72 ELSE StockRsi(u) <= 28
           Leads(u, on) == (u.ahead > 0) = (on > 0)
           Far(u) == Abs(u.ahead) > 1
           Past(u) == u.past # None
           Well(u) == u.past # None /\ u.past >= 55
           Against(on, context) == Supports(on, context) = "against"
           Known(context) == context # None /\ context.label # "Unknown"
           Wild(u) == MarketState(u).volatility = "high"
<1>9. \A u, on, context :
        Reasons(u, on, context) =
          Argued(Trend(u, on), Momentum(u, on), Stretched(u, on), Leads(u, on), Far(u), Past(u), Well(u),
                 Against(on, context), Known(context), Wild(u))
  BY Zenon DEF Reasons, Argued
<1>10. /\ Trend(t, back) = Trend(s, side) /\ Momentum(t, back) = Momentum(s, side)
       /\ Stretched(t, back) = Stretched(s, side) /\ Leads(t, back) = Leads(s, side)
       /\ Far(t) = Far(s) /\ Past(t) = Past(s) /\ Well(t) = Well(s)
       /\ Against(back, there) = Against(side, here) /\ Known(there) = Known(here) /\ Wild(t) = Wild(s)
  BY <1>1, <1>2, <1>3, <1>5, <1>6, <1>7, <1>8
<1> HIDE DEF Trend, Momentum, Stretched, Leads, Far, Past, Well, Against, Known, Wild
<1> QED
  BY <1>9, <1>10, Zenon

\* The indices, and those of the market upside down.
IndicesRound(indices, turned) ==
    \A name \in Range(SectorNames) :
      /\ turned[name] = None <=> indices[name] = None
      /\ indices[name] # None =>
           /\ IndexIs(indices[name]) /\ IndexIs(turned[name])
           /\ turned[name].rs = -indices[name].rs /\ turned[name].above = ~indices[name].above
           /\ turned[name].slope = -indices[name].slope

LEMMA SectorsTurn ==
    ASSUME NEW s, NEW t, Readable(s), Readable(t), t.sector = s.sector,
           NEW indices, NEW turned, IndicesRound(indices, turned)
    PROVE  SectorRound(SectorForStock(s, TRUE, indices), SectorForStock(t, TRUE, turned))
<1> DEFINE here == indices[s.sector]
           there == turned[s.sector]
           context == SectorForStock(s, TRUE, indices)
           opposite == SectorForStock(t, TRUE, turned)
<1>1. s.sector \in Range(SectorNames)
  BY DEF Readable
<1>2. IndicesAre(indices) /\ IndicesAre(turned)
  BY Zenon DEF IndicesAre, IndicesRound
<1>3. /\ context # None
      /\ context.label = IF here = None THEN "Unknown" ELSE SectorLabel(SectorScore(here))
  BY <1>2, LabelIs
<1>4. /\ opposite # None
      /\ opposite.label = IF there = None THEN "Unknown" ELSE SectorLabel(SectorScore(there))
  <2>1. /\ SectorForStock(t, TRUE, turned) # None
        /\ SectorForStock(t, TRUE, turned).label =
             IF turned[t.sector] = None THEN "Unknown" ELSE SectorLabel(SectorScore(turned[t.sector]))
    BY <1>2, LabelIs
  <2> QED
    BY <2>1
<1>5. /\ there = None <=> here = None
      /\ here # None => /\ IndexIs(here) /\ IndexIs(there)
                        /\ there.rs = -here.rs /\ there.above = ~here.above /\ there.slope = -here.slope
  BY <1>1, Zenon DEF IndicesRound
<1> HIDE DEF here, there, context, opposite
<1>6. CASE here = None
  <2>1. context.label = "Unknown" /\ opposite.label = "Unknown"
    BY <1>3, <1>4, <1>5, <1>6
  <2>2. TwinLabel["Unknown"] = "Unknown"
    BY DEF TwinLabel
  <2> QED
    BY <1>3, <1>4, <2>1, <2>2 DEF SectorRound, context, opposite
<1>7. CASE here # None
  <2>1. SectorLabel(SectorScore(there)) = TwinLabel[SectorLabel(SectorScore(here))]
    BY <1>5, <1>7, LabelsTurn
  <2>2. SectorLabel(SectorScore(here)) \in {"Strong", "Weak", "Neutral"}
    BY DEF SectorLabel
  <2>3. context.label = SectorLabel(SectorScore(here)) /\ opposite.label = SectorLabel(SectorScore(there))
    BY <1>3, <1>4, <1>5, <1>7
  <2> QED
    BY <1>3, <1>4, <2>1, <2>2, <2>3 DEF SectorRound, context, opposite
<1> QED
  BY <1>6, <1>7

\* The report of a stock with enough history.
LEMMA ReportReads ==
    ASSUME NEW s, Readable(s), NEW nifty, NEW indices, s.history = "enough"
    PROVE  LET report == AnalyzeStock(s, nifty, indices)
               side == DirectionSide(s.probs)
               lean == IF side > 0 THEN "BUY" ELSE IF side < 0 THEN "SELL" ELSE None
               atr == IF s.atr = 0 THEN s.close \div 50 ELSE s.atr
               context == SectorForStock(s, nifty, indices)
           IN  /\ report # None
               /\ report.recommendation = IF s.model /\ side # 0 /\ Takes(s) THEN lean ELSE "WAIT"
               /\ report.leaning = lean
               /\ report.plan = IF side = 0 THEN None ELSE LevelsAt(side, s.close, atr)
               /\ report.state = MarketState(s)
               /\ report.sector = context
               /\ report.reasons = Reasons(s, IF side = 0 THEN 1 ELSE side, context)
<1>1. AnalyzeStock(s, nifty, indices) # None
  BY ReportIs
<1> QED
  BY <1>1 DEF AnalyzeStock

LEMMA ReportIsMirroredHolds ==
    ASSUME NEW s, StockRound(s, InvertedStock(s)),
           NEW indices, IndicesRound(indices, InvertedIndices(indices))
    PROVE  ReportIsMirrored(s, indices)
<1> DEFINE t == InvertedStock(s)
           turned == InvertedIndices(indices)
           report == AnalyzeStock(s, TRUE, indices)
           mirror == AnalyzeStock(t, TRUE, turned)
           side == DirectionSide(s.probs)
           back == DirectionSide(t.probs)
           here == SectorForStock(s, TRUE, indices)
           there == SectorForStock(t, TRUE, turned)
           atr == IF s.atr = 0 THEN s.close \div 50 ELSE s.atr
<1>1. /\ Readable(s) /\ Readable(t) /\ StockRound(s, t) /\ IndicesRound(indices, turned)
      /\ t.history = s.history /\ t.model = s.model /\ t.chance = s.chance /\ t.close = s.close
      /\ t.atr = s.atr /\ t.sector = s.sector
  BY Zenon DEF StockRound
<1>2. s.close \in Int /\ atr \in Int
  BY <1>1 DEF Readable
<1>3. <<side, back>> \in {<<1, -1>>, <<-1, 1>>, <<0, 0>>}
  BY <1>1, SideTurns
<1>4. SectorRound(here, there)
  BY <1>1, SectorsTurn
<1>5. MarketState(t) = [MarketState(s) EXCEPT !.trend = -@]
  BY <1>1, StateTurns
<1> HIDE DEF t, turned
<1>6. CASE s.history # "enough"
  <2>1. report = None /\ mirror = None
    BY <1>1, <1>6 DEF AnalyzeStock
  <2> QED
    BY <2>1 DEF ReportIsMirrored, t, turned
<1>7. CASE s.history = "enough"
  <2>1. /\ report # None
        /\ report.recommendation =
             IF s.model /\ side # 0 /\ Takes(s)
             THEN IF side > 0 THEN "BUY" ELSE IF side < 0 THEN "SELL" ELSE None ELSE "WAIT"
        /\ report.leaning = IF side > 0 THEN "BUY" ELSE IF side < 0 THEN "SELL" ELSE None
        /\ report.plan = IF side = 0 THEN None ELSE LevelsAt(side, s.close, atr)
        /\ report.state = MarketState(s) /\ report.sector = here
        /\ report.reasons = Reasons(s, IF side = 0 THEN 1 ELSE side, here)
    BY <1>1, <1>7, ReportReads
  <2>2. /\ mirror.recommendation =
             IF s.model /\ back # 0 /\ Takes(s)
             THEN IF back > 0 THEN "BUY" ELSE IF back < 0 THEN "SELL" ELSE None ELSE "WAIT"
        /\ mirror.leaning = IF back > 0 THEN "BUY" ELSE IF back < 0 THEN "SELL" ELSE None
        /\ mirror.plan = IF back = 0 THEN None ELSE LevelsAt(back, s.close, atr)
        /\ mirror.state = MarketState(t) /\ mirror.sector = there
        /\ mirror.reasons = Reasons(t, IF back = 0 THEN 1 ELSE back, there)
    <3>1. Takes(t) <=> Takes(s)
      BY <1>1 DEF Takes
    <3> QED
      BY <1>1, <1>7, <3>1, ReportReads
  <2> HIDE DEF report, mirror, side, back, here, there, atr
  <2>3. CASE side = 0
    <3>1. report.leaning = None
      BY <2>1, <2>3
    <3> QED
      BY <2>1, <3>1 DEF ReportIsMirrored, report, t, turned
  <2>4. CASE side # 0
    <3>1. <<side, back>> \in {<<1, -1>>, <<-1, 1>>}
      BY <1>3, <2>4
    <3>2. /\ mirror.recommendation = Opposite(report.recommendation)
          /\ mirror.leaning = Opposite(report.leaning)
      <4>1. CASE side = 1 /\ back = -1
        BY <2>1, <2>2, <4>1 DEF Opposite
      <4>2. CASE side = -1 /\ back = 1
        BY <2>1, <2>2, <4>2 DEF Opposite
      <4> QED
        BY <3>1, <4>1, <4>2
    <3>3. mirror.plan = [level \in DOMAIN report.plan |-> 4 * s.close - report.plan[level]]
      <4>1. report.plan = LevelsAt(side, s.close, atr) /\ mirror.plan = LevelsAt(back, s.close, atr)
        BY <2>1, <2>2, <3>1
      <4> QED
        BY <1>2, <3>1, <4>1, LevelsTurn
    <3>4. mirror.state = [report.state EXCEPT !.trend = -@]
      BY <1>5, <2>1, <2>2
    <3>5. mirror.sector.label = TwinLabel[report.sector.label]
      BY <1>4, <2>1, <2>2 DEF SectorRound
    <3>6. mirror.reasons = report.reasons
      <4>1. report.reasons = Reasons(s, side, here) /\ mirror.reasons = Reasons(t, back, there)
        BY <2>1, <2>2, <3>1
      <4> QED
        BY <1>1, <1>4, <3>1, <4>1, ReasonsTurn
    <3> QED
      BY <2>1, <3>2, <3>3, <3>4, <3>5, <3>6 DEF ReportIsMirrored, TwinLabel, report, mirror, t, turned
  <2> QED
    BY <2>3, <2>4
<1> QED
  BY <1>6, <1>7

LEMMA StocksTurn ==
    ASSUME NEW s \in Stocks, s.probs.up # s.probs.down, s.rsi # 0
    PROVE  StockRound(s, InvertedStock(s))
<1> DEFINE t == InvertedStock(s)
<1>1. /\ s.history \in {"thin", "enough"} /\ s.model \in BOOLEAN /\ s.chance \in {TakeAt - 1, TakeAt}
      /\ s.probs \in {[up |-> 50, down |-> 30, flat |-> 20], [up |-> 30, down |-> 35, flat |-> 35],
                      [up |-> 40, down |-> 40, flat |-> 20], [up |-> 30, down |-> 30, flat |-> 40]}
      /\ s.close \in {100} /\ s.atr \in {0, 2, 3} /\ s.stack \in -1..1 /\ s.adx \in {25}
      /\ s.rsi \in {0, 28, 71} /\ s.macd \in {-1, 1} /\ s.ahead \in {-2, 1} /\ s.past \in {None, 55}
      /\ s.sector \in {"IT"}
  BY DEF Stocks
<1>2. DOMAIN s = {"history", "model", "probs", "chance", "close", "atr", "stack", "adx", "rsi",
                  "macd", "ahead", "past", "sector"}
  BY DEF Stocks
<1>3. /\ t.history = s.history /\ t.model = s.model /\ t.chance = s.chance /\ t.close = s.close
      /\ t.atr = s.atr /\ t.adx = s.adx /\ t.past = s.past /\ t.sector = s.sector
      /\ t.probs = [up |-> s.probs.down, down |-> s.probs.up, flat |-> s.probs.flat]
      /\ t.stack = -s.stack /\ t.macd = -s.macd /\ t.ahead = -s.ahead /\ t.rsi = 100 - s.rsi
  BY <1>2 DEF InvertedStock
<1> HIDE DEF t
<1>4. s.probs.up \in Int /\ s.probs.down \in Int /\ s.probs.flat \in Int
  BY <1>1
<1>5. t.probs.up = s.probs.down /\ t.probs.down = s.probs.up /\ t.probs.flat = s.probs.flat
  BY <1>3
<1>6. s.chance \in Int /\ s.close \in Int /\ s.atr \in Int /\ s.stack \in Int /\ s.sector \in Range(SectorNames)
  BY <1>1, StockAssumption, ResearchAssumption
<1>7. s.macd \in Int /\ s.ahead \in Int /\ s.ahead # 0 /\ s.rsi \in 1..99 /\ t.stack \in Int
  BY <1>1, <1>3, <1>6
<1>8. Readable(s) /\ Readable(t)
  BY <1>1, <1>3, <1>4, <1>5, <1>6, <1>7, Zenon DEF Readable
<1>9. StockRound(s, t)
  BY <1>3, <1>5, <1>7, <1>8, Zenon DEF StockRound
<1> QED
  BY <1>9 DEF t

LEMMA IndicesTurn ==
    ASSUME NEW indices \in Indices
    PROVE  IndicesRound(indices, InvertedIndices(indices))
<1> DEFINE turned == InvertedIndices(indices)
           Known == [rs : Int, above : BOOLEAN, slope : Int]
<1>1. /\ DOMAIN indices = {"Banking", "IT"}
      /\ indices["Banking"] \in Known /\ indices["IT"] \in Known \cup {None}
  <2> DEFINE bank == [rs |-> 0, above |-> TRUE, slope |-> 1]
             weak == [rs |-> -2, above |-> FALSE, slope |-> 0]
             strong == [rs |-> 2, above |-> TRUE, slope |-> 0]
             neutral == [rs |-> -1, above |-> FALSE, slope |-> 0]
  <2>1. bank \in Known /\ weak \in Known /\ strong \in Known /\ neutral \in Known
    OBVIOUS
  <2>2. Indices = [Banking : {bank}, IT : {None, weak, strong, neutral}]
    BY Zenon DEF Indices
  <2> HIDE DEF bank, weak, strong, neutral, Known
  <2>3. DOMAIN indices = {"Banking", "IT"} /\ indices["Banking"] \in {bank}
        /\ indices["IT"] \in {None, weak, strong, neutral}
    BY <2>2
  <2> QED
    BY <2>1, <2>3
<1>2. Range(SectorNames) = {"Banking", "IT"}
  BY ResearchAssumption
<1>3. ASSUME NEW name \in Range(SectorNames)
      PROVE  /\ turned[name] = None <=> indices[name] = None
             /\ indices[name] # None =>
                  /\ IndexIs(indices[name]) /\ IndexIs(turned[name])
                  /\ turned[name].rs = -indices[name].rs /\ turned[name].above = ~indices[name].above
                  /\ turned[name].slope = -indices[name].slope
  <2> DEFINE x == indices[name]
             y == turned[name]
  <2>1. x \in Known \cup {None}
    BY <1>1, <1>2
  <2>2. y = IF x = None THEN None ELSE [rs |-> -x.rs, above |-> ~x.above, slope |-> -x.slope]
    BY <1>1, <1>2 DEF InvertedIndices
  <2> HIDE DEF x, y
  <2>3. CASE x = None
    BY <2>2, <2>3 DEF x, y
  <2>4. CASE x # None
    <3>1. x.rs \in Int /\ x.above \in BOOLEAN /\ x.slope \in Int
      BY <2>1, <2>4
    <3>2. y = [rs |-> -x.rs, above |-> ~x.above, slope |-> -x.slope]
      BY <2>2, <2>4
    <3>3. y \in Known
      BY <3>1, <3>2
    <3>4. y # None
      BY <3>3, StockAssumption, Zenon
    <3>5. y.rs = -x.rs /\ y.above = ~x.above /\ y.slope = -x.slope
      BY <3>2
    <3>6. y.rs \in Int /\ y.above \in BOOLEAN /\ y.slope \in Int
      BY <3>3
    <3> QED
      BY <2>4, <3>1, <3>4, <3>5, <3>6 DEF IndexIs, x, y
  <2> QED
    BY <2>3, <2>4
<1> QED
  BY <1>3 DEF IndicesRound

\* What is read of one market is read, turned, of the other.
LEMMA FeaturesTurn ==
    ASSUME NEW f, NEW g, Turned(f, g), NEW i \in 1..Len(f), Len(f) = i
    PROVE  /\ CorePatterns(g, i) \cap Directed = SwapNames(CorePatterns(f, i))
           /\ ExtendedPatternsAt(g, i) \cap Directed = SwapNames(ExtendedPatternsAt(f, i))
           /\ StructureIsTurned(StructureAt(f, i), StructureAt(g, i))
           /\ FairValueGap(g, i) = -FairValueGap(f, i)
           /\ \A k \in 1..i : OrderBlock(g, k) = -OrderBlock(f, k)
           /\ LiquidityPools(g, i).sell = LiquidityPools(f, i).buy
           /\ TrueRange(g, i) = TrueRange(f, i)
           /\ DirectionalMove(g, i).plus = DirectionalMove(f, i).minus
<1>1. Turned(g, f) /\ Len(g) = Len(f)
  BY TurnedBack DEF Turned
<1>2. CorePatterns(g, i) \cap Directed = SwapNames(CorePatterns(f, i))
  <2>1. /\ Twinned(CorePatterns(f, i), CorePatterns(g, i))
        /\ Twinned(CorePatterns(g, i), CorePatterns(f, i))
    BY <1>1, CorePatternsTurn
  <2> QED
    BY <2>1, NamesSwap
<1>3. ExtendedPatternsAt(g, i) \cap Directed = SwapNames(ExtendedPatternsAt(f, i))
  <2>1. /\ Twinned(ExtendedPatternsAt(f, i), ExtendedPatternsAt(g, i))
        /\ Twinned(ExtendedPatternsAt(g, i), ExtendedPatternsAt(f, i))
    BY <1>1, ExtendedPatternsTurn
  <2> QED
    BY <2>1, NamesSwap
<1>4. StructureIsTurned(StructureAt(f, i), StructureAt(g, i))
  <2>1. Turns(StructureAt(f, i), StructureAt(g, i))
    BY StructureTurns
  <2> QED
    BY <2>1 DEF Turns, StructureIsTurned
<1>5. \A k \in 1..i : OrderBlock(g, k) = -OrderBlock(f, k)
  BY BlocksTurn
<1> QED
  BY <1>2, <1>3, <1>4, <1>5, GapTurns, LiquidityTurns, RangeTurns, MovesTurn

\* A rising and a falling market are read alike: patterns, structure, zones,
\* signal, checklist and stock report, on histories of any length and at any price.
THEOREM MirrorSymmetryHolds == Spec => []MirrorSymmetry
<1>1. IInv => MirrorSymmetry
  <2> SUFFICES ASSUME IInv
               PROVE  MirrorSymmetry
    OBVIOUS
  <2>1. ASSUME IsStock, study.stock.probs.up # study.stock.probs.down, study.stock.rsi # 0
        PROVE  ReportIsMirrored(study.stock, study.indices)
    <3>1. study.stock \in Stocks /\ study.indices \in Indices
      BY <2>1, StudyKinds DEF IInv, IsStock, StockStudies
    <3> QED
      BY <2>1, <3>1, StocksTurn, IndicesTurn, ReportIsMirroredHolds
  <2>2. ASSUME IsMarket, bars # <<>>
        PROVE  LET i == Len(bars)
                   flip == Inverted(bars)
               IN  /\ CorePatterns(flip, i) \cap Directed = SwapNames(CorePatterns(bars, i))
                   /\ ExtendedPatternsAt(flip, i) \cap Directed = SwapNames(ExtendedPatternsAt(bars, i))
                   /\ StructureIsTurned(StructureAt(bars, i), StructureAt(flip, i))
                   /\ FairValueGap(flip, i) = -FairValueGap(bars, i)
                   /\ \A k \in 1..i : OrderBlock(flip, k) = -OrderBlock(bars, k)
                   /\ LiquidityPools(flip, i).sell = LiquidityPools(bars, i).buy
                   /\ TrueRange(flip, i) = TrueRange(bars, i)
                   /\ DirectionalMove(flip, i).plus = DirectionalMove(bars, i).minus
                   /\ study.reading.bias # None /\ bars[i].close # bars[i].open
                      /\ ~(NearSupport(bars, i) /\ NearResistance(bars, i)) =>
                        SignalIsMirrored(Analyze(bars, study.reading),
                                         Analyze(flip, InvertedReading(study.reading)), flip)
    <3> DEFINE i == Len(bars)
               flip == Inverted(bars)
    <3>1. bars \in Seq(MarketBar) /\ Len(bars) \in Nat /\ Len(bars) > 0
      <4>1. bars \in Seq(MarketBar)
        BY <2>2 DEF IInv
      <4> QED
        BY <2>2, <4>1
    <3>2. Turned(bars, flip) /\ i \in 1..Len(bars) /\ Len(bars) = i
      BY <3>1, InvertedIsTurned
    <3>3. study.reading \in Readings
      BY <2>2, StudyKinds DEF IInv, IsMarket, MarketStudies
    <3> HIDE DEF flip
    <3>4. ASSUME study.reading.bias # None, bars[i].close # bars[i].open,
                 ~(NearSupport(bars, i) /\ NearResistance(bars, i))
          PROVE  SignalIsMirrored(Analyze(bars, study.reading),
                                  Analyze(flip, InvertedReading(study.reading)), flip)
      <4>1. ReadRound(study.reading, InvertedReading(study.reading))
        BY <3>3, <3>4, InvertedReadingIs
      <4>2. SignalRound(Analyze(bars, study.reading), Analyze(flip, InvertedReading(study.reading)))
        BY <3>1, <3>2, <3>4, <4>1, AnalysisTurns
      <4> QED
        BY <3>1, <3>2, <4>1, <4>2, SignalIsMirroredHolds
    <3>5. /\ CorePatterns(flip, i) \cap Directed = SwapNames(CorePatterns(bars, i))
          /\ ExtendedPatternsAt(flip, i) \cap Directed = SwapNames(ExtendedPatternsAt(bars, i))
          /\ StructureIsTurned(StructureAt(bars, i), StructureAt(flip, i))
          /\ FairValueGap(flip, i) = -FairValueGap(bars, i)
          /\ \A k \in 1..i : OrderBlock(flip, k) = -OrderBlock(bars, k)
          /\ LiquidityPools(flip, i).sell = LiquidityPools(bars, i).buy
          /\ TrueRange(flip, i) = TrueRange(bars, i)
          /\ DirectionalMove(flip, i).plus = DirectionalMove(bars, i).minus
      <4> HIDE DEF i
      <4> QED
        BY <3>2, FeaturesTurn
    <3> QED
      BY <3>4, <3>5 DEF flip
  <2> QED
    BY <2>1, <2>2 DEF MirrorSymmetry
<1> QED
  BY <1>1, ResearchInvariant, PTL

=============================================================================
