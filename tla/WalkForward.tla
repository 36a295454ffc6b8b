---------------------------- MODULE WalkForward ----------------------------
(***************************************************************************)
(* The splits of the evaluations (app/training, app/evaluation, app/ai):   *)
(* which rows of a history a model is fitted on and which it is judged on. *)
(* Rows are numbered from 0; the label of row t reads the bars t+1 to      *)
(* t+h, where h is the horizon, so a split that puts rows apart may still  *)
(* let the fitted model see the judged bars.  The evaluations by bars are  *)
(* purged of that; the one by calls, MetaFold, is not.  Rows are what is   *)
(* left of the bars without those that lack a feature or a label: rows are *)
(* no farther apart than their bars.  Models that were fitted elsewhere    *)
(* and are only loaded to be judged have no split here.                    *)
(*                                                                         *)
(* A split is a record [train, test] of sets of rows.                      *)
(***************************************************************************)
EXTENDS Integers, FiniteSets

Less(x, y) == IF x <= y THEN x ELSE y

\* np.arange(from, to, step)
Every(step, from, to) == {r \in from..(to - 1) : (r - from) % step = 0}

\* Mutant of Gap: the first row after the training rows is judged.
NoGap(h) == 0

\* The rows between training and validation that belong to neither.
Gap(h) == h

\* int(n * 0.85): the last 15 per cent are kept apart.
DevEnd(n) == (n * 85) \div 100

\* The k-th expanding fold of `end' rows cut into folds+1 pieces.
TrainEnd(end, folds, k) == (end \div (folds + 1)) * k
ValStart(end, folds, k, h) == TrainEnd(end, folds, k) + Gap(h)
ValEnd(end, folds, k, h) == Less(ValStart(end, folds, k, h) + end \div (folds + 1), end)

-----------------------------------------------------------------------------

\* purged_walk_forward, and failure_analysis._collect: every h-th row is judged.
PurgedFold(n, folds, k, h) ==
    [train |-> 0..(TrainEnd(DevEnd(n), folds, k) - 1),
     test  |-> Every(h, ValStart(DevEnd(n), folds, k, h), ValEnd(DevEnd(n), folds, k, h))]

\* oof_direction_probs: the folds cover the whole history, the last one to its
\* end.
DirectionFold(n, folds, k, h) ==
    [train |-> 0..(TrainEnd(n, folds, k) - 1),
     test  |-> ValStart(n, folds, k, h)..((IF k < folds THEN ValEnd(n, folds, k, h) ELSE n) - 1)]

\* _oof_outcome_probs and outcome_training.run: every row of the fold, so that
\* judged labels overlap.
OutcomeFold(n, folds, k, h) ==
    [train |-> 0..(TrainEnd(DevEnd(n), folds, k) - 1),
     test  |-> ValStart(DevEnd(n), folds, k, h)..(ValEnd(DevEnd(n), folds, k, h) - 1)]

\* _oof_outcome_probs, the untouched final slice.
FinalSlice(n, h) == [train |-> 0..(DevEnd(n) - h - 1), test |-> DevEnd(n)..(n - 1)]

\* backtest.run and sweep: the frame is cut before the trainer sees it, and
\* make_labels labels no row whose horizon leaves it.
FrameCut(n, h) ==
    LET cut == (n * 75) \div 100
    IN  [train |-> 0..(cut - h - 1), test |-> cut..(n - 1)]

\* baselines.run and feature_ablation._score: one cut at 80 per cent.
Holdout(n, h) ==
    LET cut == (n * 8) \div 10
    IN  [train |-> 0..(cut - h - 1), test |-> Every(h, cut, n)]

\* calibration and confidence_analysis: the model, its calibrator, the test.
ThreeWay(n, h) ==
    LET a == (n * 7) \div 10
        b == DevEnd(n)
    IN  [train |-> 0..(a - h - 1), calibrate |-> a..(b - h - 1), test |-> Every(h, b, n)]

\* train.py: walk_forward_folds cut the frame, and make_labels labels no row
\* whose horizon leaves it.
NetworkFold(n, folds, k, h) ==
    LET start == (n * 4) \div 10
        size  == (n - start) \div folds
        cut   == start + (k - 1) * size
    IN  [train |-> 0..(cut - h - 1),
         test  |-> IF cut + size > n THEN {} ELSE cut..(cut + size - h - 1)]

\* meta.train: TimeSeriesSplit(n_splits=4) over the resolved calls, oldest first.
\* A row is a call, and no call between the fitted and the judged is left out.
MetaFold(n, k) ==
    LET size  == n \div 5
        start == n - (5 - k) * size
    IN  [train |-> 0..(start - 1), test |-> start..(start + size - 1)]

-----------------------------------------------------------------------------

\* Every label the model is fitted on ends before the first judged row.
Apart(split, h) == \A t \in split.train, r \in split.test : t + h < r

\* The windows of the judged labels do not overlap.
Disjoint(split, h) == \A r, s \in split.test : r < s => r + h <= s

\* The splits with a purge: of every evaluation that fits what it judges, but
\* for meta.train.
PurgedSplits(n, folds, h) ==
    {Holdout(n, h), FrameCut(n, h), FinalSlice(n, h),
     [train |-> ThreeWay(n, h).train \cup ThreeWay(n, h).calibrate, test |-> ThreeWay(n, h).test],
     [train |-> ThreeWay(n, h).train, test |-> ThreeWay(n, h).calibrate]}
    \cup UNION {{PurgedFold(n, folds, k, h), DirectionFold(n, folds, k, h),
                 OutcomeFold(n, folds, k, h), NetworkFold(n, folds, k, h)} : k \in 1..folds}

-----------------------------------------------------------------------------
(* Meta-labelling stacks two models: the outcome model is fitted on rows   *)
(* whose features hold the direction model's probabilities.                *)

\* The last bar the direction probability of row r rests on: its own, or the
\* last one a label of the model that gave it read.
DirectionRests(n, folds, h, r) ==
    {r} \cup {t + h : t \in UNION {DirectionFold(n, folds, k, h).train :
                k \in {j \in 1..folds : r \in DirectionFold(n, folds, j, h).test}}}

OutcomeSplits(n, folds, h) ==
    {OutcomeFold(n, folds, k, h) : k \in 1..folds} \cup {FinalSlice(n, h)}

\* The bars the outcome probability of row r rests on, through both models.
OutcomeRests(n, folds, h, r) ==
    DirectionRests(n, folds, h, r)
    \cup UNION {{t + h} \cup DirectionRests(n, folds, h, t) :
                  t \in UNION {s.train : s \in {x \in OutcomeSplits(n, folds, h) : r \in x.test}}}

-----------------------------------------------------------------------------

\* In no evaluation by bars does a model it fits see a judged bar by its labels,
\* the labels judged by those that step a horizon at a time do not overlap, and
\* a probability of the stacked models rests on no later bar.
IsOutOfSample(n, folds, h) ==
    /\ \A split \in PurgedSplits(n, folds, h) : Apart(split, h)
    /\ Disjoint(Holdout(n, h), h) /\ Disjoint(ThreeWay(n, h), h)
    /\ \A k \in 1..folds : Disjoint(PurgedFold(n, folds, k, h), h)
    /\ \A r \in 0..(n - 1) : \A bar \in OutcomeRests(n, folds, h, r) : bar <= r

\* What two evaluations leave open.  meta.train fits on earlier calls only, but
\* on calls that may have been decided after the next one was made: were a call
\* open for as little as one further call, its outcome would reach the judged.
\* outcome_training judges neighbouring rows, whose labels overlap, and no row
\* of the final slice it holds back.
LeavesOpen(n, folds, h) ==
    /\ \A k \in 1..4 : Apart(MetaFold(n, k), 0) /\ (n >= 5 => ~Apart(MetaFold(n, k), 1))
    /\ \A k \in 1..folds :
          LET fold == OutcomeFold(n, folds, k, h)
          IN  /\ h > 1 /\ (\E r \in fold.test : r + 1 \in fold.test) => ~Disjoint(fold, h)
              /\ fold.test \cap FinalSlice(n, h).test = {}

=============================================================================
