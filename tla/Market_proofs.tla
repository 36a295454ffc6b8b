--------------------------- MODULE Market_proofs ---------------------------
(***************************************************************************)
(* Proofs about the two components that watch the market: CallTracker, for *)
(* any markets, requests, calls, listings and crashes, and LiveStream, for *)
(* any prices, number of bars, windows, messages on their way and faults.  *)
(***************************************************************************)
EXTENDS CallTracker, LiveStream, TLAPS

-----------------------------------------------------------------------------
(* Candles *)

LEMMA BarTyped ==
    ASSUME NEW shape \in Shape, NEW ts \in Int
    PROVE  AsBar(shape, ts) \in Bar
BY DEF Shape, AsBar, Bar

LEMMA FeedTyped ==
    ASSUME TypeOK, NEW s \in Symbols, NEW window \in Nat
    PROVE  Feed(s, window) \in Seq(Bar)
<1>1. closed[s] \in Seq(Bar) /\ FormingTs(s) \in Int /\ forming[s] \in Shape
  BY DEF TypeOK, FormingTs
<1>2. Append(closed[s], AsBar(forming[s], FormingTs(s))) \in Seq(Bar)
  BY <1>1, BarTyped
<1>3. ASSUME NEW bars \in Seq(Bar)
      PROVE  LastOf(bars, window) \in Seq(Bar)
  <2>1. CASE Len(bars) <= window
    BY <2>1 DEF LastOf
  <2>2. CASE ~(Len(bars) <= window)
    <3>1. \A i \in (Len(bars) - window + 1)..Len(bars) : bars[i] \in Bar
      BY <2>2
    <3>2. SubSeq(bars, Len(bars) - window + 1, Len(bars)) \in Seq(Bar)
      BY <3>1, <2>2
    <3> QED
      BY <2>2, <3>2 DEF LastOf
  <2> QED
    BY <2>1, <2>2
<1> QED
  BY <1>1, <1>2, <1>3 DEF Feed

-----------------------------------------------------------------------------
(* Scores *)

LEMMA FirstTouchUnique ==
    ASSUME NEW call, NEW candles, NEW i \in Int, NEW j \in Int,
           FirstTouch(call, candles, i), FirstTouch(call, candles, j)
    PROVE  i = j
<1>1. CASE i < j
  BY <1>1 DEF FirstTouch, Touches
<1>2. CASE j < i
  BY <1>2 DEF FirstTouch, Touches
<1> QED
  BY <1>1, <1>2

\* The score is the one of the first bar that touches a level.
LEMMA ScoredAt ==
    ASSUME NEW call, NEW candles, NEW i \in 1..Len(candles), Len(candles) \in Nat,
           FirstTouch(call, candles, i)
    PROVE  ResolveCall(call, candles) = ScoreAt(call, candles[i])
<1> DEFINE k == CHOOSE j \in 1..Len(candles) : FirstTouch(call, candles, j)
<1>1. k \in 1..Len(candles) /\ FirstTouch(call, candles, k)
  OBVIOUS
<1>2. k = i
  BY <1>1, FirstTouchUnique
<1> QED
  BY <1>2 DEF ResolveCall

LEMMA ScoreTyped ==
    ASSUME NEW call \in Call, NEW candles \in Seq(Bar)
    PROVE  ResolveCall(call, candles) \in Score
<1>1. CASE \E i \in 1..Len(candles) : FirstTouch(call, candles, i)
  <2>1. PICK i \in 1..Len(candles) : FirstTouch(call, candles, i)
    BY <1>1
  <2>2. candles[i] \in Bar
    OBVIOUS
  <2>3. /\ call.entry \in Int /\ call.stop \in Int /\ call.tp1 \in Int
        /\ candles[i].ts \in Int
    BY <2>2 DEF Call, Bar
  <2>4. Abs(call.tp1 - call.entry) \in Int /\ Abs(call.entry - call.stop) \in Int
    BY <2>3 DEF Abs
  <2>5. Loss(call, candles[i]) \in Score /\ Win(call, candles[i]) \in Score
    BY <2>3, <2>4 DEF Loss, Win, Score
  <2>6. ScoreAt(call, candles[i]) \in Score
    BY <2>5 DEF ScoreAt
  <2> QED
    BY <2>1, <2>6, ScoredAt
<1>2. CASE ~\E i \in 1..Len(candles) : FirstTouch(call, candles, i)
  BY <1>2 DEF ResolveCall, OpenScore, Score
<1> QED
  BY <1>1, <1>2

\* The band of a call, whichever side it took.
Lower(call) == IF call.side = "BUY" THEN call.stop ELSE call.tp1
Upper(call) == IF call.side = "BUY" THEN call.tp1 ELSE call.stop

\* Two calls with the same band and candle are touched by the same bars, and so
\* decided at the same time.
LEMMA SameBandSameTime ==
    ASSUME NEW a \in Call, NEW b \in Call, NEW candles \in Seq(Bar),
           a.clicked = b.clicked, Lower(a) = Lower(b), Upper(a) = Upper(b)
    PROVE  /\ ResolveCall(a, candles).time = ResolveCall(b, candles).time
           /\ (ResolveCall(a, candles).status = "OPEN") <=> (ResolveCall(b, candles).status = "OPEN")
<1>1. ASSUME NEW i \in Int
      PROVE  Touches(a, candles, i) <=> Touches(b, candles, i)
  BY DEF Touches, StopTouched, TargetTouched, Lower, Upper
<1>2. ASSUME NEW i \in Int
      PROVE  FirstTouch(a, candles, i) <=> FirstTouch(b, candles, i)
  BY <1>1 DEF FirstTouch
<1>3. CASE \E i \in 1..Len(candles) : FirstTouch(a, candles, i)
  <2>1. PICK i \in 1..Len(candles) : FirstTouch(a, candles, i)
    BY <1>3
  <2>2. FirstTouch(b, candles, i)
    BY <1>2, <2>1
  <2>3. /\ ResolveCall(a, candles) = ScoreAt(a, candles[i])
        /\ ResolveCall(b, candles) = ScoreAt(b, candles[i])
    BY <2>1, <2>2, ScoredAt
  <2>4. \A c : ScoreAt(c, candles[i]).time = candles[i].ts /\ ScoreAt(c, candles[i]).status # "OPEN"
    BY DEF ScoreAt, Win, Loss
  <2> QED
    BY <2>3, <2>4
<1>4. CASE ~\E i \in 1..Len(candles) : FirstTouch(a, candles, i)
  <2>1. ~\E i \in 1..Len(candles) : FirstTouch(b, candles, i)
    BY <1>2, <1>4
  <2> QED
    BY <1>4, <2>1 DEF ResolveCall, OpenScore
<1> QED
  BY <1>3, <1>4

-----------------------------------------------------------------------------
(* Tables: the calls table and the snapshots that listings take of it *)

Twins(a, b) == a.round # 0 /\ a.round = b.round

\* What the two bets of a round have in common.
Match(a, b) ==
    /\ a.market = b.market /\ a.clicked = b.clicked
    /\ Lower(a) = Lower(b) /\ Upper(a) = Upper(b)
    /\ a.score.time = b.score.time
    /\ Undecided(a) <=> Undecided(b)

\* A table after n calls were made: ids and rounds were given out, ids once,
\* and twins match.
SoundTable(t, n) ==
    /\ t \in Seq(Call)
    /\ \A i \in 1..Len(t) : t[i].id <= n /\ t[i].round <= n
    /\ \A i, j \in 1..Len(t) : t[i].id = t[j].id => i = j
    /\ \A i, j \in 1..Len(t) : Twins(t[i], t[j]) => Match(t[i], t[j])

Holds(s, id) == \E i \in 1..Len(s) : s[i].id = id

\* The same call, whatever its scores are.
SameCall(a, b) ==
    /\ a.id = b.id /\ a.round = b.round /\ a.market = b.market /\ a.side = b.side
    /\ a.entry = b.entry /\ a.stop = b.stop /\ a.tp1 = b.tp1 /\ a.clicked = b.clicked

\* A snapshot s of a table that has become t: the calls they share are the
\* same, and of a round that is in t, s has both bets or neither.
Fits(s, t) ==
    /\ \A i \in 1..Len(s), k \in 1..Len(t) : s[i].id = t[k].id => SameCall(s[i], t[k])
    /\ \A j, k \in 1..Len(t) : Twins(t[j], t[k]) /\ Holds(s, t[j].id) => Holds(s, t[k].id)

\* Two tables of the same calls, but for their scores.
SameCalls(t, u) ==
    /\ Len(t) = Len(u)
    /\ \A i \in 1..Len(t) : u[i] \in Call /\ u[i] = [t[i] EXCEPT !.score = u[i].score]

LEMMA ListedSeq ==
    ASSUME NEW S, NEW n \in Nat, NEW f \in [1..n -> S]
    PROVE  f \in Seq(S) /\ Len(f) = n
OBVIOUS

LEMMA SameCallsAre ==
    ASSUME NEW t \in Seq(Call), NEW u \in Seq(Call), SameCalls(t, u), NEW i \in 1..Len(t)
    PROVE  /\ u[i].id = t[i].id /\ u[i].round = t[i].round /\ u[i].market = t[i].market
           /\ u[i].clicked = t[i].clicked /\ u[i].source = t[i].source
           /\ SameCall(u[i], t[i])
           /\ Lower(u[i]) = Lower(t[i]) /\ Upper(u[i]) = Upper(t[i])
<1>1. t[i] \in Call /\ u[i] = [t[i] EXCEPT !.score = u[i].score]
  BY DEF SameCalls
<1>2. /\ u[i].id = t[i].id /\ u[i].round = t[i].round /\ u[i].market = t[i].market
      /\ u[i].clicked = t[i].clicked /\ u[i].source = t[i].source
      /\ u[i].side = t[i].side /\ u[i].entry = t[i].entry
      /\ u[i].stop = t[i].stop /\ u[i].tp1 = t[i].tp1
  BY <1>1 DEF Call
<1> QED
  BY <1>2 DEF Lower, Upper, SameCall

LEMMA SameCallsFit ==
    ASSUME NEW s \in Seq(Call), NEW t \in Seq(Call), NEW u \in Seq(Call),
           SameCalls(t, u), Fits(s, t)
    PROVE  Fits(s, u)
<1>1. Len(u) = Len(t)
  BY DEF SameCalls
<1>2. \A i \in 1..Len(t) : u[i].id = t[i].id /\ u[i].round = t[i].round /\ SameCall(u[i], t[i])
  BY SameCallsAre
<1>3. \A i \in 1..Len(s), k \in 1..Len(u) : s[i].id = u[k].id => SameCall(s[i], u[k])
  BY <1>1, <1>2 DEF Fits, SameCall
<1>4. ASSUME NEW j \in 1..Len(u), NEW k \in 1..Len(u), Twins(u[j], u[k]), Holds(s, u[j].id)
      PROVE  Holds(s, u[k].id)
  <2>1. j \in 1..Len(t) /\ k \in 1..Len(t)
    BY <1>1
  <2>2. Twins(t[j], t[k]) /\ Holds(s, t[j].id)
    BY <1>2, <1>4, <2>1 DEF Twins
  <2> QED
    BY <1>2, <2>1, <2>2 DEF Fits
<1> QED
  BY <1>3, <1>4 DEF Fits

LEMMA SameSnapshotFits ==
    ASSUME NEW s \in Seq(Call), NEW t \in Seq(Call), NEW u \in Seq(Call),
           SameCalls(s, u), Fits(s, t)
    PROVE  Fits(u, t)
<1>1. Len(u) = Len(s)
  BY DEF SameCalls
<1>2. \A i \in 1..Len(s) : u[i].id = s[i].id /\ SameCall(u[i], s[i])
  BY SameCallsAre
<1>3. \A i \in 1..Len(u), k \in 1..Len(t) : u[i].id = t[k].id => SameCall(u[i], t[k])
  BY <1>1, <1>2 DEF Fits, SameCall
<1>4. \A id : Holds(s, id) <=> Holds(u, id)
  BY <1>1, <1>2 DEF Holds
<1> QED
  BY <1>3, <1>4 DEF Fits

LEMMA LaterIsSound ==
    ASSUME NEW t, NEW n \in Nat, NEW m \in Nat, n <= m, SoundTable(t, n)
    PROVE  SoundTable(t, m)
<1>1. \A i \in 1..Len(t) : t[i] \in Call
  BY DEF SoundTable
<1>2. \A i \in 1..Len(t) : t[i].id \in Nat /\ t[i].round \in Nat
  BY <1>1 DEF Call
<1> QED
  BY <1>2 DEF SoundTable

\* Scoring one market's calls of a snapshot.
LEMMA ScoredIsSound ==
    ASSUME NEW t, NEW n \in Nat, NEW m, NEW candles \in Seq(Bar), SoundTable(t, n)
    PROVE  LET u == [i \in 1..Len(t) |-> Rescored(t[i], m, candles)]
           IN  SoundTable(u, n) /\ SameCalls(t, u)
<1> DEFINE u == [i \in 1..Len(t) |-> Rescored(t[i], m, candles)]
<1>0. t \in Seq(Call) /\ Len(t) \in Nat
  BY DEF SoundTable
<1>1. ASSUME NEW i \in 1..Len(t)
      PROVE  /\ u[i] \in Call
             /\ u[i] = [t[i] EXCEPT !.score = u[i].score]
  <2>1. t[i] \in Call /\ ResolveCall(t[i], candles) \in Score
    BY <1>0, ScoreTyped
  <2>2. u[i] = IF t[i].market = m /\ Undecided(t[i])
               THEN [t[i] EXCEPT !.score = ResolveCall(t[i], candles)] ELSE t[i]
    BY DEF Rescored
  <2> QED
    BY <2>1, <2>2 DEF Call
<1>2. u \in Seq(Call) /\ Len(u) = Len(t)
  <2>1. u \in [1..Len(t) -> Call]
    BY <1>1
  <2> QED
    BY <1>0, <2>1, ListedSeq
<1>3. SameCalls(t, u)
  BY <1>1, <1>2 DEF SameCalls
<1>4. ASSUME NEW i \in 1..Len(t), NEW j \in 1..Len(t), Twins(t[i], t[j])
      PROVE  Match(u[i], u[j])
  <2>1. t[i] \in Call /\ t[j] \in Call /\ Match(t[i], t[j])
    BY <1>0, <1>4 DEF SoundTable
  <2>2. /\ u[i].market = u[j].market /\ u[i].clicked = u[j].clicked
        /\ Lower(u[i]) = Lower(u[j]) /\ Upper(u[i]) = Upper(u[j])
    BY <1>0, <1>2, <1>3, <2>1, SameCallsAre DEF Match
  <2>3. CASE t[i].market = m /\ Undecided(t[i])
    <3>1. t[j].market = m /\ Undecided(t[j])
      BY <2>1, <2>3 DEF Match
    <3>2. u[i].score = ResolveCall(t[i], candles) /\ u[j].score = ResolveCall(t[j], candles)
      BY <2>1, <2>3, <3>1 DEF Rescored, Call
    <3> QED
      BY <2>1, <2>2, <3>2, SameBandSameTime DEF Match, Undecided
  <2>4. CASE ~(t[i].market = m /\ Undecided(t[i]))
    <3>1. ~(t[j].market = m /\ Undecided(t[j]))
      BY <2>1, <2>4 DEF Match
    <3>2. u[i] = t[i] /\ u[j] = t[j]
      BY <2>4, <3>1 DEF Rescored
    <3> QED
      BY <2>1, <3>2
  <2> QED
    BY <2>3, <2>4
<1> HIDE DEF u
<1>5. \A i \in 1..Len(t) : u[i].id = t[i].id /\ u[i].round = t[i].round
  BY <1>0, <1>2, <1>3, SameCallsAre
<1>6. SoundTable(u, n)
  BY <1>2, <1>4, <1>5 DEF SoundTable, Twins
<1> QED
  BY <1>3, <1>6 DEF u

\* A call is appended: its id is new, and it matches its twins.
LEMMA AddedIsSound ==
    ASSUME NEW t, NEW n \in Nat, NEW m \in Nat, n <= m, SoundTable(t, n),
           NEW c \in Call, c.id <= m, c.round <= m,
           \A i \in 1..Len(t) : t[i].id # c.id,
           \A i \in 1..Len(t) : Twins(t[i], c) => Match(t[i], c)
    PROVE  SoundTable(Added(t, c), m)
<1> DEFINE u == Append(t, c)
<1>0. t \in Seq(Call) /\ Len(t) \in Nat
  BY DEF SoundTable
<1>1. SoundTable(t, m)
  BY LaterIsSound
<1>2. u \in Seq(Call) /\ Len(u) = Len(t) + 1 /\ u[Len(t) + 1] = c
      /\ \A i \in 1..Len(t) : u[i] = t[i]
  BY <1>0
<1> HIDE DEF u
<1>3. \A i \in 1..Len(u) : u[i].id <= m /\ u[i].round <= m
  BY <1>0, <1>1, <1>2 DEF SoundTable
<1>4. \A i, j \in 1..Len(u) : u[i].id = u[j].id => i = j
  BY <1>0, <1>1, <1>2 DEF SoundTable
<1>5. ASSUME NEW i \in 1..Len(u), NEW j \in 1..Len(u), Twins(u[i], u[j])
      PROVE  Match(u[i], u[j])
  <2>1. CASE i <= Len(t) /\ j <= Len(t)
    BY <1>0, <1>1, <1>2, <1>5, <2>1 DEF SoundTable
  <2>2. CASE i <= Len(t) /\ j = Len(t) + 1
    BY <1>0, <1>2, <1>5, <2>2
  <2>3. CASE i = Len(t) + 1 /\ j <= Len(t)
    <3>1. j \in 1..Len(t) /\ u[i] = c /\ u[j] = t[j]
      BY <1>0, <1>2, <2>3
    <3>2. Match(t[j], c)
      BY <1>5, <3>1 DEF Twins
    <3> QED
      BY <3>1, <3>2 DEF Match
  <2>4. CASE i = Len(t) + 1 /\ j = Len(t) + 1
    BY <2>4 DEF Match
  <2> QED
    BY <1>0, <1>2, <2>1, <2>2, <2>3, <2>4
<1>6. SoundTable(u, m)
  BY <1>2, <1>3, <1>4, <1>5 DEF SoundTable
<1> QED
  BY <1>1, <1>6 DEF Added, u

\* The call is not of the snapshot, and neither are its twins.
LEMMA AddedFits ==
    ASSUME NEW s \in Seq(Call), NEW t \in Seq(Call), NEW c \in Call, Fits(s, t), ~Holds(s, c.id),
           \A k \in 1..Len(t) : Twins(t[k], c) => ~Holds(s, t[k].id)
    PROVE  Fits(s, Added(t, c))
<1> DEFINE u == Append(t, c)
<1>1. u \in Seq(Call) /\ Len(u) = Len(t) + 1 /\ u[Len(t) + 1] = c
      /\ \A i \in 1..Len(t) : u[i] = t[i]
  OBVIOUS
<1> HIDE DEF u
<1>2. \A i \in 1..Len(s), k \in 1..Len(u) : s[i].id = u[k].id => SameCall(s[i], u[k])
  BY <1>1 DEF Fits, Holds
<1>3. ASSUME NEW j \in 1..Len(u), NEW k \in 1..Len(u), Twins(u[j], u[k]), Holds(s, u[j].id)
      PROVE  Holds(s, u[k].id)
  <2>1. j \in 1..Len(t) /\ u[j] = t[j]
    BY <1>1, <1>3
  <2>2. k \in 1..Len(t) /\ u[k] = t[k]
    BY <1>1, <1>3, <2>1
  <2> QED
    BY <1>3, <2>1, <2>2 DEF Fits
<1>4. Fits(s, u)
  BY <1>2, <1>3 DEF Fits
<1> QED
  BY <1>4 DEF Added, u

\* One AI pick per market and candle, of any table.
OneAiPick(t) ==
    \A i, j \in 1..Len(t) :
        /\ t[i].source = "ai" /\ t[j].source = "ai"
        /\ t[i].market = t[j].market /\ t[i].clicked = t[j].clicked
        => i = j

LEMMA AddedIsOnePick ==
    ASSUME NEW t \in Seq(Call), NEW c \in Call, OneAiPick(t)
    PROVE  OneAiPick(Added(t, c))
<1>1. CASE Deduped(t, c)
  BY <1>1 DEF Added
<1>2. CASE ~Deduped(t, c)
  <2> DEFINE u == Append(t, c)
  <2>1. u \in Seq(Call) /\ Len(u) = Len(t) + 1 /\ u[Len(t) + 1] = c
        /\ \A i \in 1..Len(t) : u[i] = t[i]
    OBVIOUS
  <2> HIDE DEF u
  <2>2. \A i \in 1..Len(t) : ~(/\ c.source = "ai" /\ t[i].source = "ai"
                               /\ t[i].market = c.market /\ t[i].clicked = c.clicked)
    BY <1>2 DEF Deduped
  <2>3. OneAiPick(u)
    BY <2>1, <2>2 DEF OneAiPick
  <2> QED
    BY <1>2, <2>3 DEF Added, u
<1> QED
  BY <1>1, <1>2

LEMMA SameCallsOnePick ==
    ASSUME NEW t \in Seq(Call), NEW u \in Seq(Call), SameCalls(t, u), OneAiPick(t)
    PROVE  OneAiPick(u)
<1>1. Len(u) = Len(t)
  BY DEF SameCalls
<1>2. \A i \in 1..Len(t) : /\ u[i].market = t[i].market /\ u[i].clicked = t[i].clicked
                           /\ u[i].source = t[i].source
  BY SameCallsAre
<1> QED
  BY <1>1, <1>2 DEF OneAiPick

\* Everything that holds of a table holds of its older part.
Older(t, u) == u \in Seq(Call) /\ Len(u) <= Len(t) /\ \A i \in 1..Len(u) : u[i] = t[i]

LEMMA UndoneIsOlder ==
    ASSUME NEW t \in Seq(Call), NEW n \in Nat \ {0}
    PROVE  Older(t, Undone(t, n)) /\ Older(t, <<>>)
<1>1. CASE n <= Len(t)
  BY <1>1 DEF Older, Undone
<1>2. CASE ~(n <= Len(t))
  BY <1>2 DEF Older, Undone
<1> QED
  BY <1>1, <1>2 DEF Older

LEMMA OlderIsSound ==
    ASSUME NEW t, NEW n, NEW u, SoundTable(t, n), Older(t, u)
    PROVE  /\ SoundTable(u, n)
           /\ OneAiPick(t) => OneAiPick(u)
           /\ \A s : Fits(s, t) => Fits(s, u)
<1>1. u \in Seq(Call) /\ Len(u) \in Nat /\ Len(t) \in Nat
      /\ \A i \in 1..Len(u) : i \in 1..Len(t) /\ u[i] = t[i]
  BY DEF Older, SoundTable
<1>2. SoundTable(u, n)
  BY <1>1 DEF SoundTable
<1>3. OneAiPick(t) => OneAiPick(u)
  BY <1>1 DEF OneAiPick
<1>4. \A s : Fits(s, t) => Fits(s, u)
  BY <1>1 DEF Fits
<1> QED
  BY <1>2, <1>3, <1>4

\* A snapshot's scores are written back.
LEMMA SavedIsSound ==
    ASSUME NEW t, NEW s, NEW n, SoundTable(t, n), SoundTable(s, n), Fits(s, t)
    PROVE  SoundTable(Saved(t, s), n) /\ SameCalls(t, Saved(t, s))
<1> DEFINE u == Saved(t, s)
<1>0. t \in Seq(Call) /\ Len(t) \in Nat /\ s \in Seq(Call) /\ Len(s) \in Nat
  BY DEF SoundTable
<1>1. \A k \in 1..Len(t) : t[k] \in Call
  BY <1>0
<1>2. ASSUME NEW i \in 1..Len(s), NEW k \in 1..Len(t), s[i].id = t[k].id
      PROVE  (CHOOSE row \in ToSet(s) : row.id = t[k].id) = s[i]
  <2> DEFINE r == CHOOSE row \in ToSet(s) : row.id = t[k].id
  <2>1. s[i] \in ToSet(s)
    BY DEF ToSet
  <2>2. r \in ToSet(s) /\ r.id = t[k].id
    BY <1>2, <2>1
  <2>3. PICK j \in 1..Len(s) : r = s[j]
    BY <1>0, <2>2 DEF ToSet
  <2>4. i = j
    BY <1>2, <2>2, <2>3 DEF SoundTable
  <2> QED
    BY <2>3, <2>4
<1>3. ASSUME NEW k \in 1..Len(t)
      PROVE  /\ ~Holds(s, t[k].id) => u[k] = t[k]
             /\ \A i \in 1..Len(s) : s[i].id = t[k].id => u[k] = [t[k] EXCEPT !.score = s[i].score]
  BY <1>2 DEF Saved, Holds
<1>4. ASSUME NEW k \in 1..Len(t)
      PROVE  u[k] \in Call /\ u[k] = [t[k] EXCEPT !.score = u[k].score]
  <2>1. CASE ~Holds(s, t[k].id)
    BY <1>1, <1>3, <2>1 DEF Call
  <2>2. CASE Holds(s, t[k].id)
    <3>1. PICK i \in 1..Len(s) : s[i].id = t[k].id
      BY <2>2 DEF Holds
    <3>2. s[i] \in Call /\ t[k] \in Call
      BY <1>0, <1>1
    <3>3. s[i].score \in Score
      BY <3>2 DEF Call
    <3>4. u[k] = [t[k] EXCEPT !.score = s[i].score]
      BY <1>3, <3>1
    <3> HIDE DEF u
    <3>5. u[k] \in Call /\ u[k].score = s[i].score
      BY <3>2, <3>3, <3>4 DEF Call
    <3> QED
      BY <3>4, <3>5
  <2> QED
    BY <2>1, <2>2
<1>5. u \in Seq(Call) /\ Len(u) = Len(t)
  <2>1. u \in [1..Len(t) -> Call]
    BY <1>4 DEF Saved
  <2> QED
    BY <1>0, <2>1, ListedSeq
<1>6. SameCalls(t, u)
  BY <1>4, <1>5 DEF SameCalls
<1>7. ASSUME NEW j \in 1..Len(t), NEW k \in 1..Len(t), Twins(t[j], t[k])
      PROVE  Match(u[j], u[k])
  <2>1. Match(t[j], t[k]) /\ t[j] \in Call /\ t[k] \in Call
    BY <1>1, <1>7 DEF SoundTable
  <2>2. /\ u[j].market = u[k].market /\ u[j].clicked = u[k].clicked
        /\ Lower(u[j]) = Lower(u[k]) /\ Upper(u[j]) = Upper(u[k])
    BY <1>0, <1>5, <1>6, <2>1, SameCallsAre DEF Match
  <2>3. Twins(t[k], t[j])
    BY <1>7 DEF Twins
  <2>4. CASE ~Holds(s, t[j].id)
    <3>1. ~Holds(s, t[k].id)
      BY <2>3, <2>4 DEF Fits
    <3> QED
      BY <1>3, <2>1, <2>4, <3>1
  <2>5. CASE Holds(s, t[j].id)
    <3>1. Holds(s, t[k].id)
      BY <1>7, <2>5 DEF Fits
    <3>2. PICK a \in 1..Len(s) : s[a].id = t[j].id
      BY <2>5 DEF Holds
    <3>3. PICK b \in 1..Len(s) : s[b].id = t[k].id
      BY <3>1 DEF Holds
    <3>4. Twins(s[a], s[b])
      BY <1>7, <3>2, <3>3 DEF Twins, Fits, SameCall
    <3>5. Match(s[a], s[b])
      BY <3>4 DEF SoundTable
    <3>6. /\ u[j] = [t[j] EXCEPT !.score = s[a].score]
          /\ u[k] = [t[k] EXCEPT !.score = s[b].score]
      BY <1>3, <3>2, <3>3
    <3> HIDE DEF u
    <3>7. u[j].score = s[a].score /\ u[k].score = s[b].score
      BY <2>1, <3>6 DEF Call
    <3> QED
      BY <2>2, <3>5, <3>7 DEF Match, Undecided
  <2> QED
    BY <2>4, <2>5
<1> HIDE DEF u
<1>8. \A i \in 1..Len(t) : u[i].id = t[i].id /\ u[i].round = t[i].round
  BY <1>0, <1>5, <1>6, SameCallsAre
<1>9. SoundTable(u, n)
  BY <1>5, <1>7, <1>8 DEF SoundTable, Twins
<1> QED
  BY <1>6, <1>9 DEF u

-----------------------------------------------------------------------------
(* The inductive invariant *)

\* The table is sound, and so is every snapshot, which fits the table still.
Tables ==
    /\ SoundTable(calls, made) /\ OneAiPick(calls)
    /\ \A l \in Listers : /\ SoundTable(listing[l].snapshot, made)
                          /\ Fits(listing[l].snapshot, calls)

\* A pick is for a market.
Picking == \A g \in Loggers \cup {AutoLoop} : logger[g].phase = "pick" => logger[g].market \in Symbols

IInv == TypeOK /\ Tables /\ Picking

Listing == [phase : {"idle", "score"}, snapshot : Seq(Call), todo : SUBSET Symbols]

LEMMA EmptyIsSound ==
    ASSUME NEW n, NEW t
    PROVE  SoundTable(<<>>, n) /\ OneAiPick(<<>>) /\ Fits(<<>>, t)
BY DEF SoundTable, OneAiPick, Fits, Holds

\* The table changes, the listings go on or are gone.
LEMMA TableChanges ==
    ASSUME IInv, made' \in Nat, made <= made',
           SoundTable(calls', made'), OneAiPick(calls'),
           \A l \in Listers : Fits(listing[l].snapshot, calls'),
           listing' = listing \/ listing' = [l \in Listers |-> IdleListing]
    PROVE  Tables'
<1>1. ASSUME NEW l \in Listers
      PROVE  SoundTable(listing'[l].snapshot, made') /\ Fits(listing'[l].snapshot, calls')
  <2>1. CASE listing' = listing
    <3>1. SoundTable(listing[l].snapshot, made) /\ made \in Nat
      BY DEF IInv, Tables, TypeOK
    <3> QED
      BY <2>1, <3>1, LaterIsSound
  <2>2. CASE listing' = [k \in Listers |-> IdleListing]
    <3>1. listing'[l].snapshot = <<>>
      BY <2>2 DEF IdleListing
    <3> QED
      BY <3>1, EmptyIsSound
  <2> QED
    BY <2>1, <2>2
<1> QED
  BY <1>1 DEF Tables

\* The table stays, one listing moves on with a sound snapshot.
LEMMA ListingMoves ==
    ASSUME IInv, UNCHANGED <<calls, made>>, NEW l \in Listers, NEW row,
           listing' = [listing EXCEPT ![l] = row],
           SoundTable(row.snapshot, made), Fits(row.snapshot, calls)
    PROVE  Tables'
<1>1. listing \in [Listers -> Listing]
  BY DEF IInv, TypeOK, Listing
<1> QED
  BY <1>1 DEF IInv, Tables

\* A call with the next id that matches its twins may be appended to a table
\* that has been added to already in the same step.
LEMMA NextCall ==
    ASSUME NEW t, NEW n \in Nat, NEW m \in Nat, n <= m, SoundTable(t, n), OneAiPick(t),
           NEW c \in Call, c.id = m + 1, c.round <= m + 1,
           \A i \in 1..Len(t) : Twins(t[i], c) => Match(t[i], c)
    PROVE  SoundTable(Added(t, c), m + 1) /\ OneAiPick(Added(t, c))
<1>1. \A i \in 1..Len(t) : t[i] \in Call /\ t[i].id <= n
  BY DEF SoundTable
<1>2. \A i \in 1..Len(t) : t[i].id # c.id
  BY <1>1 DEF Call
<1>3. t \in Seq(Call)
  BY DEF SoundTable
<1> QED
  BY <1>2, <1>3, AddedIsSound, AddedIsOnePick

\* A snapshot holds no id that has not been given out.
LEMMA NotYetHeld ==
    ASSUME IInv, NEW l \in Listers, NEW id \in Nat, id > made
    PROVE  ~Holds(listing[l].snapshot, id)
<1>1. SoundTable(listing[l].snapshot, made)
  BY DEF IInv, Tables
<1>2. \A i \in 1..Len(listing[l].snapshot) :
         listing[l].snapshot[i] \in Call /\ listing[l].snapshot[i].id <= made
  BY <1>1 DEF SoundTable
<1>3. made \in Nat
  BY DEF IInv, TypeOK
<1> QED
  BY <1>2, <1>3 DEF Holds, Call

LEMMA NewCallTyped ==
    ASSUME NEW id \in Nat, NEW round \in Nat, NEW m \in Symbols, NEW plan \in Plan,
           NEW clicked \in Int, NEW source \in {"manual", "ai"}
    PROVE  /\ NewCall(id, round, m, plan, clicked, source) \in Call
           /\ NewCall(id, round, m, plan, clicked, source).id = id
           /\ NewCall(id, round, m, plan, clicked, source).round = round
BY DEF NewCall, Call, Plan, OpenScore, Score

\* A posted call or a logged pick.
LEMMA SingleCall ==
    ASSUME IInv, NEW m \in Symbols, NEW plan \in Plan, NEW clicked \in Int,
           NEW source \in {"manual", "ai"}, UNCHANGED listing,
           calls' = Added(calls, NewCall(made + 1, 0, m, plan, clicked, source)),
           made' = made + 1
    PROVE  Tables'
<1> DEFINE c == NewCall(made + 1, 0, m, plan, clicked, source)
<1>1. made \in Nat /\ SoundTable(calls, made) /\ OneAiPick(calls) /\ calls \in Seq(Call)
  BY DEF IInv, Tables, TypeOK
<1>2. c \in Call /\ c.id = made + 1 /\ c.round = 0
  BY <1>1, NewCallTyped
<1> HIDE DEF c
<1>3. \A i \in 1..Len(calls) : ~Twins(calls[i], c)
  BY <1>2 DEF Twins
<1>4. SoundTable(Added(calls, c), made + 1) /\ OneAiPick(Added(calls, c))
  BY <1>1, <1>2, <1>3, NextCall
<1>5. ASSUME NEW l \in Listers
      PROVE  Fits(listing[l].snapshot, Added(calls, c))
  <2>1. listing[l].snapshot \in Seq(Call) /\ Fits(listing[l].snapshot, calls)
    BY DEF IInv, Tables, SoundTable
  <2>2. ~Holds(listing[l].snapshot, c.id)
    BY <1>1, <1>2, NotYetHeld
  <2> QED
    BY <1>1, <1>2, <1>3, <2>1, <2>2, AddedFits
<1>6. calls' = Added(calls, c)
  BY DEF c
<1> QED
  BY <1>1, <1>4, <1>5, <1>6, TableChanges

\* A bet is of its band, whichever side it takes.
LEMMA BetTyped ==
    ASSUME NEW id \in Nat, NEW round \in Nat, NEW m \in Symbols, NEW side \in Side,
           NEW band \in Bands, NEW clicked \in Int, NEW source \in {"manual", "ai"}
    PROVE  LET c == Bet(id, round, m, side, band, clicked, source)
           IN  /\ c \in Call /\ c.id = id /\ c.round = round /\ c.market = m
               /\ c.clicked = clicked /\ c.score = OpenScore
               /\ Lower(c) = band.lower /\ Upper(c) = band.upper
<1> DEFINE c == Bet(id, round, m, side, band, clicked, source)
<1>1. band.entry \in Int /\ band.lower \in Int /\ band.upper \in Int
  BY CallTrackerAssumption
<1>2. BandPlan(side, band) \in Plan
  BY <1>1 DEF BandPlan, Plan, Side
<1>3. c \in Call /\ c.id = id /\ c.round = round
  BY <1>2, NewCallTyped DEF Bet
<1>4. /\ c.market = m /\ c.clicked = clicked /\ c.score = OpenScore /\ c.side = side
      /\ c.stop = (IF side = "BUY" THEN band.lower ELSE band.upper)
      /\ c.tp1 = (IF side = "BUY" THEN band.upper ELSE band.lower)
  BY DEF Bet, NewCall, BandPlan
<1>5. Lower(c) = band.lower /\ Upper(c) = band.upper
  BY <1>4 DEF Lower, Upper, Side
<1> QED
  BY <1>3, <1>4, <1>5

\* The human's bet of a round, alone.
LEMMA HumanBetIsSound ==
    ASSUME IInv, NEW m \in Symbols, NEW human \in Side, NEW band \in Bands, NEW clicked \in Int
    PROVE  LET t == HumanBet(m, human, band, clicked)
               c == Bet(made + 1, made + 1, m, human, band, clicked, "manual")
           IN  /\ SoundTable(t, made + 1) /\ OneAiPick(t)
               /\ \A l \in Listers : Fits(listing[l].snapshot, t)
               /\ t = Append(calls, c)
               /\ \A i \in 1..Len(t) : t[i].round = made + 1 => t[i] = c
<1> DEFINE c == Bet(made + 1, made + 1, m, human, band, clicked, "manual")
           t == HumanBet(m, human, band, clicked)
<1>1. made \in Nat /\ SoundTable(calls, made) /\ OneAiPick(calls) /\ calls \in Seq(Call)
  BY DEF IInv, Tables, TypeOK
<1>2. c \in Call /\ c.id = made + 1 /\ c.round = made + 1 /\ c.source = "manual"
  <2>1. c \in Call /\ c.id = made + 1 /\ c.round = made + 1
    BY <1>1, BetTyped
  <2>2. c.source = "manual"
    BY DEF Bet, NewCall
  <2> QED
    BY <2>1, <2>2
<1>3. t = Added(calls, c)
  BY DEF HumanBet
<1> HIDE DEF c, t
<1>4. t = Append(calls, c)
  BY <1>2, <1>3 DEF Added, Deduped
<1>5. \A i \in 1..Len(calls) : calls[i] \in Call /\ calls[i].round <= made
  BY <1>1 DEF SoundTable
<1>6. \A i \in 1..Len(calls) : calls[i].round # made + 1
  <2>1. \A i \in 1..Len(calls) : calls[i].round \in Nat
    BY <1>5 DEF Call
  <2> QED
    BY <1>1, <1>5, <2>1
<1>7. \A i \in 1..Len(calls) : ~Twins(calls[i], c)
  BY <1>2, <1>6 DEF Twins
<1>8. SoundTable(t, made + 1) /\ OneAiPick(t)
  BY <1>1, <1>2, <1>3, <1>7, NextCall
<1>9. ASSUME NEW l \in Listers
      PROVE  Fits(listing[l].snapshot, t)
  <2>1. listing[l].snapshot \in Seq(Call) /\ Fits(listing[l].snapshot, calls)
    BY DEF IInv, Tables, SoundTable
  <2>2. ~Holds(listing[l].snapshot, c.id)
    BY <1>1, <1>2, NotYetHeld
  <2> QED
    BY <1>1, <1>2, <1>3, <1>7, <2>1, <2>2, AddedFits
<1>10. \A i \in 1..Len(t) : t[i].round = made + 1 => t[i] = c
  BY <1>1, <1>4, <1>6
<1> QED
  BY <1>4, <1>8, <1>9, <1>10 DEF c, t

LEMMA RoundIsSound ==
    ASSUME IInv, NEW m \in Symbols, NEW human \in Side, NEW ai \in Side, NEW band \in Bands,
           NEW clicked \in Int, PlaceRound(m, human, ai, band, clicked)
    PROVE  Tables'
<1> DEFINE t == HumanBet(m, human, band, clicked)
           b == Bet(made + 1, made + 1, m, human, band, clicked, "manual")
           c == Bet(made + 2, made + 1, m, ai, band, clicked, "ai")
<1>1. made \in Nat /\ made' = made + 2 /\ calls' = Added(t, c) /\ UNCHANGED listing
  BY DEF IInv, TypeOK, PlaceRound
<1>2. /\ SoundTable(t, made + 1) /\ OneAiPick(t)
      /\ \A l \in Listers : Fits(listing[l].snapshot, t)
      /\ \A i \in 1..Len(t) : t[i].round = made + 1 => t[i] = b
  BY HumanBetIsSound
<1>3. /\ c \in Call /\ c.id = made + 2 /\ c.round = made + 1
      /\ b \in Call /\ b.id = made + 1 /\ b.round = made + 1
      /\ Match(b, c)
  BY <1>1, BetTyped DEF Match, Undecided
<1> HIDE DEF t, b, c
<1>4. \A i \in 1..Len(t) : Twins(t[i], c) => t[i] = b
  BY <1>2, <1>3 DEF Twins
<1>5. SoundTable(Added(t, c), made + 2) /\ OneAiPick(Added(t, c))
  <2>1. made + 1 \in Nat /\ c.id = (made + 1) + 1 /\ c.round <= (made + 1) + 1
    BY <1>1, <1>3
  <2>2. \A i \in 1..Len(t) : Twins(t[i], c) => Match(t[i], c)
    BY <1>3, <1>4
  <2>3. SoundTable(Added(t, c), (made + 1) + 1) /\ OneAiPick(Added(t, c))
    BY <1>2, <1>3, <2>1, <2>2, NextCall
  <2>4. (made + 1) + 1 = made + 2
    BY <1>1
  <2> QED
    BY <2>3, <2>4
<1>6. ASSUME NEW l \in Listers
      PROVE  Fits(listing[l].snapshot, Added(t, c))
  <2>1. listing[l].snapshot \in Seq(Call) /\ t \in Seq(Call)
    BY <1>2 DEF IInv, Tables, SoundTable
  <2>2. ~Holds(listing[l].snapshot, made + 2) /\ ~Holds(listing[l].snapshot, made + 1)
    BY <1>1, NotYetHeld
  <2> QED
    BY <1>2, <1>3, <1>4, <2>1, <2>2, AddedFits
<1>7. made' \in Nat /\ made <= made'
  BY <1>1
<1> QED
  BY <1>1, <1>5, <1>6, <1>7, TableChanges

LEMMA CutRoundIsSound ==
    ASSUME IInv, NEW m \in Symbols, NEW human \in Side, NEW band \in Bands,
           NEW clicked \in Int, RoundCutShort(m, human, band, clicked)
    PROVE  Tables'
<1> DEFINE t == HumanBet(m, human, band, clicked)
<1>1. made \in Nat /\ made' = made + 2 /\ calls' = t /\ listing' = [l \in Listers |-> IdleListing]
  BY DEF IInv, TypeOK, RoundCutShort, IdleProcess
<1>2. /\ SoundTable(t, made + 1) /\ OneAiPick(t)
      /\ \A l \in Listers : Fits(listing[l].snapshot, t)
  BY HumanBetIsSound
<1> HIDE DEF t
<1>3. SoundTable(t, made + 2)
  BY <1>1, <1>2, LaterIsSound
<1> QED
  BY <1>1, <1>2, <1>3, TableChanges

-----------------------------------------------------------------------------
(* Every step keeps it *)

LEMMA InitHolds == Init => IInv
<1> SUFFICES ASSUME Init PROVE IInv
  OBVIOUS
<1>1. forming \in [Symbols -> Shape]
  BY MarketAssumption DEF Init, MarketInit
<1>2. listing \in [Listers -> Listing] /\ \A l \in Listers : listing[l].snapshot = <<>>
  BY DEF Init, IdleListing, Listing
<1>3. TypeOK
  BY <1>1, <1>2 DEF Init, MarketInit, TypeOK, IdleLogger, Listing
<1>4. Tables
  BY <1>2, EmptyIsSound DEF Init, Tables
<1>5. Picking
  BY DEF Init, Picking, IdleLogger
<1> QED
  BY <1>3, <1>4, <1>5 DEF IInv

LEMMA MarketKeeps ==
    ASSUME IInv, NEW m \in Symbols, MarketStep(m)
    PROVE  IInv'
<1>1. Tables' /\ Picking'
  BY DEF IInv, Tables, Picking, MarketStep, trackerVars
<1>2. CASE Tick(m)
  <2>1. forming' \in [Symbols -> Shape]
    BY <1>2, MarketAssumption DEF Tick, IInv, TypeOK
  <2> QED
    BY <1>1, <1>2, <2>1 DEF Tick, MarketStep, trackerVars, IInv, TypeOK
<1>3. CASE CloseBar(m)
  <2>1. PICK shape \in Shapes, opening \in Openings :
          /\ closed' = [closed EXCEPT ![m] = Append(@, AsBar(shape, Len(@) + 1))]
          /\ forming' = [forming EXCEPT ![m] = opening]
    BY <1>3 DEF CloseBar
  <2>2. shape \in Shape /\ opening \in Shape
    BY MarketAssumption
  <2>3. closed[m] \in Seq(Bar) /\ Len(closed[m]) + 1 \in Int
    BY DEF IInv, TypeOK
  <2>4. Append(closed[m], AsBar(shape, Len(closed[m]) + 1)) \in Seq(Bar)
    BY <2>2, <2>3, BarTyped
  <2>5. closed' \in [Symbols -> Seq(Bar)]
    BY <2>1, <2>4 DEF IInv, TypeOK
  <2>6. forming' \in [Symbols -> Shape]
    BY <2>1, <2>2 DEF IInv, TypeOK
  <2> QED
    BY <1>1, <2>5, <2>6 DEF MarketStep, trackerVars, IInv, TypeOK
<1> QED
  BY <1>2, <1>3 DEF MarketStep

\* A step of the table that leaves the loggers alone or ends them.
LEMMA TableTyped ==
    ASSUME IInv, Tables', made' \in Nat, UNCHANGED <<closed, forming>>,
           \/ UNCHANGED <<listing, logger, autolog>>
           \/ IdleProcess
    PROVE  IInv'
<1>1. calls' \in Seq(Call)
  BY DEF Tables, SoundTable
<1>2. CASE UNCHANGED <<listing, logger, autolog>>
  BY <1>1, <1>2 DEF IInv, TypeOK, Picking
<1>3. CASE IdleProcess
  <2>1. listing' \in [Listers -> Listing]
    BY <1>3 DEF IdleProcess, IdleListing, Listing
  <2>2. Picking'
    BY <1>3 DEF IdleProcess, Picking, IdleLogger
  <2> QED
    BY <1>1, <1>3, <2>1, <2>2 DEF IInv, TypeOK, IdleProcess, IdleLogger, Listing
<1> QED
  BY <1>2, <1>3

LEMMA ClientKeeps ==
    ASSUME IInv, NEW m \in Symbols, ClientStep(m)
    PROVE  IInv'
<1>0. FormingTs(m) \in Nat /\ made \in Nat
  BY DEF IInv, TypeOK, FormingTs
<1>1. PICK clicked \in 0..FormingTs(m) :
        \/ \E tap \in Taps : RecordCall(m, tap, clicked)
        \/ \E human \in Side, band \in Bands :
              \/ \E ai \in Side : PlaceRound(m, human, ai, band, clicked)
              \/ RoundCutShort(m, human, band, clicked)
  BY DEF ClientStep
<1>2. clicked \in Int
  BY <1>0
<1>3. ASSUME NEW tap \in Taps, RecordCall(m, tap, clicked)
      PROVE  IInv'
  <2>1. tap.plan \in Plan /\ tap.source \in {"manual", "ai"}
    BY CallTrackerAssumption
  <2>2. Tables'
    BY <1>2, <1>3, <2>1, SingleCall DEF RecordCall
  <2> QED
    BY <1>0, <1>3, <2>2, TableTyped DEF RecordCall
<1>4. ASSUME NEW human \in Side, NEW band \in Bands, NEW ai \in Side,
             PlaceRound(m, human, ai, band, clicked)
      PROVE  IInv'
  <2>1. Tables'
    BY <1>2, <1>4, RoundIsSound
  <2> QED
    BY <1>0, <1>4, <2>1, TableTyped DEF PlaceRound
<1>5. ASSUME NEW human \in Side, NEW band \in Bands, RoundCutShort(m, human, band, clicked)
      PROVE  IInv'
  <2>1. Tables'
    BY <1>2, <1>5, CutRoundIsSound
  <2> QED
    BY <1>0, <1>5, <2>1, TableTyped DEF RoundCutShort
<1> QED
  BY <1>1, <1>3, <1>4, <1>5

LEMMA RemovalKeeps ==
    ASSUME IInv, Clear \/ \E n \in Undo : RemoveLast(n)
    PROVE  IInv'
<1>1. calls \in Seq(Call) /\ made \in Nat /\ SoundTable(calls, made) /\ OneAiPick(calls)
  BY DEF IInv, Tables, TypeOK
<1>2. Older(calls, calls')
  BY <1>1, CallTrackerAssumption, UndoneIsOlder DEF Clear, RemoveLast
<1>3. UNCHANGED <<closed, forming, made, listing, logger, autolog>>
  BY DEF Clear, RemoveLast
<1>4. SoundTable(calls', made) /\ OneAiPick(calls')
      /\ \A l \in Listers : Fits(listing[l].snapshot, calls')
  BY <1>1, <1>2, OlderIsSound DEF IInv, Tables
<1>5. Tables'
  BY <1>1, <1>3, <1>4, TableChanges
<1> QED
  BY <1>1, <1>3, <1>5, TableTyped

\* A listing's own step, on a row of the right type.
LEMMA ListingTyped ==
    ASSUME IInv, NEW l \in Listers, NEW row \in Listing, Tables',
           UNCHANGED <<closed, forming, made, logger, autolog>>,
           listing' = [listing EXCEPT ![l] = row]
    PROVE  IInv'
<1>1. listing \in [Listers -> Listing]
  BY DEF IInv, TypeOK, Listing
<1>2. listing' \in [Listers -> Listing]
  BY <1>1
<1>3. calls' \in Seq(Call)
  BY DEF Tables, SoundTable
<1> QED
  BY <1>2, <1>3 DEF IInv, TypeOK, Picking, Listing

LEMMA ListKeeps ==
    ASSUME IInv, NEW l \in Listers, ListStep(l)
    PROVE  IInv'
<1> DEFINE snapshot == listing[l].snapshot
<1>0. /\ made \in Nat /\ calls \in Seq(Call) /\ SoundTable(calls, made) /\ OneAiPick(calls)
      /\ listing \in [Listers -> Listing]
      /\ SoundTable(snapshot, made) /\ Fits(snapshot, calls) /\ snapshot \in Seq(Call)
  BY DEF IInv, Tables, TypeOK, Listing, SoundTable
<1>1. CASE BeginList(l)
  <2> DEFINE row == [phase |-> "score", snapshot |-> calls,
                     todo |-> {calls[i].market : i \in 1..Len(calls)}]
  <2>1. \A i \in 1..Len(calls) : calls[i] \in Call /\ calls[i].market \in Symbols
    <3>1. \A i \in 1..Len(calls) : calls[i] \in Call
      BY <1>0
    <3> QED
      BY <3>1 DEF Call
  <2>2. row \in Listing
    BY <1>0, <2>1 DEF Listing
  <2>3. Fits(calls, calls)
    BY <1>0 DEF Fits, SoundTable, Holds, SameCall
  <2>4. Tables'
    BY <1>0, <1>1, <2>3, ListingMoves DEF BeginList
  <2> QED
    BY <1>1, <2>2, <2>4, ListingTyped DEF BeginList
<1>2. ASSUME NEW m \in Symbols, ScoreMarket(l, m)
      PROVE  IInv'
  <2> DEFINE candles == Feed(m, ListWindow)
             scored == [i \in 1..Len(snapshot) |-> Rescored(snapshot[i], m, candles)]
             row == [listing[l] EXCEPT !.snapshot = scored, !.todo = @ \ {m}]
  <2>1. candles \in Seq(Bar)
    BY CallTrackerAssumption, FeedTyped DEF IInv
  <2>2. SoundTable(scored, made) /\ SameCalls(snapshot, scored)
    BY <1>0, <2>1, ScoredIsSound
  <2>3. scored \in Seq(Call)
    BY <2>2 DEF SoundTable
  <2>4. Fits(scored, calls)
    BY <1>0, <2>2, <2>3, SameSnapshotFits
  <2>5. listing' = [listing EXCEPT ![l] = row]
    BY <1>0, <1>2 DEF ScoreMarket
  <2> HIDE DEF scored
  <2>6. row \in Listing /\ row.snapshot = scored
    BY <1>0, <2>3 DEF Listing
  <2> HIDE DEF row
  <2>7. SoundTable(row.snapshot, made) /\ Fits(row.snapshot, calls)
    BY <2>2, <2>4, <2>6
  <2>8. UNCHANGED <<closed, forming, calls, made, logger, autolog>>
    BY <1>2 DEF ScoreMarket
  <2>9. Tables'
    BY <2>5, <2>7, <2>8, ListingMoves
  <2> QED
    BY <2>5, <2>6, <2>8, <2>9, ListingTyped
<1>3. ASSUME NEW m \in Symbols, SkipMarket(l, m)
      PROVE  IInv'
  <2> DEFINE row == [listing[l] EXCEPT !.todo = @ \ {m}]
  <2>1. row \in Listing /\ row.snapshot = snapshot
    BY <1>0 DEF Listing
  <2>2. listing' = [listing EXCEPT ![l] = row]
    BY <1>0, <1>3 DEF SkipMarket
  <2> HIDE DEF row
  <2>3. SoundTable(row.snapshot, made) /\ Fits(row.snapshot, calls)
    BY <1>0, <2>1
  <2>4. UNCHANGED <<closed, forming, calls, made, logger, autolog>>
    BY <1>3 DEF SkipMarket
  <2>5. Tables'
    BY <2>2, <2>3, <2>4, ListingMoves
  <2> QED
    BY <2>1, <2>2, <2>4, <2>5, ListingTyped
<1>4. CASE SaveAll(l)
  <2>1. calls' = Saved(calls, snapshot) /\ listing' = [listing EXCEPT ![l] = IdleListing]
        /\ UNCHANGED <<closed, forming, made, logger, autolog>>
    BY <1>4 DEF SaveAll
  <2>2. SoundTable(calls', made) /\ SameCalls(calls, calls')
    BY <1>0, <2>1, SavedIsSound
  <2>3. calls' \in Seq(Call)
    BY <2>2 DEF SoundTable
  <2>4. OneAiPick(calls')
    BY <1>0, <2>2, <2>3, SameCallsOnePick
  <2>5. ASSUME NEW k \in Listers
        PROVE  SoundTable(listing'[k].snapshot, made) /\ Fits(listing'[k].snapshot, calls')
    <3>1. CASE k = l
      <4>1. listing'[k].snapshot = <<>>
        BY <1>0, <2>1, <3>1 DEF IdleListing
      <4> QED
        BY <4>1, EmptyIsSound
    <3>2. CASE k # l
      <4>1. listing'[k] = listing[k]
        BY <1>0, <2>1, <3>2
      <4>2. SoundTable(listing[k].snapshot, made) /\ Fits(listing[k].snapshot, calls)
            /\ listing[k].snapshot \in Seq(Call)
        BY DEF IInv, Tables, SoundTable
      <4> QED
        BY <1>0, <2>2, <2>3, <4>1, <4>2, SameCallsFit
    <3> QED
      BY <3>1, <3>2
  <2>6. Tables'
    BY <2>1, <2>2, <2>4, <2>5 DEF Tables
  <2>7. IdleListing \in Listing
    BY DEF IdleListing, Listing
  <2> QED
    BY <2>1, <2>6, <2>7, ListingTyped
<1> QED
  BY <1>1, <1>2, <1>3, <1>4 DEF ListStep

LEMMA PickKeeps ==
    ASSUME IInv, NEW g \in Loggers \cup {AutoLoop},
           LogStep(g) \/ (g = AutoLoop /\ AutoFetch) \/ \E setting \in Settings : SetAutolog(setting)
    PROVE  IInv'
<1>0. /\ made \in Nat /\ calls \in Seq(Call)
      /\ logger \in [Loggers \cup {AutoLoop} -> [phase : {"idle", "pick"},
                                                 market : Symbols \cup {None}, ts : Int]]
      /\ autolog \in Symbols \cup {None}
  BY DEF IInv, TypeOK
<1>1. ASSUME NEW m \in Symbols, FetchForPick(g, m)
      PROVE  IInv'
  <2> DEFINE candles == Feed(m, PickWindow)
             row == [phase |-> "pick", market |-> m, ts |-> Last(candles).ts]
  <2>1. candles \in Seq(Bar) /\ candles # <<>>
    BY <1>1, CallTrackerAssumption, FeedTyped DEF IInv, FetchForPick
  <2>2. Last(candles) \in Bar
    <3> HIDE DEF candles
    <3> QED
      BY <2>1 DEF Last
  <2>3. Last(candles).ts \in Int
    BY <2>2 DEF Bar
  <2>4. logger' = [logger EXCEPT ![g] = row]
        /\ UNCHANGED <<closed, forming, calls, made, listing, autolog>>
    BY <1>1 DEF FetchForPick
  <2>5. row \in [phase : {"idle", "pick"}, market : Symbols \cup {None}, ts : Int]
    BY <2>3
  <2>6. Tables'
    BY <2>4 DEF IInv, Tables
  <2>7. Picking'
    BY <1>0, <2>4 DEF IInv, Picking
  <2> HIDE DEF row
  <2>8. TypeOK'
    BY <1>0, <2>4, <2>5 DEF IInv, TypeOK
  <2> QED
    BY <2>6, <2>7, <2>8 DEF IInv
\* A logger that is done.
<1>2. ASSUME UNCHANGED <<closed, forming, listing, autolog>>, made' \in Nat, Tables',
             logger' = [logger EXCEPT ![g] = IdleLogger]
      PROVE  IInv'
  <2>1. calls' \in Seq(Call)
    BY <1>2 DEF Tables, SoundTable
  <2>2. IdleLogger \in [phase : {"idle", "pick"}, market : Symbols \cup {None}, ts : Int]
    BY DEF IdleLogger
  <2>3. Picking'
    BY <1>0, <1>2 DEF IInv, Picking, IdleLogger
  <2>4. TypeOK'
    BY <1>0, <1>2, <2>1, <2>2 DEF IInv, TypeOK
  <2> QED
    BY <1>2, <2>3, <2>4 DEF IInv
<1>3. ASSUME NEW plan \in Picks, LogPick(g, plan)
      PROVE  IInv'
  <2>1. plan \in Plan /\ logger[g].market \in Symbols /\ logger[g].ts \in Int
    BY <1>0, <1>3, CallTrackerAssumption DEF LogPick, IInv, Picking
  <2>2. Tables'
    BY <1>3, <2>1, SingleCall DEF LogPick
  <2> QED
    BY <1>0, <1>2, <1>3, <2>2 DEF LogPick
<1>4. CASE NoPick(g)
  <2>1. Tables'
    BY <1>4 DEF NoPick, IInv, Tables
  <2> QED
    BY <1>0, <1>2, <1>4, <2>1 DEF NoPick
<1>5. ASSUME NEW setting \in Settings, SetAutolog(setting)
      PROVE  IInv'
  <2>1. setting \in Symbols \cup {None}
    BY CallTrackerAssumption
  <2> QED
    BY <1>5, <2>1 DEF SetAutolog, IInv, TypeOK, Tables, Picking
<1>6. CASE g = AutoLoop /\ AutoFetch
  <2>1. autolog \in Symbols
    BY <1>0, <1>6 DEF AutoFetch
  <2> QED
    BY <1>1, <1>6, <2>1 DEF AutoFetch
<1> QED
  BY <1>1, <1>3, <1>4, <1>5, <1>6 DEF LogStep, AskForPick

LEMMA RestartKeeps ==
    ASSUME IInv, Restart
    PROVE  IInv'
<1>1. made \in Nat /\ SoundTable(calls, made) /\ OneAiPick(calls)
  BY DEF IInv, Tables, TypeOK
<1>2. Tables'
  BY <1>1, TableChanges DEF IInv, Tables, Restart, IdleProcess
<1> QED
  BY <1>1, <1>2, TableTyped DEF Restart

LEMMA NextKeeps == IInv /\ [Next]_vars => IInv'
<1> SUFFICES ASSUME IInv, [Next]_vars PROVE IInv'
  OBVIOUS
<1>1. CASE UNCHANGED vars
  BY <1>1 DEF IInv, TypeOK, Tables, Picking, vars
<1>2. CASE Next
  BY <1>2, MarketKeeps, ClientKeeps, RemovalKeeps, ListKeeps, PickKeeps, RestartKeeps DEF Next
<1> QED
  BY <1>1, <1>2

-----------------------------------------------------------------------------
(* The theorems *)

\* The table and the snapshots of all listings, in every reachable state.
THEOREM InductiveInvariant == Spec => []IInv
BY InitHolds, NextKeeps, PTL DEF Spec

\* Every variable keeps its type.
THEOREM TypeCorrect == Spec => []TypeOK
<1>1. IInv => TypeOK
  BY DEF IInv
<1> QED
  BY <1>1, InductiveInvariant, PTL

\* One AI pick per market and candle, whoever logs it (idx_ai_once_per_candle).
THEOREM OnePickHolds == Spec => []OneAiPickPerCandle
<1>1. IInv => OneAiPickPerCandle
  BY DEF IInv, Tables, OneAiPick, OneAiPickPerCandle
<1> QED
  BY <1>1, InductiveInvariant, PTL

\* The two bets of a round (head_to_head) are decided by the same bar, with any
\* number of listings overlapping on snapshots of any age and any window.
THEOREM RoundsAreFair == Spec => []RoundDecidedTogether
<1>1. IInv => RoundDecidedTogether
  BY DEF IInv, Tables, SoundTable, Twins, Match, RoundDecidedTogether
<1> QED
  BY <1>1, InductiveInvariant, PTL

\* A row that is another one but for its score.
Rewrites(new, old) == [new EXCEPT !.score = old.score] = old

\* What a row of the next table is: a new call, or an old one where it was or
\* further down, with some score.
Continues(t, n, u) ==
    \A k \in 1..Len(u) :
        \/ u[k].id > n
        \/ \E j \in 1..Len(t) : Rewrites(u[k], t[j]) /\ k <= j

LEMMA SameRow ==
    ASSUME NEW c \in Call
    PROVE  Rewrites(c, c)
BY DEF Call, Rewrites

LEMMA AddedContinues ==
    ASSUME NEW t \in Seq(Call), NEW n \in Nat, NEW u \in Seq(Call), NEW c \in Call, c.id > n,
           Continues(t, n, u)
    PROVE  Continues(t, n, Added(u, c))
<1>1. ASSUME NEW k \in 1..Len(Append(u, c))
      PROVE  \/ k \in 1..Len(u) /\ Append(u, c)[k] = u[k]
             \/ Append(u, c)[k] = c
  OBVIOUS
<1>2. Continues(t, n, Append(u, c))
  BY <1>1 DEF Continues
<1> QED
  BY <1>2 DEF Added

LEMMA OlderContinues ==
    ASSUME NEW t \in Seq(Call), NEW n, NEW u, Older(t, u)
    PROVE  Continues(t, n, u)
<1>1. ASSUME NEW k \in 1..Len(u)
      PROVE  \E j \in 1..Len(t) : Rewrites(u[k], t[j]) /\ k <= j
  <2>1. k \in 1..Len(t) /\ u[k] = t[k]
    BY DEF Older
  <2>2. t[k] \in Call
    BY <2>1
  <2> QED
    BY <2>1, <2>2, SameRow
<1> QED
  BY <1>1 DEF Continues

LEMMA SavedContinues ==
    ASSUME NEW t \in Seq(Call), NEW n, NEW u \in Seq(Call), SameCalls(t, u)
    PROVE  Continues(t, n, u)
<1> SUFFICES ASSUME NEW k \in 1..Len(u)
             PROVE  \E j \in 1..Len(t) : Rewrites(u[k], t[j]) /\ k <= j
  BY DEF Continues
<1>1. k \in 1..Len(t) /\ t[k] \in Call /\ u[k] = [t[k] EXCEPT !.score = u[k].score]
  BY DEF SameCalls
<1>2. Rewrites(u[k], t[k])
  BY <1>1 DEF Call, Rewrites
<1> QED
  BY <1>1, <1>2

LEMMA SingleContinues ==
    ASSUME IInv, NEW m \in Symbols, NEW plan \in Plan, NEW clicked \in Int,
           NEW source \in {"manual", "ai"},
           calls' = Added(calls, NewCall(made + 1, 0, m, plan, clicked, source))
    PROVE  Continues(calls, made, calls')
<1> DEFINE c == NewCall(made + 1, 0, m, plan, clicked, source)
<1>1. made \in Nat /\ calls \in Seq(Call) /\ Older(calls, calls)
  BY DEF IInv, TypeOK, Older
<1>2. c \in Call /\ c.id = made + 1
  BY <1>1, NewCallTyped
<1> HIDE DEF c
<1>3. Continues(calls, made, Added(calls, c))
  BY <1>1, <1>2, OlderContinues, AddedContinues
<1> QED
  BY <1>3 DEF c

LEMMA BetsContinue ==
    ASSUME IInv, NEW m \in Symbols, NEW human \in Side, NEW band \in Bands, NEW clicked \in Int
    PROVE  LET t == HumanBet(m, human, band, clicked)
           IN  t \in Seq(Call) /\ Continues(calls, made, t)
<1> DEFINE c == Bet(made + 1, made + 1, m, human, band, clicked, "manual")
<1>1. made \in Nat /\ calls \in Seq(Call) /\ Older(calls, calls)
  BY DEF IInv, TypeOK, Older
<1>2. c \in Call /\ c.id = made + 1
  BY <1>1, BetTyped
<1>3. Continues(calls, made, Added(calls, c))
  BY <1>1, <1>2, OlderContinues, AddedContinues
<1>4. Added(calls, c) \in Seq(Call)
  BY <1>1, <1>2 DEF Added
<1> QED
  BY <1>3, <1>4 DEF HumanBet

LEMMA RoundContinues ==
    ASSUME IInv, NEW m \in Symbols, NEW human \in Side, NEW ai \in Side, NEW band \in Bands,
           NEW clicked \in Int, PlaceRound(m, human, ai, band, clicked)
    PROVE  Continues(calls, made, calls')
<1> DEFINE t == HumanBet(m, human, band, clicked)
           c == Bet(made + 2, made + 1, m, ai, band, clicked, "ai")
<1>1. made \in Nat /\ calls \in Seq(Call)
  BY DEF IInv, TypeOK
<1>2. c \in Call /\ c.id = made + 2
  BY <1>1, BetTyped
<1>3. t \in Seq(Call) /\ Continues(calls, made, t)
  BY BetsContinue
<1>4. calls' = Added(t, c)
  BY DEF PlaceRound
<1> HIDE DEF t, c
<1> QED
  BY <1>1, <1>2, <1>3, <1>4, AddedContinues

\* A step of the process continues the table.
LEMMA StepContinues ==
    ASSUME IInv, Next
    PROVE  Continues(calls, made, calls')
<1>0. made \in Nat /\ calls \in Seq(Call) /\ Older(calls, calls)
  BY DEF IInv, TypeOK, Older
<1>1. ASSUME UNCHANGED calls
      PROVE  Continues(calls, made, calls')
  BY <1>0, <1>1, OlderContinues
<1>3. ASSUME NEW m \in Symbols, ClientStep(m)
      PROVE  Continues(calls, made, calls')
  <2>0. FormingTs(m) \in Nat
    BY DEF IInv, TypeOK, FormingTs
  <2>1. PICK clicked \in 0..FormingTs(m) :
          \/ \E tap \in Taps : RecordCall(m, tap, clicked)
          \/ \E human \in Side, band \in Bands :
                \/ \E ai \in Side : PlaceRound(m, human, ai, band, clicked)
                \/ RoundCutShort(m, human, band, clicked)
    BY <1>3 DEF ClientStep
  <2>2. clicked \in Int
    BY <2>0
  <2>3. ASSUME NEW tap \in Taps, RecordCall(m, tap, clicked)
        PROVE  Continues(calls, made, calls')
    <3>1. tap.plan \in Plan /\ tap.source \in {"manual", "ai"}
      BY CallTrackerAssumption
    <3> QED
      BY <2>2, <2>3, <3>1, SingleContinues DEF RecordCall
  <2>4. ASSUME NEW human \in Side, NEW band \in Bands, NEW ai \in Side,
               PlaceRound(m, human, ai, band, clicked)
        PROVE  Continues(calls, made, calls')
    BY <2>2, <2>4, RoundContinues
  <2>5. ASSUME NEW human \in Side, NEW band \in Bands, RoundCutShort(m, human, band, clicked)
        PROVE  Continues(calls, made, calls')
    BY <2>2, <2>5, BetsContinue DEF RoundCutShort
  <2> QED
    BY <2>1, <2>3, <2>4, <2>5
<1>4. ASSUME Clear \/ \E n \in Undo : RemoveLast(n)
      PROVE  Continues(calls, made, calls')
  <2>1. Older(calls, calls')
    BY <1>0, <1>4, CallTrackerAssumption, UndoneIsOlder DEF Clear, RemoveLast
  <2> QED
    BY <1>0, <2>1, OlderContinues
<1>5. ASSUME NEW l \in Listers, ListStep(l)
      PROVE  Continues(calls, made, calls')
  <2>1. CASE SaveAll(l)
    <3>1. SoundTable(calls, made) /\ SoundTable(listing[l].snapshot, made)
          /\ Fits(listing[l].snapshot, calls)
      BY DEF IInv, Tables
    <3>2. calls' = Saved(calls, listing[l].snapshot)
      BY <2>1 DEF SaveAll
    <3>3. SoundTable(calls', made) /\ SameCalls(calls, calls')
      BY <3>1, <3>2, SavedIsSound
    <3>4. calls' \in Seq(Call)
      BY <3>3 DEF SoundTable
    <3> QED
      BY <1>0, <3>3, <3>4, SavedContinues
  <2>2. CASE ~SaveAll(l)
    BY <1>1, <1>5, <2>2 DEF ListStep, BeginList, ScoreMarket, SkipMarket
  <2> QED
    BY <2>1, <2>2
<1>6. ASSUME NEW g \in Loggers \cup {AutoLoop}, LogStep(g)
      PROVE  Continues(calls, made, calls')
  <2>1. ASSUME NEW plan \in Picks, LogPick(g, plan)
        PROVE  Continues(calls, made, calls')
    <3>1. logger[g].market \in Symbols /\ logger[g].ts \in Int /\ plan \in Plan
      BY <2>1, CallTrackerAssumption DEF LogPick, IInv, Picking, TypeOK
    <3> QED
      BY <2>1, <3>1, SingleContinues DEF LogPick
  <2> QED
    BY <1>1, <1>6, <2>1 DEF LogStep, AskForPick, FetchForPick, NoPick
<1> QED
  BY <1>1, <1>3, <1>4, <1>5, <1>6
     DEF Next, MarketStep, trackerVars, AutoFetch, FetchForPick, SetAutolog, Restart

\* Whatever snapshot a listing saves, and whenever, no call that was cleared or
\* undone comes back, and nobody's place in the table moves (save_all).
THEOREM NothingEverComesBack == Spec => NothingComesBack
<1>1. IInv /\ [Next]_vars => [Continues(calls, made, calls')]_vars
  BY StepContinues
<1>2. [Continues(calls, made, calls')]_vars
      => [\A k \in 1..Len(calls') :
            \/ calls'[k].id > made
            \/ \E j \in 1..Len(calls) :
                  [calls'[k] EXCEPT !.score = calls[j].score] = calls[j] /\ k <= j]_vars
  BY DEF Continues, Rewrites
<1> QED
  BY <1>1, <1>2, InductiveInvariant, PTL DEF Spec, NothingComesBack

-----------------------------------------------------------------------------
(* The scores that were recorded, and the candles they were read from *)

\* All the bars of a market, the one in progress included if the feed serves it.
History(s) == IF ServesForming THEN Append(closed[s], AsBar(forming[s], FormingTs(s)))
                               ELSE closed[s]

\* The score of a call that was decided is, on candles h, that of the first
\* touch, but for a bar in progress that has reached the stop since it won.
Right(call, h) ==
    Undecided(call)
    \/ \E i \in 1..Len(h) :
          /\ FirstTouch(call, h, i)
          /\ call.score.time = h[i].ts
          /\ \/ call.score = ScoreAt(call, h[i])
             \/ call.score.status = "WIN" /\ StopTouched(call, h[i])

\* A history goes on: its last bar may widen, and others may follow.
Grows(h, g) ==
    /\ Len(h) <= Len(g)
    /\ \A i \in 1..Len(h) :
          /\ i < Len(h) => g[i] = h[i]
          /\ g[i].ts = h[i].ts /\ g[i].low <= h[i].low /\ g[i].high >= h[i].high

\* What was right stays right.
LEMMA RightStands ==
    ASSUME NEW call \in Call, NEW h \in Seq(Bar), NEW g \in Seq(Bar), Grows(h, g), Right(call, h)
    PROVE  Right(call, g)
<1>1. CASE Undecided(call)
  BY <1>1 DEF Right
<1>2. CASE ~Undecided(call)
  <2>1. PICK i \in 1..Len(h) :
          /\ FirstTouch(call, h, i)
          /\ call.score.time = h[i].ts
          /\ \/ call.score = ScoreAt(call, h[i])
             \/ call.score.status = "WIN" /\ StopTouched(call, h[i])
    BY <1>2 DEF Right
  <2>2. /\ call.stop \in Int /\ call.tp1 \in Int /\ call.clicked \in Int
        /\ i \in 1..Len(g) /\ h[i] \in Bar /\ g[i] \in Bar
    BY DEF Call, Grows
  <2>3. /\ h[i].low \in Int /\ h[i].high \in Int /\ g[i].low \in Int /\ g[i].high \in Int
        /\ g[i].ts = h[i].ts /\ g[i].low <= h[i].low /\ g[i].high >= h[i].high
    BY <2>2 DEF Bar, Grows
  <2>4. /\ StopTouched(call, h[i]) => StopTouched(call, g[i])
        /\ TargetTouched(call, h[i]) => TargetTouched(call, g[i])
    BY <2>2, <2>3 DEF StopTouched, TargetTouched
  <2>5. Touches(call, g, i)
    BY <2>1, <2>2, <2>3, <2>4 DEF FirstTouch, Touches
  <2>6. ASSUME NEW j \in 1..(i - 1)
        PROVE  ~Touches(call, g, j)
    <3>1. j \in 1..Len(h) /\ g[j] = h[j]
      BY DEF Grows
    <3> QED
      BY <2>1, <3>1 DEF FirstTouch, Touches
  <2>7. FirstTouch(call, g, i)
    BY <2>5, <2>6 DEF FirstTouch
  <2>8. Loss(call, g[i]) = Loss(call, h[i]) /\ Win(call, g[i]) = Win(call, h[i])
    BY <2>3 DEF Loss, Win
  <2>9. \/ call.score = ScoreAt(call, g[i])
        \/ call.score.status = "WIN" /\ StopTouched(call, g[i])
    BY <2>1, <2>4, <2>8 DEF ScoreAt, Win
  <2> QED
    BY <2>1, <2>2, <2>3, <2>7, <2>9 DEF Right
<1> QED
  BY <1>1, <1>2

\* A score that was just read from the candles is right on them.
LEMMA RightNow ==
    ASSUME NEW call \in Call, NEW h \in Seq(Bar)
    PROVE  Right([call EXCEPT !.score = ResolveCall(call, h)], h)
<1> DEFINE c == [call EXCEPT !.score = ResolveCall(call, h)]
<1>1. c.score = ResolveCall(call, h) /\ SameCall(c, call)
  BY DEF Call, SameCall
<1> HIDE DEF c
<1>2. CASE \E i \in 1..Len(h) : FirstTouch(call, h, i)
  <2>1. PICK i \in 1..Len(h) : FirstTouch(call, h, i)
    BY <1>2
  <2>2. c.score = ScoreAt(call, h[i])
    BY <1>1, <2>1, ScoredAt
  <2>3. FirstTouch(c, h, i)
    BY <1>1, <2>1 DEF FirstTouch, Touches, StopTouched, TargetTouched, SameCall
  <2>4. ScoreAt(c, h[i]) = ScoreAt(call, h[i])
    BY <1>1 DEF ScoreAt, Loss, Win, StopTouched, SameCall
  <2>5. c.score.time = h[i].ts
    BY <2>2 DEF ScoreAt, Loss, Win
  <2> QED
    BY <2>2, <2>3, <2>4, <2>5 DEF Right, c
<1>3. CASE ~\E i \in 1..Len(h) : FirstTouch(call, h, i)
  BY <1>1, <1>3 DEF Right, ResolveCall, OpenScore, Undecided, c
<1> QED
  BY <1>2, <1>3

\* It is a fact about the call and its score.
LEMMA RightIsOfTheScore ==
    ASSUME NEW a, NEW b, NEW h, SameCall(a, b), a.score = b.score, Right(b, h)
    PROVE  Right(a, h)
<1>1. CASE Undecided(b)
  BY <1>1 DEF Right, Undecided
<1>2. CASE ~Undecided(b)
  <2>1. PICK i \in 1..Len(h) :
          /\ FirstTouch(b, h, i)
          /\ b.score.time = h[i].ts
          /\ \/ b.score = ScoreAt(b, h[i])
             \/ b.score.status = "WIN" /\ StopTouched(b, h[i])
    BY <1>2 DEF Right
  <2>2. FirstTouch(a, h, i)
    BY <2>1 DEF FirstTouch, Touches, StopTouched, TargetTouched, SameCall
  <2>3. ScoreAt(a, h[i]) = ScoreAt(b, h[i])
    BY DEF ScoreAt, Loss, Win, StopTouched, SameCall
  <2>4. StopTouched(a, h[i]) <=> StopTouched(b, h[i])
    BY DEF StopTouched, SameCall
  <2> QED
    BY <2>1, <2>2, <2>3, <2>4 DEF Right
<1> QED
  BY <1>1, <1>2

\* The history of every market fits into a listing's window.
Bounded == \A s \in Symbols : Len(closed[s]) <= MaxBars

\* Every decided row is right, of the table and of the snapshots.
RightTable(t) == \A i \in 1..Len(t) : Right(t[i], History(t[i].market))

JInv ==
    /\ IInv
    /\ Bounded
    /\ RightTable(calls)
    /\ \A l \in Listers : RightTable(listing[l].snapshot)

LEMMA HistoryTyped ==
    ASSUME TypeOK, NEW s \in Symbols
    PROVE  History(s) \in Seq(Bar)
<1>1. closed[s] \in Seq(Bar) /\ FormingTs(s) \in Int /\ forming[s] \in Shape
  BY DEF TypeOK, FormingTs
<1>2. Append(closed[s], AsBar(forming[s], FormingTs(s))) \in Seq(Bar)
  BY <1>1, BarTyped
<1> QED
  BY <1>1, <1>2 DEF History

\* A window that is long enough shows all of it.
LEMMA WindowIsHistory ==
    ASSUME TypeOK, Bounded, NEW s \in Symbols, NEW window \in Nat, window > MaxBars
    PROVE  Feed(s, window) = History(s)
<1>1. closed[s] \in Seq(Bar) /\ Len(closed[s]) <= MaxBars
  BY DEF TypeOK, Bounded
<1>2. Len(Append(closed[s], AsBar(forming[s], FormingTs(s)))) = Len(closed[s]) + 1
  BY <1>1
<1> QED
  BY <1>1, <1>2, MarketAssumption DEF Feed, History, LastOf

\* Whatever the market does, its history goes on.
LEMMA HistoryGrows ==
    ASSUME TypeOK, NEW m \in Symbols, Tick(m) \/ CloseBar(m), NEW s \in Symbols
    PROVE  Grows(History(s), History(s)')
<1> DEFINE bars == closed[s]
           last == AsBar(forming[s], Len(bars) + 1)
<1>0. /\ bars \in Seq(Bar) /\ Len(bars) \in Nat /\ forming[s] \in Shape
      /\ closed \in [Symbols -> Seq(Bar)] /\ forming \in [Symbols -> Shape]
  BY DEF TypeOK
<1>1. \A i \in 1..Len(bars) : bars[i].low \in Int /\ bars[i].high \in Int
  <2>1. \A i \in 1..Len(bars) : bars[i] \in Bar
    BY <1>0
  <2> QED
    BY <2>1 DEF Bar
<1>2. /\ History(s) = IF ServesForming THEN Append(bars, last) ELSE bars
      /\ History(s)' = IF ServesForming
                       THEN Append(closed'[s], AsBar(forming'[s], Len(closed'[s]) + 1))
                       ELSE closed'[s]
  BY DEF History, FormingTs
<1>3. last.low = forming[s].low /\ last.high = forming[s].high /\ last.ts = Len(bars) + 1
      /\ forming[s].low \in Int /\ forming[s].high \in Int
  BY <1>0 DEF AsBar, Shape
<1> HIDE DEF bars, last
\* A longer sequence that starts with the bars, and then a wider last bar.
<1>4. ASSUME NEW wide, wide.ts = last.ts, wide.low <= last.low, wide.high >= last.high
      PROVE  /\ Grows(Append(bars, last), Append(bars, wide))
             /\ \A b : Grows(Append(bars, last), Append(Append(bars, wide), b))
             /\ Grows(bars, Append(bars, wide)) /\ Grows(bars, bars)
  <2>1. ASSUME NEW b
        PROVE  /\ Len(Append(bars, b)) = Len(bars) + 1
               /\ \A i \in 1..Len(bars) : Append(bars, b)[i] = bars[i]
               /\ Append(bars, b)[Len(bars) + 1] = b
    BY <1>0
  <2>2. ASSUME NEW b
        PROVE  /\ Len(Append(Append(bars, wide), b)) = Len(bars) + 2
               /\ \A i \in 1..Len(bars) : Append(Append(bars, wide), b)[i] = bars[i]
               /\ Append(Append(bars, wide), b)[Len(bars) + 1] = wide
    BY <1>0
  <2>3. Grows(Append(bars, last), Append(bars, wide))
    BY <1>0, <1>1, <1>4, <2>1 DEF Grows
  <2>4. \A b : Grows(Append(bars, last), Append(Append(bars, wide), b))
    BY <1>0, <1>1, <1>4, <2>1, <2>2 DEF Grows
  <2>5. Grows(bars, Append(bars, wide)) /\ Grows(bars, bars)
    BY <1>0, <1>1, <2>1 DEF Grows
  <2> QED
    BY <2>3, <2>4, <2>5
<1>5. CASE s # m
  <2>1. closed'[s] = bars /\ forming'[s] = forming[s]
    BY <1>0, <1>5 DEF Tick, CloseBar, bars
  <2>2. History(s)' = History(s)
    BY <1>2, <2>1 DEF last
  <2>3. last.low <= last.low /\ last.high >= last.high
    BY <1>3
  <2> QED
    BY <1>2, <1>4, <2>2, <2>3
<1>6. CASE s = m /\ Tick(m)
  <2>1. PICK shape \in Shapes : Widens(shape, forming[s]) /\ forming'[s] = shape
    BY <1>0, <1>6 DEF Tick
  <2>2. closed'[s] = bars
    BY <1>0, <1>6 DEF Tick, bars
  <2> DEFINE wide == AsBar(shape, Len(bars) + 1)
  <2>3. wide.ts = last.ts /\ wide.low <= last.low /\ wide.high >= last.high
    BY <1>3, <2>1 DEF AsBar, Widens
  <2>4. History(s)' = IF ServesForming THEN Append(bars, wide) ELSE bars
    BY <1>2, <2>1, <2>2
  <2> HIDE DEF wide
  <2> QED
    BY <1>2, <1>4, <2>3, <2>4
<1>7. CASE s = m /\ CloseBar(m)
  <2>1. PICK shape \in Shapes : /\ Widens(shape, forming[s])
                                /\ closed'[s] = Append(bars, AsBar(shape, Len(bars) + 1))
    BY <1>0, <1>7 DEF CloseBar, bars
  <2> DEFINE wide == AsBar(shape, Len(bars) + 1)
  <2>2. wide.ts = last.ts /\ wide.low <= last.low /\ wide.high >= last.high
    BY <1>3, <2>1 DEF AsBar, Widens
  <2>3. closed'[s] = Append(bars, wide)
    BY <2>1
  <2> HIDE DEF wide
  <2> QED
    BY <1>2, <1>4, <2>2, <2>3
<1> QED
  BY <1>5, <1>6, <1>7

\* A call that nobody has scored is appended.
LEMMA AddedIsRight ==
    ASSUME NEW t \in Seq(Call), NEW c, Undecided(c), RightTable(t)
    PROVE  RightTable(Added(t, c))
<1>1. ASSUME NEW i \in 1..Len(Append(t, c))
      PROVE  \/ i \in 1..Len(t) /\ Append(t, c)[i] = t[i]
             \/ Append(t, c)[i] = c
  OBVIOUS
<1>2. RightTable(Append(t, c))
  BY <1>1 DEF RightTable, Right
<1> QED
  BY <1>2 DEF Added

LEMMA OlderIsRight ==
    ASSUME NEW t \in Seq(Call), NEW u, Older(t, u), RightTable(t)
    PROVE  RightTable(u)
<1>1. \A i \in 1..Len(u) : i \in 1..Len(t) /\ u[i] = t[i]
  BY DEF Older
<1> QED
  BY <1>1 DEF RightTable

\* A snapshot's scores go to the calls they were made for.
LEMMA SavedIsRight ==
    ASSUME NEW t \in Seq(Call), NEW s \in Seq(Call), Fits(s, t), RightTable(t), RightTable(s)
    PROVE  RightTable(Saved(t, s))
<1>0. Len(Saved(t, s)) = Len(t)
  BY DEF Saved
<1> SUFFICES ASSUME NEW k \in 1..Len(t)
             PROVE  Right(Saved(t, s)[k], History(Saved(t, s)[k].market))
  BY <1>0 DEF RightTable
<1> DEFINE r == CHOOSE row \in ToSet(s) : row.id = t[k].id
<1>1. CASE Holds(s, t[k].id)
  <2>1. r \in ToSet(s) /\ r.id = t[k].id
    BY <1>1 DEF Holds, ToSet
  <2>2. PICK i \in 1..Len(s) : r = s[i]
    BY <2>1 DEF ToSet
  <2>3. Saved(t, s)[k] = [t[k] EXCEPT !.score = s[i].score]
    BY <1>1, <2>2 DEF Saved, Holds
  <2>4. t[k] \in Call
    OBVIOUS
  <2> DEFINE c == [t[k] EXCEPT !.score = s[i].score]
  <2>5. c.score = s[i].score /\ SameCall(c, t[k])
    BY <2>4 DEF Call, SameCall
  <2> HIDE DEF c, r
  <2>6. SameCall(s[i], t[k])
    BY <2>1, <2>2 DEF Fits
  <2>7. SameCall(c, s[i])
    BY <2>5, <2>6 DEF SameCall
  <2>8. Right(s[i], History(s[i].market))
    BY DEF RightTable
  <2>9. Right(c, History(c.market))
    BY <2>5, <2>7, <2>8, RightIsOfTheScore DEF SameCall
  <2> QED
    BY <2>3, <2>9 DEF c
<1>2. CASE ~Holds(s, t[k].id)
  <2>1. Saved(t, s)[k] = t[k]
    BY <1>2 DEF Saved, Holds
  <2> QED
    BY <2>1 DEF RightTable
<1> QED
  BY <1>1, <1>2

\* A market's part of a snapshot is scored on the market's whole history.
LEMMA ScoredIsRight ==
    ASSUME NEW t \in Seq(Call), NEW m \in Symbols, History(m) \in Seq(Bar), RightTable(t)
    PROVE  RightTable([i \in 1..Len(t) |-> Rescored(t[i], m, History(m))])
<1> SUFFICES ASSUME NEW i \in 1..Len(t)
             PROVE  LET c == Rescored(t[i], m, History(m)) IN Right(c, History(c.market))
  BY DEF RightTable
<1>1. t[i] \in Call
  OBVIOUS
<1>2. CASE t[i].market = m /\ Undecided(t[i])
  <2> DEFINE c == [t[i] EXCEPT !.score = ResolveCall(t[i], History(m))]
  <2>1. Rescored(t[i], m, History(m)) = c
    BY <1>2 DEF Rescored
  <2>2. c.market = m
    BY <1>1, <1>2 DEF Call
  <2>3. Right(c, History(m))
    BY <1>1, RightNow
  <2> HIDE DEF c
  <2> QED
    BY <2>1, <2>2, <2>3
<1>3. CASE ~(t[i].market = m /\ Undecided(t[i]))
  BY <1>3 DEF Rescored, RightTable
<1> QED
  BY <1>2, <1>3

\* The market moves on: what was right stays right.
LEMMA MarketKeepsRight ==
    ASSUME JInv, NEW m \in Symbols, MarketStep(m)
    PROVE  JInv'
<1>0. IInv'
  BY MarketKeeps DEF JInv
<1>1. TypeOK /\ TypeOK' /\ UNCHANGED <<calls, listing>> /\ (Tick(m) \/ CloseBar(m))
  BY <1>0 DEF JInv, IInv, MarketStep, trackerVars
<1>2. ASSUME NEW t \in Seq(Call), RightTable(t)
      PROVE  \A i \in 1..Len(t) : Right(t[i], History(t[i].market)')
  <2> SUFFICES ASSUME NEW i \in 1..Len(t)
               PROVE  Right(t[i], History(t[i].market)')
    OBVIOUS
  <2>1. t[i] \in Call /\ t[i].market \in Symbols
    <3>1. t[i] \in Call
      OBVIOUS
    <3> QED
      BY <3>1 DEF Call
  <2>2. History(t[i].market) \in Seq(Bar) /\ History(t[i].market)' \in Seq(Bar)
    <3>1. \A s \in Symbols : History(s) \in Seq(Bar)
      BY <1>1, HistoryTyped
    <3>2. \A s \in Symbols : History(s)' \in Seq(Bar)
      <4>1. \A s \in Symbols : closed'[s] \in Seq(Bar) /\ forming'[s] \in Shape
        BY <1>1 DEF TypeOK
      <4>2. \A s \in Symbols : Append(closed'[s], AsBar(forming'[s], Len(closed'[s]) + 1)) \in Seq(Bar)
        BY <4>1, BarTyped
      <4> QED
        BY <4>1, <4>2 DEF History, FormingTs
    <3> QED
      BY <2>1, <3>1, <3>2
  <2>3. Grows(History(t[i].market), History(t[i].market)')
    BY <1>1, <2>1, HistoryGrows
  <2>4. Right(t[i], History(t[i].market))
    BY <1>2 DEF RightTable
  <2> QED
    BY <2>1, <2>2, <2>3, <2>4, RightStands
<1>3. calls \in Seq(Call) /\ \A l \in Listers : listing[l].snapshot \in Seq(Call)
  BY DEF JInv, IInv, TypeOK, Tables, SoundTable
<1>4. \A i \in 1..Len(calls) : Right(calls[i], History(calls[i].market)')
  BY <1>1, <1>2, <1>3 DEF JInv, History, FormingTs
<1>5. RightTable(calls)'
  BY <1>1, <1>4 DEF RightTable
<1>6. ASSUME NEW l \in Listers
      PROVE  RightTable(listing[l].snapshot)'
  <2>1. \A i \in 1..Len(listing[l].snapshot) :
            Right(listing[l].snapshot[i], History(listing[l].snapshot[i].market)')
    BY <1>1, <1>2, <1>3 DEF JInv, History, FormingTs
  <2> QED
    BY <1>1, <2>1 DEF RightTable
<1>7. Bounded'
  <2>1. closed \in [Symbols -> Seq(Bar)] /\ MaxBars \in Nat /\ Bounded
    BY <1>1, MarketAssumption DEF TypeOK, JInv
  <2>2. CASE Tick(m)
    BY <2>1, <2>2 DEF Tick, Bounded
  <2>3. CASE CloseBar(m)
    <3>1. PICK bar : closed' = [closed EXCEPT ![m] = Append(@, bar)]
      BY <2>3 DEF CloseBar
    <3>2. Len(closed[m]) \in Nat /\ Len(closed[m]) < MaxBars
          /\ Len(Append(closed[m], bar)) = Len(closed[m]) + 1
      BY <2>1, <2>3 DEF CloseBar
    <3> QED
      BY <2>1, <3>1, <3>2 DEF Bounded
  <2> QED
    BY <1>1, <2>2, <2>3
<1> QED
  BY <1>0, <1>5, <1>6, <1>7 DEF JInv

\* The candles stay: what is right is a matter of the scores.
LEMMA ScoresKeepRight ==
    ASSUME JInv, IInv', UNCHANGED <<closed, forming>>, RightTable(calls'),
           \A l \in Listers : RightTable(listing'[l].snapshot)
    PROVE  JInv'
<1>1. \A s : History(s)' = History(s)
  BY DEF History, FormingTs
<1>2. ASSUME NEW t
      PROVE  RightTable(t) => \A i \in 1..Len(t) : Right(t[i], History(t[i].market))
  BY DEF RightTable
<1>3. RightTable(calls)'
  BY <1>2 DEF RightTable, History, FormingTs
<1>4. \A l \in Listers : RightTable(listing[l].snapshot)'
  BY <1>2 DEF RightTable, History, FormingTs
<1>5. Bounded'
  BY DEF JInv, Bounded
<1> QED
  BY <1>3, <1>4, <1>5 DEF JInv

LEMMA NothingIsRight == RightTable(<<>>)
BY DEF RightTable

LEMMA IdleIsRight ==
    ASSUME IdleProcess, NEW l \in Listers
    PROVE  RightTable(listing'[l].snapshot)
<1>1. listing'[l].snapshot = <<>>
  BY DEF IdleProcess, IdleListing
<1> QED
  BY <1>1, NothingIsRight

LEMMA NewCallIsOpen ==
    ASSUME NEW id, NEW round, NEW m, NEW plan, NEW clicked, NEW source
    PROVE  /\ Undecided(NewCall(id, round, m, plan, clicked, source))
           /\ \A side, band : Undecided(Bet(id, round, m, side, band, clicked, source))
BY DEF NewCall, Bet, Undecided, OpenScore

LEMMA ClientKeepsRight ==
    ASSUME JInv, NEW m \in Symbols, ClientStep(m)
    PROVE  JInv'
<1>0. IInv' /\ calls \in Seq(Call) /\ made \in Nat /\ RightTable(calls)
      /\ \A l \in Listers : RightTable(listing[l].snapshot)
  BY ClientKeeps DEF JInv, IInv, TypeOK
<1>1. FormingTs(m) \in Nat
  BY DEF JInv, IInv, TypeOK, FormingTs
<1>2. PICK clicked \in 0..FormingTs(m) :
        \/ \E tap \in Taps : RecordCall(m, tap, clicked)
        \/ \E human \in Side, band \in Bands :
              \/ \E ai \in Side : PlaceRound(m, human, ai, band, clicked)
              \/ RoundCutShort(m, human, band, clicked)
  BY DEF ClientStep
<1>3. clicked \in Int
  BY <1>1
<1>4. ASSUME NEW human \in Side, NEW band \in Bands
      PROVE  LET t == HumanBet(m, human, band, clicked) IN t \in Seq(Call) /\ RightTable(t)
  <2> DEFINE c == Bet(made + 1, made + 1, m, human, band, clicked, "manual")
  <2>1. c \in Call
    BY <1>0, <1>3, BetTyped
  <2>2. Undecided(c)
    BY NewCallIsOpen
  <2> HIDE DEF c
  <2>3. Added(calls, c) \in Seq(Call) /\ RightTable(Added(calls, c))
    BY <1>0, <2>1, <2>2, AddedIsRight DEF Added
  <2> QED
    BY <2>3 DEF HumanBet, c
<1>5. ASSUME NEW tap \in Taps, RecordCall(m, tap, clicked)
      PROVE  JInv'
  <2>1. RightTable(calls')
    BY <1>0, <1>5, NewCallIsOpen, AddedIsRight DEF RecordCall
  <2> QED
    BY <1>0, <1>5, <2>1, ScoresKeepRight DEF RecordCall
<1>6. ASSUME NEW human \in Side, NEW band \in Bands, NEW ai \in Side,
             PlaceRound(m, human, ai, band, clicked)
      PROVE  JInv'
  <2> DEFINE t == HumanBet(m, human, band, clicked)
             c == Bet(made + 2, made + 1, m, ai, band, clicked, "ai")
  <2>0. t \in Seq(Call) /\ RightTable(t) /\ Undecided(c) /\ calls' = Added(t, c)
    BY <1>4, <1>6, NewCallIsOpen DEF PlaceRound
  <2> HIDE DEF t, c
  <2>1. RightTable(calls')
    BY <2>0, AddedIsRight
  <2> QED
    BY <1>0, <1>6, <2>1, ScoresKeepRight DEF PlaceRound
<1>7. ASSUME NEW human \in Side, NEW band \in Bands, RoundCutShort(m, human, band, clicked)
      PROVE  JInv'
  <2>1. RightTable(calls')
    BY <1>4, <1>7 DEF RoundCutShort
  <2> QED
    BY <1>0, <1>7, <2>1, IdleIsRight, ScoresKeepRight DEF RoundCutShort
<1> QED
  BY <1>2, <1>5, <1>6, <1>7

LEMMA ListKeepsRight ==
    ASSUME FullWindow, JInv, NEW l \in Listers, ListStep(l)
    PROVE  JInv'
<1> DEFINE snapshot == listing[l].snapshot
<1>0. /\ IInv' /\ calls \in Seq(Call) /\ RightTable(calls)
      /\ listing \in [Listers -> Listing]
      /\ \A k \in Listers : RightTable(listing[k].snapshot)
      /\ snapshot \in Seq(Call) /\ Fits(snapshot, calls)
      /\ UNCHANGED <<closed, forming>>
  <2>1. IInv'
    BY ListKeeps DEF JInv
  <2>2. UNCHANGED <<closed, forming>>
    BY DEF ListStep, BeginList, ScoreMarket, SkipMarket, SaveAll
  <2> QED
    BY <2>1, <2>2 DEF JInv, IInv, TypeOK, Tables, SoundTable, Listing
\* One listing goes on, with rows that are right.
<1>1. ASSUME NEW row, listing' = [listing EXCEPT ![l] = row], RightTable(row.snapshot),
             RightTable(calls')
      PROVE  JInv'
  <2>1. \A k \in Listers : RightTable(listing'[k].snapshot)
    BY <1>0, <1>1
  <2> QED
    BY <1>0, <1>1, <2>1, ScoresKeepRight
<1>2. CASE BeginList(l)
  BY <1>0, <1>1, <1>2 DEF BeginList
<1>3. ASSUME NEW m \in Symbols, ScoreMarket(l, m)
      PROVE  JInv'
  <2> DEFINE scored == [i \in 1..Len(snapshot) |-> Rescored(snapshot[i], m, Feed(m, ListWindow))]
             row == [listing[l] EXCEPT !.snapshot = scored, !.todo = @ \ {m}]
  <2>1. Feed(m, ListWindow) = History(m) /\ History(m) \in Seq(Bar)
    BY CallTrackerAssumption, WindowIsHistory, HistoryTyped DEF JInv, IInv, FullWindow
  <2>2. RightTable(scored)
    BY <1>0, <2>1, ScoredIsRight
  <2>3. listing' = [listing EXCEPT ![l] = row] /\ calls' = calls
    BY <1>0, <1>3 DEF ScoreMarket
  <2> HIDE DEF scored
  <2>4. row.snapshot = scored
    BY <1>0 DEF Listing
  <2> HIDE DEF row
  <2> QED
    BY <1>0, <1>1, <2>2, <2>3, <2>4
<1>4. ASSUME NEW m \in Symbols, SkipMarket(l, m)
      PROVE  JInv'
  <2> DEFINE row == [listing[l] EXCEPT !.todo = @ \ {m}]
  <2>1. row.snapshot = snapshot
    BY <1>0 DEF Listing
  <2>2. listing' = [listing EXCEPT ![l] = row] /\ calls' = calls
    BY <1>0, <1>4 DEF SkipMarket
  <2> HIDE DEF row
  <2> QED
    BY <1>0, <1>1, <2>1, <2>2
<1>5. CASE SaveAll(l)
  <2>1. RightTable(calls')
    BY <1>0, <1>5, SavedIsRight DEF SaveAll
  <2>2. IdleListing.snapshot = <<>>
    BY DEF IdleListing
  <2> QED
    BY <1>1, <1>5, <2>1, <2>2, NothingIsRight DEF SaveAll
<1> QED
  BY <1>2, <1>3, <1>4, <1>5 DEF ListStep

LEMMA NextKeepsRight ==
    ASSUME FullWindow, JInv, [Next]_vars
    PROVE  JInv'
<1>0. /\ IInv' /\ calls \in Seq(Call) /\ RightTable(calls)
      /\ \A l \in Listers : RightTable(listing[l].snapshot)
  <2>1. IInv'
    BY NextKeeps DEF JInv
  <2> QED
    BY <2>1 DEF JInv, IInv, TypeOK
<1>1. ASSUME UNCHANGED <<closed, forming, calls, listing>>
      PROVE  JInv'
  BY <1>0, <1>1, ScoresKeepRight
<1>2. ASSUME Clear \/ \E n \in Undo : RemoveLast(n)
      PROVE  JInv'
  <2>1. Older(calls, calls') /\ UNCHANGED <<closed, forming, listing>>
    BY <1>0, <1>2, CallTrackerAssumption, UndoneIsOlder DEF Clear, RemoveLast
  <2> QED
    BY <1>0, <2>1, OlderIsRight, ScoresKeepRight
<1>3. ASSUME NEW g \in Loggers \cup {AutoLoop}, LogStep(g)
      PROVE  JInv'
  <2>1. ASSUME NEW plan \in Picks, LogPick(g, plan)
        PROVE  JInv'
    <3>1. RightTable(calls')
      BY <1>0, <2>1, NewCallIsOpen, AddedIsRight DEF LogPick
    <3> QED
      BY <1>0, <2>1, <3>1, ScoresKeepRight DEF LogPick
  <2> QED
    BY <1>1, <1>3, <2>1 DEF LogStep, AskForPick, FetchForPick, NoPick
<1>4. CASE AutoFetch \/ \E setting \in Settings : SetAutolog(setting)
  BY <1>1, <1>4 DEF AutoFetch, FetchForPick, SetAutolog
<1>5. CASE Restart
  BY <1>0, <1>5, IdleIsRight, ScoresKeepRight DEF Restart
<1>6. CASE UNCHANGED vars
  BY <1>1, <1>6 DEF vars
<1> QED
  BY <1>2, <1>3, <1>4, <1>5, <1>6, MarketKeepsRight, ClientKeepsRight, ListKeepsRight DEF Next

LEMMA InitIsRight == Init => JInv
<1> SUFFICES ASSUME Init PROVE JInv
  OBVIOUS
<1>1. IInv
  BY InitHolds
<1>2. Bounded
  BY MarketAssumption DEF Init, MarketInit, Bounded
<1>3. calls = <<>> /\ \A l \in Listers : listing[l].snapshot = <<>>
  BY DEF Init, IdleListing
<1> QED
  BY <1>1, <1>2, <1>3, NothingIsRight DEF JInv

\* In every reachable state, every decided row of the table and of every
\* snapshot is right on the candles there are by then.
THEOREM RightInvariant == FullWindow => (Spec => []JInv)
<1> SUFFICES ASSUME FullWindow PROVE Spec => []JInv
  OBVIOUS
<1>1. Init => JInv
  BY InitIsRight
<1>2. JInv /\ [Next]_vars => JInv'
  BY NextKeepsRight
<1> QED
  BY <1>1, <1>2, PTL DEF Spec

LEMMA RightIsFirstTouch == JInv => DecidedAtFirstTouch
<1> SUFFICES ASSUME JInv, NEW k \in 1..Len(calls), ~Undecided(calls[k])
             PROVE  LET now == ResolveCall(calls[k], Feed(calls[k].market, MaxBars + 1))
                    IN  /\ now.time = calls[k].score.time
                        /\ \/ now = calls[k].score
                           \/ calls[k].score.status = "WIN" /\ now.status = "LOSS"
  BY DEF DecidedAtFirstTouch
<1> DEFINE call == calls[k]
           h == History(call.market)
<1>1. call \in Call /\ call.market \in Symbols
  <2>1. call \in Call
    BY DEF JInv, IInv, TypeOK
  <2> QED
    BY <2>1 DEF Call
<1>2. Feed(call.market, MaxBars + 1) = h /\ h \in Seq(Bar)
  BY <1>1, MarketAssumption, WindowIsHistory, HistoryTyped DEF JInv, IInv
<1>3. Right(call, h)
  BY DEF JInv, RightTable
<1> HIDE DEF call, h
<1>4. PICK i \in 1..Len(h) :
        /\ FirstTouch(call, h, i)
        /\ call.score.time = h[i].ts
        /\ \/ call.score = ScoreAt(call, h[i])
           \/ call.score.status = "WIN" /\ StopTouched(call, h[i])
  BY <1>3 DEF Right, call
<1>5. ResolveCall(call, h) = ScoreAt(call, h[i])
  BY <1>2, <1>4, ScoredAt
<1>6. ScoreAt(call, h[i]).time = h[i].ts
  BY DEF ScoreAt, Loss, Win
<1>7. StopTouched(call, h[i]) => ScoreAt(call, h[i]).status = "LOSS"
  BY DEF ScoreAt, Loss
<1> QED
  BY <1>2, <1>4, <1>5, <1>6, <1>7 DEF call

\* As long as a listing's window reaches back to the calls it scores, every
\* decided call was decided by the first bar that touched one of its levels,
\* whichever of the overlapping listings wrote the score, and from whatever
\* stage of the bar in progress (list_calls, resolve_call).
THEOREM FirstTouchDecides == FullWindow => (Spec => []DecidedAtFirstTouch)
<1> SUFFICES ASSUME FullWindow PROVE Spec => []DecidedAtFirstTouch
  OBVIOUS
<1>1. Spec => []JInv
  BY RightInvariant
<1> QED
  BY <1>1, RightIsFirstTouch, PTL

-----------------------------------------------------------------------------
(* LiveStream *)


-----------------------------------------------------------------------------
(* The invariant *)

Completed == closed[Symbol]

Phase == {"accepted", "connect", "open", "poll", "gone"}

Messages == [bar : Bar, closed : BOOLEAN]
Wire == Seq(Messages)

StreamTypeOK ==
    /\ closed \in [Symbols -> Seq(Bar)]
    /\ forming \in [Symbols -> Shapes]
    /\ phase \in Phase
    /\ wire \in Wire
    /\ lastOpen \in Nat \cup {None}
    /\ sent \in Seq(Bar)

\* The bar is one that completed, as it completed.
IsFinal(bar, bars) == bar.ts \in 1..Len(bars) /\ bar = bars[bar.ts]

\* The completed bars are numbered from 1.
Numbered(bars) == \A i \in 1..Len(bars) : bars[i].ts = i

\* The bars of a sequence are final and in their order.
InOrder(seq, bars) ==
    /\ \A i \in 1..Len(seq) : IsFinal(seq[i], bars)
    /\ \A i, j \in 1..Len(seq) : i < j => seq[i].ts < seq[j].ts

Before(seq, ts) == \A i \in 1..Len(seq) : seq[i].ts < ts

\* The closed candles on the wire are final, in their order, and later than
\* those that were sent.
OnTheirWay(messages, seq, bars) ==
    /\ \A i \in 1..Len(messages) : messages[i].closed =>
          /\ IsFinal(messages[i].bar, bars)
          /\ Before(seq, messages[i].bar.ts)
    /\ \A i, j \in 1..Len(messages) :
          i < j /\ messages[i].closed /\ messages[j].closed
              => messages[i].bar.ts < messages[j].bar.ts

\* Only the socket has messages, only the polling loop remembers a bar; what
\* was sent had begun before that one.
SInv ==
    /\ StreamTypeOK
    /\ Numbered(Completed)
    /\ InOrder(sent, Completed)
    /\ OnTheirWay(wire, sent, Completed)
    /\ (phase # "open" => wire = <<>>)
    /\ (phase \in {"accepted", "connect", "open"} => lastOpen = None)
    /\ (lastOpen # None => lastOpen <= Len(Completed) + 1 /\ Before(sent, lastOpen))

-----------------------------------------------------------------------------
(* Sequences of bars *)

LEMMA Completes ==
    ASSUME NEW bars \in Seq(Bar), Numbered(bars), NEW bar \in Bar, bar.ts = Len(bars) + 1
    PROVE  /\ Append(bars, bar) \in Seq(Bar)
           /\ Numbered(Append(bars, bar))
           /\ \A b : IsFinal(b, bars) => IsFinal(b, Append(bars, bar))
           /\ IsFinal(bar, Append(bars, bar))
<1> DEFINE more == Append(bars, bar)
<1>1. /\ more \in Seq(Bar) /\ Len(bars) \in Nat /\ Len(more) = Len(bars) + 1
      /\ more[Len(bars) + 1] = bar
      /\ \A i \in 1..Len(bars) : more[i] = bars[i]
  OBVIOUS
<1> HIDE DEF more
<1>2. Numbered(more)
  <2> SUFFICES ASSUME NEW i \in 1..Len(more)
               PROVE  more[i].ts = i
    BY DEF Numbered
  <2>1. CASE i = Len(bars) + 1
    BY <2>1, <1>1
  <2>2. CASE i \in 1..Len(bars)
    BY <2>2, <1>1 DEF Numbered
  <2> QED
    BY <2>1, <2>2, <1>1
<1>3. \A b : IsFinal(b, bars) => IsFinal(b, more)
  BY <1>1 DEF IsFinal
<1>4. IsFinal(bar, more)
  BY <1>1 DEF IsFinal
<1> QED
  BY <1>1, <1>2, <1>3, <1>4 DEF more

\* What was in order stays so when further bars complete.
LEMMA OrderStays ==
    ASSUME NEW seq, NEW messages, NEW bars, NEW more,
           \A b : IsFinal(b, bars) => IsFinal(b, more)
    PROVE  /\ InOrder(seq, bars) => InOrder(seq, more)
           /\ OnTheirWay(messages, seq, bars) => OnTheirWay(messages, seq, more)
BY DEF InOrder, OnTheirWay

LEMMA SendsOne ==
    ASSUME NEW seq \in Seq(Bar), NEW bars, NEW bar \in Bar,
           InOrder(seq, bars), IsFinal(bar, bars), Before(seq, bar.ts)
    PROVE  /\ seq \o <<bar>> \in Seq(Bar)
           /\ InOrder(seq \o <<bar>>, bars)
           /\ \A ts \in Int : bar.ts < ts => Before(seq \o <<bar>>, ts)
<1> DEFINE more == seq \o <<bar>>
<1>1. /\ more \in Seq(Bar) /\ Len(seq) \in Nat /\ Len(more) = Len(seq) + 1
      /\ more[Len(seq) + 1] = bar
      /\ \A i \in 1..Len(seq) : more[i] = seq[i] /\ seq[i] \in Bar
  OBVIOUS
<1>2. /\ bar.ts \in Int
      /\ \A i \in 1..Len(seq) : more[i].ts \in Int /\ more[i].ts < bar.ts
  BY <1>1 DEF Bar, Before
<1> HIDE DEF more
<1>3. \A i \in 1..Len(more) : i = Len(seq) + 1 \/ i \in 1..Len(seq)
  BY <1>1
<1>4. \A i \in 1..Len(more) : IsFinal(more[i], bars)
  BY <1>1, <1>3 DEF InOrder
<1>5. ASSUME NEW i \in 1..Len(more), NEW j \in 1..Len(more), i < j
      PROVE  more[i].ts < more[j].ts
  <2>1. i \in 1..Len(seq)
    BY <1>1, <1>5
  <2>2. CASE j = Len(seq) + 1
    BY <2>1, <2>2, <1>1, <1>2
  <2>3. CASE j \in 1..Len(seq)
    BY <2>1, <2>3, <1>1, <1>5 DEF InOrder
  <2> QED
    BY <1>3, <2>2, <2>3
<1>6. ASSUME NEW ts \in Int, bar.ts < ts
      PROVE  Before(more, ts)
  <2> SUFFICES ASSUME NEW i \in 1..Len(more)
               PROVE  more[i].ts < ts
    BY DEF Before
  <2> QED
    BY <1>1, <1>2, <1>3, <1>6
<1>7. InOrder(more, bars)
  BY <1>4, <1>5 DEF InOrder
<1> QED
  BY <1>1, <1>6, <1>7 DEF more

LEMMA SendsNone ==
    ASSUME NEW seq \in Seq(Bar)
    PROVE  seq \o <<>> = seq
OBVIOUS

\* The messages before a break.
LEMMA WireBreaks ==
    ASSUME NEW messages \in Wire, NEW k \in 0..Len(messages), NEW seq, NEW bars,
           OnTheirWay(messages, seq, bars)
    PROVE  /\ SubSeq(messages, 1, k) \in Wire
           /\ OnTheirWay(SubSeq(messages, 1, k), seq, bars)
<1> DEFINE left == SubSeq(messages, 1, k)
<1>1. /\ left \in Wire /\ Len(left) = k /\ k \in Nat /\ k <= Len(messages)
      /\ Len(messages) \in Nat
      /\ \A i \in 1..k : left[i] = messages[i]
  BY DEF Wire
<1> HIDE DEF left
<1>2. OnTheirWay(left, seq, bars)
  BY <1>1 DEF OnTheirWay
<1> QED
  BY <1>1, <1>2 DEF left

\* The messages behind the first, before and after that one is forwarded.
LEMMA WireIsRead ==
    ASSUME NEW messages \in Wire, messages # <<>>, NEW seq \in Seq(Bar), NEW bars,
           OnTheirWay(messages, seq, bars)
    PROVE  /\ Head(messages).bar \in Bar
           /\ Tail(messages) \in Wire
           /\ OnTheirWay(Tail(messages), seq, bars)
           /\ Head(messages).closed =>
                 /\ IsFinal(Head(messages).bar, bars)
                 /\ Before(seq, Head(messages).bar.ts)
                 /\ OnTheirWay(Tail(messages), seq \o <<Head(messages).bar>>, bars)
<1> DEFINE rest == Tail(messages)
           first == Head(messages)
<1>1. /\ rest \in Wire /\ Len(messages) \in Nat \ {0} /\ Len(rest) = Len(messages) - 1
      /\ first = messages[1] /\ first \in Messages
      /\ \A i \in 1..Len(rest) : rest[i] = messages[i + 1] /\ i + 1 \in 1..Len(messages)
      /\ \A i \in 1..Len(messages) : messages[i] \in Messages
  BY DEF Wire
<1>2. /\ first.bar \in Bar
      /\ \A i \in 1..Len(rest) : rest[i].bar.ts \in Int
  BY <1>1 DEF Bar, Messages
<1> HIDE DEF rest, first
<1>3. \A i \in 1..Len(rest) : rest[i].closed =>
          IsFinal(rest[i].bar, bars) /\ Before(seq, rest[i].bar.ts)
  BY <1>1 DEF OnTheirWay
<1>4. \A i, j \in 1..Len(rest) :
          i < j /\ rest[i].closed /\ rest[j].closed => rest[i].bar.ts < rest[j].bar.ts
  BY <1>1 DEF OnTheirWay
<1>5. OnTheirWay(rest, seq, bars)
  BY <1>3, <1>4 DEF OnTheirWay
<1>6. ASSUME first.closed
      PROVE  /\ IsFinal(first.bar, bars)
             /\ Before(seq, first.bar.ts)
             /\ OnTheirWay(rest, seq \o <<first.bar>>, bars)
  <2>1. IsFinal(first.bar, bars) /\ Before(seq, first.bar.ts)
    BY <1>1, <1>6 DEF OnTheirWay
  <2>2. ASSUME NEW i \in 1..Len(rest), rest[i].closed
        PROVE  Before(seq \o <<first.bar>>, rest[i].bar.ts)
    <3>1. first.bar.ts < rest[i].bar.ts
      BY <1>1, <1>6, <2>2 DEF OnTheirWay
    <3>2. Before(seq, rest[i].bar.ts)
      BY <1>3, <2>2
    <3>3. \A n \in 1..Len(seq \o <<first.bar>>) :
              (seq \o <<first.bar>>)[n] = IF n <= Len(seq) THEN seq[n] ELSE first.bar
      BY <1>2
    <3>4. Len(seq \o <<first.bar>>) = Len(seq) + 1 /\ Len(seq) \in Nat
      BY <1>2
    <3> QED
      BY <3>1, <3>2, <3>3, <3>4 DEF Before
  <2> QED
    BY <1>3, <1>4, <2>1, <2>2 DEF OnTheirWay
<1> QED
  BY <1>1, <1>2, <1>5, <1>6 DEF rest, first

\* A bar that has just completed follows everything sent or on its way.
LEMMA WireGrows ==
    ASSUME NEW messages \in Wire, NEW seq \in Seq(Bar), NEW bars \in Seq(Bar),
           NEW more, NEW bar \in Bar, bar.ts = Len(bars) + 1,
           InOrder(seq, bars), OnTheirWay(messages, seq, bars),
           \A b : IsFinal(b, bars) => IsFinal(b, more), IsFinal(bar, more)
    PROVE  OnTheirWay(Append(messages, Message(bar, TRUE)), seq, more)
<1> DEFINE new == Message(bar, TRUE)
           longer == Append(messages, new)
<1>1. /\ new.bar = bar /\ new.closed /\ new \in Messages
  BY DEF Message, Messages
<1> HIDE DEF new
<1>2. /\ Len(messages) \in Nat /\ Len(longer) = Len(messages) + 1
      /\ longer[Len(messages) + 1] = new
      /\ \A i \in 1..Len(messages) : longer[i] = messages[i]
  BY <1>1 DEF Wire
<1> HIDE DEF longer
<1>3. Len(bars) \in Nat /\ \A i \in 1..Len(seq) : seq[i].ts \in 1..Len(bars)
  BY DEF InOrder, IsFinal
<1>4. Before(seq, bar.ts)
  BY <1>3 DEF Before
<1>5. \A i \in 1..Len(messages) : messages[i].closed =>
          /\ IsFinal(messages[i].bar, more) /\ Before(seq, messages[i].bar.ts)
          /\ messages[i].bar.ts < bar.ts
  BY <1>3 DEF OnTheirWay, IsFinal
<1>6. \A i \in 1..Len(longer) : i = Len(messages) + 1 \/ i \in 1..Len(messages)
  BY <1>2
<1>7. \A i \in 1..Len(longer) : longer[i].closed =>
          IsFinal(longer[i].bar, more) /\ Before(seq, longer[i].bar.ts)
  BY <1>1, <1>2, <1>4, <1>5, <1>6
<1>8. ASSUME NEW i \in 1..Len(longer), NEW j \in 1..Len(longer),
             i < j, longer[i].closed, longer[j].closed
      PROVE  longer[i].bar.ts < longer[j].bar.ts
  <2>1. i \in 1..Len(messages)
    BY <1>2, <1>8
  <2>2. CASE j = Len(messages) + 1
    BY <2>1, <2>2, <1>1, <1>2, <1>5, <1>8
  <2>3. CASE j \in 1..Len(messages)
    BY <2>1, <2>3, <1>2, <1>8 DEF OnTheirWay
  <2> QED
    BY <1>6, <2>2, <2>3
<1> QED
  BY <1>7, <1>8 DEF OnTheirWay, longer, new

-----------------------------------------------------------------------------
(* The steps *)

LEMMA BarIsTyped ==
    ASSUME NEW shape \in Shape, NEW ts \in Int
    PROVE  /\ AsBar(shape, ts) \in Bar
           /\ AsBar(shape, ts).ts = ts
BY DEF Shape, AsBar, Bar

\* The provider's last two candles: the bar in progress, and the one that
\* completed before it.
LEMMA TwoNewest ==
    ASSUME SInv
    PROVE  LET rows == Feed(Symbol, 2)
           IN  /\ rows[Len(rows)].ts = Len(Completed) + 1
               /\ Len(rows) >= 2 =>
                     /\ Len(Completed) \in 1..Len(Completed)
                     /\ rows[Len(rows) - 1] = Completed[Len(Completed)]
<1> DEFINE newest == AsBar(forming[Symbol], FormingTs(Symbol))
           all == Append(Completed, newest)
<1>1. /\ Completed \in Seq(Bar) /\ Len(Completed) \in Nat
      /\ newest \in Bar /\ newest.ts = Len(Completed) + 1
  BY BarIsTyped, LiveStreamAssumption, MarketAssumption DEF SInv, StreamTypeOK, Completed, FormingTs
<1> HIDE DEF newest
<1>2. /\ all \in Seq(Bar) /\ Len(all) = Len(Completed) + 1
      /\ all[Len(Completed) + 1] = newest
      /\ \A i \in 1..Len(Completed) : all[i] = Completed[i]
  BY <1>1
<1>3. Feed(Symbol, 2) = IF Len(all) <= 2 THEN all ELSE SubSeq(all, Len(all) - 1, Len(all))
  BY LiveStreamAssumption, <1>2 DEF Feed, LastOf, Completed, newest
<1> HIDE DEF all
<1>4. CASE Len(all) <= 2
  BY <1>1, <1>2, <1>3, <1>4
<1>5. CASE ~(Len(all) <= 2)
  <2> DEFINE rows == SubSeq(all, Len(all) - 1, Len(all))
  <2>1. Len(rows) = 2 /\ rows[2] = all[Len(all)] /\ rows[1] = all[Len(all) - 1]
    BY <1>1, <1>2, <1>5
  <2>2. Feed(Symbol, 2) = rows
    BY <1>3, <1>5
  <2>3. Len(all) = Len(Completed) + 1 /\ Len(Completed) \in 1..Len(Completed)
    BY <1>1, <1>2, <1>5
  <2>4. rows[2].ts = Len(Completed) + 1 /\ rows[1] = Completed[Len(Completed)]
    BY <1>1, <1>2, <2>1, <2>3
  <2> HIDE DEF rows
  <2>5. rows[Len(rows)] = rows[2] /\ rows[Len(rows) - 1] = rows[1]
    BY <2>1
  <2> QED
    BY <2>2, <2>3, <2>4, <2>5
<1> QED
  BY <1>4, <1>5

LEMMA SInit == StreamInit => SInv
<1> SUFFICES ASSUME StreamInit
             PROVE  SInv
  OBVIOUS
<1>1. StreamTypeOK
  BY MarketAssumption DEF StreamInit, MarketInit, StreamTypeOK, Phase, Wire, Messages
<1>2. Completed = <<>> /\ sent = <<>> /\ wire = <<>> /\ lastOpen = None /\ phase = "accepted"
  BY LiveStreamAssumption DEF StreamInit, MarketInit, Completed
<1> QED
  BY <1>1, <1>2 DEF SInv, Numbered, InOrder, OnTheirWay

\* The market's steps.
LEMMA TickKeeps ==
    ASSUME SInv, TickIsSent
    PROVE  SInv'
<1>1. /\ Completed' = Completed
      /\ UNCHANGED <<phase, wire, lastOpen, sent>>
      /\ StreamTypeOK'
  BY DEF TickIsSent, Tick, handlerVars, SInv, StreamTypeOK, Completed
<1> QED
  BY <1>1 DEF SInv

LEMMA CloseKeeps ==
    ASSUME SInv, CloseIsSent
    PROVE  SInv'
<1> USE DEF Completed
<1>1. PICK shape \in Shapes, opening \in Openings :
          /\ closed' = [closed EXCEPT ![Symbol] =
                            Append(@, AsBar(shape, Len(@) + 1))]
          /\ forming' = [forming EXCEPT ![Symbol] = opening]
  BY DEF CloseIsSent, CloseBar
<1> DEFINE bar == AsBar(shape, Len(Completed) + 1)
<1>2. /\ Completed \in Seq(Bar) /\ Len(Completed) \in Nat
      /\ bar \in Bar /\ bar.ts = Len(Completed) + 1
      /\ Symbol \in Symbols /\ Numbered(Completed)
  BY BarIsTyped, LiveStreamAssumption, MarketAssumption DEF SInv, StreamTypeOK
<1>3. Completed' = Append(Completed, bar)
  BY <1>1, <1>2 DEF SInv, StreamTypeOK
<1> HIDE DEF bar
<1>4. /\ Append(Completed, bar) \in Seq(Bar)
      /\ Numbered(Append(Completed, bar))
      /\ \A b : IsFinal(b, Completed) => IsFinal(b, Append(Completed, bar))
      /\ IsFinal(bar, Append(Completed, bar))
  BY <1>2, Completes
<1>5. UNCHANGED <<phase, lastOpen, sent>>
  BY DEF CloseIsSent, handlerVars
<1>6. \/ wire' = wire
      \/ wire' = Append(wire, Message(bar, TRUE)) /\ phase = "open"
  <2>1. wire' = Arrives(Message(Completed'[Len(Completed')], TRUE))
    BY DEF CloseIsSent
  <2>2. Completed'[Len(Completed')] = bar
    BY <1>2, <1>3
  <2> QED
    BY <2>1, <2>2 DEF Arrives
<1>7. /\ InOrder(sent, Append(Completed, bar))
      /\ OnTheirWay(wire, sent, Append(Completed, bar))
  BY <1>4, OrderStays DEF SInv
<1>8. OnTheirWay(Append(wire, Message(bar, TRUE)), sent, Append(Completed, bar))
  BY <1>2, <1>4, WireGrows DEF SInv, StreamTypeOK
<1>9. Append(wire, Message(bar, TRUE)) \in Wire
  <2>1. Message(bar, TRUE) \in Messages
    BY <1>2 DEF Message, Messages
  <2>2. wire \in Wire
    BY DEF SInv, StreamTypeOK
  <2>3. ASSUME NEW m \in Messages
        PROVE  Append(wire, m) \in Wire
    BY <2>2 DEF Wire
  <2> QED
    BY <2>1, <2>3
<1>10. closed' \in [Symbols -> Seq(Bar)] /\ forming' \in [Symbols -> Shapes]
  BY <1>1, <1>2, <1>3, <1>4, MarketAssumption DEF SInv, StreamTypeOK
<1>11. wire' \in Wire /\ OnTheirWay(wire', sent, Completed') /\ InOrder(sent, Completed')
  BY <1>3, <1>6, <1>7, <1>8, <1>9 DEF SInv, StreamTypeOK
<1>12. StreamTypeOK'
  BY <1>5, <1>10, <1>11 DEF SInv, StreamTypeOK
<1>13. lastOpen # None => lastOpen <= Len(Completed') + 1 /\ Before(sent, lastOpen)
  <2>1. Len(Completed') = Len(Completed) + 1
    BY <1>2, <1>3
  <2>2. lastOpen \in Nat \/ lastOpen = None
    BY DEF SInv, StreamTypeOK
  <2> QED
    BY <1>2, <2>1, <2>2 DEF SInv
<1>14. Numbered(Completed') /\ (phase # "open" => wire' = <<>>)
  BY <1>3, <1>4, <1>6 DEF SInv
<1> QED
  BY <1>5, <1>11, <1>12, <1>13, <1>14 DEF SInv

LEMMA FormingKeeps ==
    ASSUME SInv, SendForming
    PROVE  SInv'
<1>1. UNCHANGED <<closed, forming, phase, lastOpen, sent>> /\ phase = "open" /\ wire = <<>>
  BY DEF SendForming, handlerVars
<1>2. Now \in Bar
  BY BarIsTyped, LiveStreamAssumption, MarketAssumption DEF SInv, StreamTypeOK, Now, FormingTs
<1>3. Message(Now, FALSE) \in Messages /\ ~Message(Now, FALSE).closed
  BY <1>2 DEF Message, Messages
<1>4. wire' = wire \/ wire' = <<Message(Now, FALSE)>>
  <2>1. wire' = wire \/ wire' = Append(wire, Message(Now, FALSE))
    BY DEF SendForming, Arrives
  <2>2. ASSUME NEW m
        PROVE  Append(<<>>, m) = <<m>>
    OBVIOUS
  <2> QED
    BY <1>1, <2>1, <2>2
<1>5. ASSUME NEW m \in Messages, ~m.closed
      PROVE  <<m>> \in Wire /\ OnTheirWay(<<m>>, sent, Completed)
  BY <1>5 DEF Wire, OnTheirWay
<1>6. wire' \in Wire /\ OnTheirWay(wire', sent, Completed)
  BY <1>3, <1>4, <1>5 DEF SInv, StreamTypeOK
<1> QED
  BY <1>1, <1>6 DEF SInv, StreamTypeOK, Completed

\* Messages that are dropped leave the rest of the handler as it was.
LEMMA DropKeeps ==
    ASSUME SInv, Drop
    PROVE  SInv'
<1>1. UNCHANGED <<closed, forming, phase, lastOpen, sent>> /\ phase = "open"
  BY DEF Drop
<1>2. PICK k \in 0..Len(wire) : wire' = SubSeq(wire, 1, k)
  BY DEF Drop
<1>3. wire' \in Wire /\ OnTheirWay(wire', sent, Completed)
  BY <1>2, WireBreaks DEF SInv, StreamTypeOK
<1> QED
  BY <1>1, <1>3 DEF SInv, StreamTypeOK, Completed

\* Every other change of the phase that forwards nothing empties the wire, and
\* what the polling loop knows it forgets or keeps.
LEMMA TurnKeeps ==
    ASSUME SInv, UNCHANGED <<closed, forming, sent>>, phase' \in Phase, wire' = <<>>,
           \/ lastOpen' = None
           \/ UNCHANGED lastOpen /\ phase' = "gone"
    PROVE  SInv'
<1>1. StreamTypeOK'
  BY DEF SInv, StreamTypeOK, Wire
<1>2. InOrder(sent', Completed') /\ Numbered(Completed')
  BY DEF SInv, Completed
<1>3. OnTheirWay(wire', sent', Completed')
  BY DEF OnTheirWay
<1>4. (phase' \in {"accepted", "connect", "open"} => lastOpen' = None)
  OBVIOUS
<1>5. lastOpen' # None => lastOpen' <= Len(Completed') + 1 /\ Before(sent', lastOpen')
  BY DEF SInv, Completed
<1> QED
  BY <1>1, <1>2, <1>3, <1>4, <1>5 DEF SInv

\* What the client is sent next is final, and later than all before it.
LEMMA ReceiveKeeps ==
    ASSUME SInv, Receive
    PROVE  SInv'
<1> DEFINE message == Head(wire)
<1>1. UNCHANGED <<closed, forming, phase, lastOpen>> /\ phase = "open" /\ wire # <<>>
      /\ wire' = Tail(wire) /\ lastOpen = None
  BY DEF Receive, handlerVars, SInv
<1>2. /\ message.bar \in Bar
      /\ Tail(wire) \in Wire
      /\ OnTheirWay(Tail(wire), sent, Completed)
      /\ message.closed =>
            /\ IsFinal(message.bar, Completed)
            /\ Before(sent, message.bar.ts)
            /\ OnTheirWay(Tail(wire), sent \o <<message.bar>>, Completed)
  BY <1>1, WireIsRead DEF SInv, StreamTypeOK
<1>3. sent' = sent \o (IF message.closed THEN <<message.bar>> ELSE <<>>)
  BY DEF Receive, Forward
<1> HIDE DEF message
<1>4. /\ sent' \in Seq(Bar) /\ InOrder(sent', Completed)
      /\ OnTheirWay(Tail(wire), sent', Completed)
  <2>1. CASE message.closed
    <3>1. sent' = sent \o <<message.bar>>
      BY <1>3, <2>1
    <3> QED
      BY <1>2, <2>1, <3>1, SendsOne DEF SInv, StreamTypeOK
  <2>2. CASE ~message.closed
    <3>1. sent' = sent
      BY <1>3, <2>2, SendsNone DEF SInv, StreamTypeOK
    <3> QED
      BY <1>2, <3>1 DEF SInv, StreamTypeOK
  <2> QED
    BY <2>1, <2>2
<1> QED
  BY <1>1, <1>2, <1>4 DEF SInv, StreamTypeOK, Completed

LEMMA PollKeeps ==
    ASSUME SInv, Poll
    PROVE  SInv'
<1> DEFINE rows == Feed(Symbol, 2)
           bar == rows[Len(rows) - 1]
           n == Len(Completed)
<1>1. UNCHANGED <<closed, forming, phase, wire>> /\ phase = "poll" /\ wire = <<>>
  BY DEF Poll, SInv
<1>2. /\ n \in Nat /\ Completed \in Seq(Bar) /\ sent \in Seq(Bar)
      /\ InOrder(sent, Completed) /\ Numbered(Completed)
      /\ lastOpen \in Nat \cup {None}
      /\ lastOpen # None => lastOpen <= n + 1 /\ Before(sent, lastOpen)
  BY LiveStreamAssumption DEF SInv, StreamTypeOK, Completed
<1>3. /\ lastOpen' = n + 1
      /\ sent' = sent \o (IF JustClosed(rows) THEN <<bar>> ELSE <<>>)
  BY TwoNewest DEF Poll, Forward
<1>4. JustClosed(rows) => /\ lastOpen \in Nat /\ lastOpen # n + 1
                          /\ Before(sent, lastOpen) /\ lastOpen <= n + 1
                          /\ n \in 1..n /\ bar = Completed[n]
  BY <1>2, TwoNewest DEF JustClosed
<1> HIDE DEF rows, bar, n
<1>5. \A i \in 1..Len(sent) : sent[i].ts \in 1..n
  BY <1>2 DEF InOrder, IsFinal, n
<1>6. sent' \in Seq(Bar) /\ InOrder(sent', Completed) /\ Before(sent', n + 1)
  <2>1. CASE JustClosed(rows)
    <3>1. /\ bar \in Bar /\ bar.ts = n
      BY <1>2, <1>4, <2>1 DEF Numbered, n
    <3>2. IsFinal(bar, Completed)
      BY <1>4, <2>1, <3>1 DEF IsFinal, n
    <3>3. Before(sent, n)
      <4>1. \A i \in 1..Len(sent) : sent[i].ts < lastOpen
        BY <1>4, <2>1 DEF Before
      <4> QED
        BY <1>2, <1>4, <1>5, <2>1, <4>1 DEF Before
    <3>4. sent' = sent \o <<bar>>
      BY <1>3, <2>1
    <3>5. n + 1 \in Int /\ bar.ts < n + 1
      BY <1>2, <3>1
    <3> QED
      BY <1>2, <3>1, <3>2, <3>3, <3>4, <3>5, SendsOne
  <2>2. CASE ~JustClosed(rows)
    <3>1. sent' = sent
      BY <1>2, <1>3, <2>2, SendsNone
    <3> QED
      BY <1>2, <1>5, <3>1 DEF Before
  <2> QED
    BY <2>1, <2>2
<1>7. OnTheirWay(wire', sent', Completed')
  BY <1>1 DEF OnTheirWay
<1>8. StreamTypeOK'
  BY <1>1, <1>2, <1>3, <1>6 DEF SInv, StreamTypeOK
<1>9. Completed' = Completed /\ Len(Completed) = n
  BY <1>1 DEF Completed, n
<1>10. lastOpen' <= Len(Completed') + 1 /\ Before(sent', lastOpen')
  BY <1>2, <1>3, <1>6, <1>9
<1> QED
  BY <1>1, <1>2, <1>6, <1>7, <1>8, <1>9, <1>10 DEF SInv

\* Under every step, the bars that were sent and those on their way are as they
\* completed, each later than the one before.
THEOREM StreamInvariant == StreamSpec => []SInv
<1>1. ASSUME SInv, [StreamNext]_streamVars
      PROVE  SInv'
  <2>1. CASE TickIsSent
    BY <1>1, <2>1, TickKeeps
  <2>2. CASE CloseIsSent
    BY <1>1, <2>2, CloseKeeps
  <2>3. CASE SendForming
    BY <1>1, <2>3, FormingKeeps
  <2>4. CASE SendHistory
    <3>1. /\ UNCHANGED <<closed, forming, sent, wire, lastOpen>>
          /\ phase = "accepted" /\ phase' \in Phase
      BY <2>4 DEF SendHistory, handlerVars, Phase
    <3> QED
      BY <1>1, <3>1, TurnKeeps DEF SInv
  <2>5. CASE HistoryFails
    <3>1. UNCHANGED <<closed, forming, sent, wire, lastOpen>> /\ phase = "accepted" /\ phase' \in Phase
      BY <2>5 DEF HistoryFails, Phase
    <3> QED
      BY <1>1, <3>1, TurnKeeps DEF SInv
  <2>6. CASE Connect
    <3>1. UNCHANGED <<closed, forming, sent, lastOpen>> /\ phase = "connect" /\ phase' \in Phase
          /\ wire' = <<>>
      BY <2>6 DEF Connect, Phase
    <3> QED
      BY <1>1, <3>1, TurnKeeps DEF SInv
  <2>7. CASE Drop
    BY <1>1, <2>7, DropKeeps
  <2>8. CASE Reconnect
    <3>1. UNCHANGED <<closed, forming, sent, wire, lastOpen>> /\ phase = "open" /\ phase' \in Phase
          /\ wire = <<>>
      BY <2>8 DEF Reconnect, handlerVars, Phase
    <3> QED
      BY <1>1, <3>1, TurnKeeps DEF SInv
  <2>9. CASE Receive
    BY <1>1, <2>9, ReceiveKeeps
  <2>10. CASE Blocked \/ Upset
    <3>1. UNCHANGED <<closed, forming, sent>> /\ lastOpen' = None /\ phase' \in Phase
          /\ wire' = <<>>
      BY <2>10 DEF Blocked, Upset, SwitchToPolling, StartPolling, Phase
    <3> QED
      BY <1>1, <3>1, TurnKeeps
  <2>11. CASE Poll
    BY <1>1, <2>11, PollKeeps
  <2>12. CASE Leave
    <3>1. UNCHANGED <<closed, forming, sent, lastOpen>> /\ phase' = "gone" /\ phase' \in Phase
          /\ wire' = <<>>
      BY <2>12 DEF Leave, handlerVars, Phase
    <3> QED
      BY <1>1, <3>1, TurnKeeps
  <2>13. CASE UNCHANGED streamVars
    BY <1>1, <2>13 DEF streamVars, SInv, StreamTypeOK, Completed
  <2> QED
    BY <1>1, <2>1, <2>2, <2>3, <2>4, <2>5, <2>6, <2>7, <2>8, <2>9, <2>10, <2>11, <2>12, <2>13
    DEF StreamNext, HandlerStep
<1> QED
  BY <1>1, SInit, PTL DEF StreamSpec

\* Whatever breaks, is refused or blocked, and however late the handler reads:
\* a candle that the client is sent as closed is the bar as it completed, and no
\* bar is sent as closed twice or after a later one.
THEOREM ClosedOnceAndFinalHolds == StreamSpec => []ClosedOnceAndFinal
<1>1. SInv => ClosedOnceAndFinal
  BY DEF SInv, ClosedOnceAndFinal, InOrder, IsFinal, Completed
<1> QED
  BY <1>1, StreamInvariant, PTL

=============================================================================
