--------------------------- MODULE WorkersProofs ----------------------------
(***************************************************************************)
(* Proofs for the parts that stand alone: stop() of a job answers for the  *)
(* last run; the rate of MANA goes back only between refreshes that were   *)
(* under way together, however many there are; and what is read page by    *)
(* page while it changes, the list of contracts, the assets of an address  *)
(* and what its owner did, is whole, for any number of rows, pages and     *)
(* changes.                                                                *)
(***************************************************************************)
EXTENDS Job, ManaRate, Contracts, UserAssets, Activity, PagingProofs

-----------------------------------------------------------------------------
(* Job. *)

\* The promise is pending while the loop runs the job, which is as long as stop() waits for
\* it; from stop() on the loop may end what it does, but begin nothing.
JobInv ==
  /\ loop = "running" <=> runningJob = "pending"
  /\ stopped = "waiting" => loop = "running"
  /\ stopped # "none" => shouldStop
  /\ stopped \in {"resolved", "rejected"} => stopped = runningJob

JobInd == JobTypeOK /\ JobInv

LEMMA InitJob == JobInit => JobInd
BY DEF JobInit, JobInd, JobTypeOK, JobInv

LEMMA KeepsJob == JobInd /\ [JobNext]_jvars => JobInd'
<1> SUFFICES ASSUME JobInd, [JobNext]_jvars PROVE JobInd'
    OBVIOUS
<1> USE DEF JobInd, JobTypeOK, JobInv
<1>1. CASE StartJob
  BY <1>1 DEF StartJob
<1>2. CASE Wake
  <2>1. CASE shouldStop
    BY <1>2, <2>1 DEF Wake, LoopTest
  \* Without a call of stop() the loop goes round.
  <2>2. CASE ~shouldStop
    BY <1>2, <2>2 DEF Wake, LoopTest
  <2> QED BY <2>1, <2>2
\* A run that ends answers a stop() that waits for it.
<1>3. CASE RunEnds
  <2>1. CASE stopped = "waiting"
    BY <1>3, <2>1 DEF RunEnds
  <2>2. CASE stopped # "waiting"
    BY <1>3, <2>2 DEF RunEnds
  <2> QED BY <2>1, <2>2
\* stop() waits if there is a run, and takes the promise of the last one otherwise.
<1>4. CASE StopJob
  <2>1. CASE loop = "running"
    BY <1>4, <2>1 DEF StopJob, AnswerOfStop
  <2>2. CASE loop # "running"
    BY <1>4, <2>2 DEF StopJob, AnswerOfStop
  <2> QED BY <2>1, <2>2
<1>5. CASE UNCHANGED jvars
  BY <1>5 DEF jvars
<1> QED BY <1>1, <1>2, <1>3, <1>4, <1>5 DEF JobNext

\* The state of the loop, its promise and the call of stop() have their types.
THEOREM JobTypeCorrect == JobSpec => []JobTypeOK
<1>1. JobInd => JobTypeOK
  BY DEF JobInd
<1> QED BY <1>1, InitJob, KeepsJob, PTL DEF JobSpec

\* stop() of a job (ports/job) answers only when nothing runs any more, with the outcome of
\* the last run, and no run begins after that.
THEOREM StopAnswersForTheLastRun == JobSpec => []StopAnswers
<1>1. JobInd => StopAnswers
  BY DEF JobInd, JobTypeOK, JobInv, StopAnswers
<1> QED BY <1>1, InitJob, KeepsJob, PTL DEF JobSpec

-----------------------------------------------------------------------------
(* The rate of MANA. *)

Stages == {"none", "begun", "asking", "served", "settled"}
FeedAnswers == [round : Nat, good : BOOLEAN]

Stage(r) == refreshes[r].at
Begun(r) == Stage(r) # "none"
RoundsOf(r) == {a.round : a \in refreshes[r].answer}

RateTyped ==
  /\ configured \in BOOLEAN
  /\ feed \in FeedAnswers
  /\ refreshes \in [Refreshes -> [at : Stages, answer : SUBSET FeedAnswers]]
  /\ met \in [Refreshes -> SUBSET Refreshes]

\* Refreshes begin in order, and no answer is there early or of a round to come.
InOrder ==
  /\ \A r \in Refreshes : Begun(r) => \A q \in 1 .. r - 1 : Begun(q)
  /\ \A r \in Refreshes : \A n \in RoundsOf(r) : n <= feed.round
  /\ \A r \in Refreshes : Stage(r) \in {"none", "begun", "asking"} => RoundsOf(r) = {}

\* A refresh that was not under way when a later one began had settled, and what the later
\* one is answered is no older.
SettledBefore ==
  \A r \in Refreshes : Begun(r) =>
    \A q \in (1 .. r - 1) \ met[r] :
      /\ Stage(q) = "settled"
      /\ \A m \in RoundsOf(q), n \in RoundsOf(r) : m <= n

\* The rate that is cached was read by a refresh that settled.
CachedInv ==
  \A c \in cached : /\ c.by \in Refreshes /\ Stage(c.by) = "settled"
                    /\ c.round \in RoundsOf(c.by)

RateInv == RateTyped /\ InOrder /\ SettledBefore /\ CachedInv

LEMMA InitRate == RateInit => RateInv
BY DEF RateInit, RateInv, RateTyped, Stages, FeedAnswers, InOrder, SettledBefore, CachedInv,
       Stage, Begun, RoundsOf

-----------------------------------------------------------------------------
(* The steps. *)

LEMMA FeedKeeps == RateInv /\ FeedMoves => RateInv'
<1> SUFFICES ASSUME RateInv, FeedMoves PROVE RateInv'
    OBVIOUS
<1>1. feed \in FeedAnswers /\ feed.round \in Nat
  BY DEF RateInv, RateTyped, FeedAnswers
<1>2. feed' \in FeedAnswers /\ feed'.round >= feed.round
  <2>1. CASE feed' \in [round : {feed.round + 1}, good : BOOLEAN]
    BY <1>1, <2>1 DEF FeedAnswers
  <2>2. CASE feed' = [round |-> feed.round, good |-> FALSE]
    BY <1>1, <2>2 DEF FeedAnswers
  <2> QED BY <2>1, <2>2 DEF FeedMoves
<1>3. /\ refreshes' = refreshes /\ cached' = cached /\ met' = met /\ configured' = configured
      /\ \A r \in Refreshes : Stage(r)' = Stage(r) /\ RoundsOf(r)' = RoundsOf(r) /\ Begun(r)' = Begun(r)
  BY DEF FeedMoves, Stage, RoundsOf, Begun
<1>4. \A r \in Refreshes : \A n \in RoundsOf(r) : n \in Nat
  <2> SUFFICES ASSUME NEW r \in Refreshes, NEW a \in refreshes[r].answer PROVE a.round \in Nat
      BY DEF RoundsOf
  <2>1. refreshes[r].answer \subseteq FeedAnswers
    BY DEF RateInv, RateTyped
  <2> QED BY <2>1 DEF FeedAnswers
<1>5. RateTyped'
  BY <1>2, <1>3 DEF RateInv, RateTyped
<1>6. InOrder'
  <2>1. \A r \in Refreshes : \A n \in RoundsOf(r)' : n <= feed'.round
    <3> SUFFICES ASSUME NEW r \in Refreshes, NEW n \in RoundsOf(r) PROVE n <= feed'.round
        BY <1>3
    <3>1. n \in Nat /\ n <= feed.round
      BY <1>4 DEF RateInv, InOrder
    <3>2. feed'.round \in Nat
      BY <1>2 DEF FeedAnswers
    <3> QED BY <1>1, <1>2, <3>1, <3>2
  <2> QED BY <1>3, <2>1 DEF RateInv, InOrder, Begun, Stage
<1>7. SettledBefore' /\ CachedInv'
  BY <1>3 DEF RateInv, SettledBefore, CachedInv, Begun, Stage, RoundsOf
<1> QED BY <1>5, <1>6, <1>7 DEF RateInv

LEMMA BeginKeeps ==
    ASSUME RateInv, NEW r \in Refreshes, BeginRefresh(r)
    PROVE  RateInv'
<1> USE DEF RateInv
<1>1. /\ \A q \in Refreshes : Stage(q)' = (IF q = r THEN "begun" ELSE Stage(q))
      /\ \A q \in Refreshes : RoundsOf(q)' = RoundsOf(q)
      /\ \A q \in Refreshes : met'[q] = IF q = r THEN UnderWay ELSE met[q]
      /\ Stage(r) = "none"
      /\ \A q \in 1 .. r - 1 : q \in Refreshes /\ Stage(q) # "none"
  BY ManaRateAssumption DEF BeginRefresh, RateTyped, Stage, RoundsOf, Refreshes
<1>2. RateTyped'
  BY DEF BeginRefresh, RateTyped, UnderWay, Stages, FeedAnswers
<1>3. InOrder'
  <2>1. ASSUME NEW p \in Refreshes, Begun(p)' PROVE \A q \in 1 .. p - 1 : Begun(q)'
    <3>1. \A q \in 1 .. p - 1 : q \in Refreshes
      BY ManaRateAssumption DEF Refreshes
    <3> QED BY <1>1, <2>1, <3>1 DEF InOrder, Begun
  <2> QED BY <1>1, <2>1 DEF InOrder, BeginRefresh
<1>4. SettledBefore'
  <2> SUFFICES ASSUME NEW p \in Refreshes, Begun(p)', NEW q \in (1 .. p - 1) \ met'[p]
               PROVE  /\ Stage(q)' = "settled"
                      /\ \A m \in RoundsOf(q)', n \in RoundsOf(p)' : m <= n
      BY DEF SettledBefore
  <2>1. q \in Refreshes /\ q # p
    BY ManaRateAssumption DEF Refreshes
  \* Those that are not under way when r begins have settled, and r has no answer yet.
  <2>2. CASE p = r
    <3>1. Stage(q) \in Stages /\ Stage(q) # "none" /\ Stage(q) \notin {"begun", "asking", "served"}
      BY <1>1, <2>1, <2>2 DEF UnderWay, Stage, RateTyped
    <3>2. RoundsOf(p) = {}
      BY <1>1, <2>2 DEF InOrder
    <3> QED BY <1>1, <2>1, <2>2, <3>1, <3>2 DEF Stages
  <2>3. CASE p # r
    BY <1>1, <2>1, <2>3 DEF SettledBefore, Begun
  <2> QED BY <2>2, <2>3
<1>5. CachedInv'
  BY <1>1 DEF BeginRefresh, CachedInv
<1> QED BY <1>2, <1>3, <1>4, <1>5

\* A refresh under way goes on: to ask, or to be answered what the feed says now.
LEMMA GoesOnKeeps ==
    ASSUME RateInv, NEW r \in Refreshes, r \in UnderWay, RateTyped',
           \A q \in Refreshes : q # r => refreshes'[q] = refreshes[q],
           \/ Stage(r) = "begun" /\ Stage(r)' = "asking" /\ RoundsOf(r)' = RoundsOf(r)
           \/ Stage(r)' = "served" /\ RoundsOf(r)' = {feed.round},
           feed' = feed, cached' = cached, met' = met
    PROVE  RateInv'
<1> USE DEF RateInv
<1>1. /\ \A q \in Refreshes : q # r => Stage(q)' = Stage(q) /\ RoundsOf(q)' = RoundsOf(q)
      /\ Stage(r)' # "none" /\ Stage(r)' \in {"asking", "served"}
      /\ RoundsOf(r)' \in {RoundsOf(r), {feed.round}}
      /\ Stage(r)' \in {"none", "begun", "asking"} => Stage(r) = "begun" /\ RoundsOf(r)' = RoundsOf(r)
  BY DEF Stage, RoundsOf
<1>2. Stage(r) # "none" /\ Stage(r) # "settled"
  BY DEF UnderWay, Stage
<1>3. feed.round \in Nat
  BY DEF RateTyped, FeedAnswers
<1>4. RateTyped'
  OBVIOUS
<1>5. InOrder'
  <2>1. ASSUME NEW p \in Refreshes, Begun(p)' PROVE \A q \in 1 .. p - 1 : Begun(q)'
    <3>1. \A q \in 1 .. p - 1 : q \in Refreshes
      BY ManaRateAssumption DEF Refreshes
    <3> QED BY <1>1, <1>2, <2>1, <3>1 DEF InOrder, Begun
  <2>2. \A p \in Refreshes : \A n \in RoundsOf(p)' : n <= feed'.round
    BY <1>1, <1>3 DEF InOrder
  <2>3. \A p \in Refreshes : Stage(p)' \in {"none", "begun", "asking"} => RoundsOf(p)' = {}
    BY <1>1 DEF InOrder
  <2> QED BY <2>1, <2>2, <2>3 DEF InOrder
<1>6. SettledBefore'
  <2> SUFFICES ASSUME NEW p \in Refreshes, Begun(p)', NEW q \in (1 .. p - 1) \ met[p]
               PROVE  /\ Stage(q)' = "settled"
                      /\ \A m \in RoundsOf(q)', n \in RoundsOf(p)' : m <= n
      BY DEF SettledBefore
  <2>1. q \in Refreshes
    BY ManaRateAssumption DEF Refreshes
  <2>2. Begun(p)
    BY <1>1, <1>2 DEF Begun
  <2>3. Stage(q) = "settled" /\ \A m \in RoundsOf(q), n \in RoundsOf(p) : m <= n
    BY <2>2 DEF SettledBefore
  <2>4. q # r
    BY <1>2, <2>3
  \* What is answered now is no older than any answer before.
  <2>5. \A m \in RoundsOf(q) : m <= feed.round
    BY <2>1 DEF InOrder
  <2> QED BY <1>1, <2>1, <2>3, <2>4, <2>5
<1>7. CachedInv'
  <2>1. \A c \in cached : c.by # r
    BY <1>2 DEF CachedInv
  <2> QED BY <1>1, <2>1 DEF CachedInv
<1> QED BY <1>4, <1>5, <1>6, <1>7

LEMMA SettleTakes ==
    ASSUME NEW r, Settle(r), cached' # cached
    PROVE  /\ \A d \in cached' : d.by = r /\ d.round \in RoundsOf(r)
           /\ cached' # {}
BY DEF Settle, RateAfter, Fresh, RoundsOf

LEMMA SettleKeeps ==
    ASSUME RateInv, NEW r \in Refreshes, r \in UnderWay, Settle(r)
    PROVE  RateInv'
<1> USE DEF RateInv
<1>1. /\ \A q \in Refreshes : Stage(q)' = (IF q = r THEN "settled" ELSE Stage(q))
      /\ \A q \in Refreshes : RoundsOf(q)' = RoundsOf(q)
  BY DEF Settle, RateTyped, Stage, RoundsOf
<1>2. Stage(r) # "none" /\ Stage(r) # "settled"
  BY DEF UnderWay, Stage
<1>3. RateTyped'
  BY DEF Settle, RateTyped, Stages, FeedAnswers
<1>4. InOrder'
  <2>1. ASSUME NEW p \in Refreshes, Begun(p)' PROVE \A q \in 1 .. p - 1 : Begun(q)'
    <3>1. \A q \in 1 .. p - 1 : q \in Refreshes
      BY ManaRateAssumption DEF Refreshes
    <3> QED BY <1>1, <1>2, <2>1, <3>1 DEF InOrder, Begun
  <2> QED BY <1>1, <2>1 DEF InOrder, Settle
<1>5. SettledBefore'
  <2> SUFFICES ASSUME NEW p \in Refreshes, Begun(p)', NEW q \in (1 .. p - 1) \ met[p]
               PROVE  /\ Stage(q)' = "settled"
                      /\ \A m \in RoundsOf(q)', n \in RoundsOf(p)' : m <= n
      BY DEF SettledBefore, Settle
  <2>1. q \in Refreshes
    BY ManaRateAssumption DEF Refreshes
  <2> QED BY <1>1, <1>2, <2>1 DEF SettledBefore, Begun
<1>6. CachedInv'
  <2>1. CASE cached' = cached
    BY <1>1, <2>1 DEF CachedInv
  <2>2. CASE cached' # cached
    BY <1>1, <2>2, SettleTakes DEF CachedInv
  <2> QED BY <2>1, <2>2
<1> QED BY <1>3, <1>4, <1>5, <1>6

\* Every step leaves the rate as it is, or is a refresh under way that settles.
LEMMA Steps ==
    ASSUME RateInv, RateNext
    PROVE  RateInv' /\ \/ UNCHANGED cached
                       \/ \E r \in Refreshes : r \in UnderWay /\ Settle(r)
<1> USE ManaRateAssumption
<1>1. CASE FeedMoves
  BY <1>1, FeedKeeps DEF FeedMoves
<1>2. CASE StartRate
  <2>1. 1 \in Refreshes
    BY DEF Refreshes
  <2> QED BY <1>2, <2>1, BeginKeeps DEF StartRate, BeginRefresh
<1>3. CASE StartupTimeout \/ StopRate
  BY <1>3 DEF StartupTimeout, StopRate, RateInv, RateTyped, InOrder, SettledBefore, CachedInv,
              Stage, Begun, RoundsOf
<1>4. ASSUME NEW r \in Refreshes, Tick(r)
      PROVE  RateInv' /\ UNCHANGED cached
  BY <1>4, BeginKeeps DEF Tick, BeginRefresh
<1>5. ASSUME NEW r \in Refreshes, GetAggregator(r)
      PROVE  RateInv' /\ (UNCHANGED cached \/ (r \in UnderWay /\ Settle(r)))
  <2>1. r \in UnderWay
    BY <1>5 DEF GetAggregator, UnderWay
  <2>2. CASE configured
    <3>1. /\ Stage(r) = "begun" /\ refreshes' = [refreshes EXCEPT ![r].at = "asking"]
          /\ UNCHANGED <<configured, feed, cached, met>>
      BY <1>5, <2>2 DEF GetAggregator, Stage
    <3>2. RateTyped'
      BY <3>1 DEF RateInv, RateTyped, Stages
    <3>3. /\ \A q \in Refreshes : q # r => refreshes'[q] = refreshes[q]
          /\ Stage(r)' = "asking" /\ RoundsOf(r)' = RoundsOf(r)
      BY <3>1 DEF RateInv, RateTyped, Stage, RoundsOf
    <3> QED BY <2>1, <3>1, <3>2, <3>3, GoesOnKeeps
  <2>3. CASE ~configured
    BY <1>5, <2>1, <2>3, SettleKeeps DEF GetAggregator
  <2> QED BY <2>2, <2>3
<1>6. ASSUME NEW r \in Refreshes, OracleServes(r)
      PROVE  RateInv' /\ UNCHANGED cached
  <2>1. r \in UnderWay
    BY <1>6 DEF OracleServes, UnderWay
  <2>2. /\ refreshes' = [refreshes EXCEPT ![r].at = "served", ![r].answer = {feed}]
        /\ UNCHANGED <<configured, feed, cached, met>>
    BY <1>6 DEF OracleServes
  <2>3. RateTyped'
    BY <2>2 DEF RateInv, RateTyped, Stages
  <2>4. /\ \A q \in Refreshes : q # r => refreshes'[q] = refreshes[q]
        /\ Stage(r)' = "served" /\ RoundsOf(r)' = {feed.round}
    BY <2>2 DEF RateInv, RateTyped, Stage, RoundsOf
  <2> QED BY <2>1, <2>2, <2>3, <2>4, GoesOnKeeps
<1>7. ASSUME NEW r \in Refreshes, OracleFails(r) \/ RateArrives(r)
      PROVE  RateInv' /\ r \in UnderWay /\ Settle(r)
  <2>1. r \in UnderWay /\ Settle(r)
    BY <1>7 DEF OracleFails, RateArrives, UnderWay
  <2> QED BY <2>1, SettleKeeps
<1> QED BY <1>1, <1>2, <1>3, <1>4, <1>5, <1>6, <1>7 DEF RateNext

LEMMA RateInductive == RateInv /\ [RateNext]_rvars => RateInv'
<1> SUFFICES ASSUME RateInv, [RateNext]_rvars PROVE RateInv'
    OBVIOUS
<1>1. CASE RateNext
  BY <1>1, Steps
<1>2. CASE UNCHANGED rvars
  BY <1>2 DEF rvars, RateInv, RateTyped, InOrder, SettledBefore, CachedInv, Stage, Begun, RoundsOf
<1> QED BY <1>1, <1>2

\* The rate (ports/mana-rate) is never lost, and an older round replaces a newer one only
\* when the refreshes that read them were under way at the same time.
THEOREM OnlyOverlapsGoBack == RateSpec => RateGoesBack
<1> DEFINE Sound == \A c \in cached : \E d \in cached' :
                      d.round < c.round => d.by \in met[c.by] \/ c.by \in met[d.by]
<1>1. ASSUME RateInv, [RateNext]_rvars PROVE [Sound]_cached
  <2>1. CASE UNCHANGED cached
    BY <2>1
  <2>2. ASSUME cached' # cached PROVE Sound
    <3>1. PICK r \in Refreshes : r \in UnderWay /\ Settle(r)
      BY <1>1, <2>2, Steps DEF rvars
    <3> SUFFICES ASSUME NEW c \in cached
                 PROVE  \E d \in cached' :
                          d.round < c.round => d.by \in met[c.by] \/ c.by \in met[d.by]
        OBVIOUS
    <3>2. PICK d \in cached' : d.by = r /\ d.round \in RoundsOf(r)
      BY <2>2, <3>1, SettleTakes
    <3>3. c.by \in Refreshes /\ Stage(c.by) = "settled" /\ c.round \in RoundsOf(c.by)
      BY <1>1 DEF RateInv, CachedInv
    <3>4. Stage(r) # "settled" /\ Begun(r) /\ r # c.by
      BY <3>1, <3>3 DEF UnderWay, Stage, Begun
    <3>5. c.round \in Nat /\ d.round \in Nat
      BY <1>1, <3>2, <3>3 DEF RateInv, RateTyped, RoundsOf, FeedAnswers
    \* The later of the two met the earlier one, or was answered something no older.
    <3>6. CASE c.by < r
      <4>1. c.by \in 1 .. r - 1
        BY <3>3, <3>6, ManaRateAssumption DEF Refreshes
      <4>2. c.by \in met[r] \/ c.round <= d.round
        BY <1>1, <3>2, <3>3, <3>4, <4>1 DEF RateInv, SettledBefore
      <4> QED BY <3>2, <3>5, <4>2
    <3>7. CASE r < c.by
      <4>1. r \in 1 .. c.by - 1
        BY <3>3, <3>7, ManaRateAssumption DEF Refreshes
      <4>2. r \in met[c.by]
        BY <1>1, <3>3, <3>4, <4>1 DEF RateInv, SettledBefore, Begun
      <4> QED BY <3>2, <4>2
    <3> QED BY <3>3, <3>4, <3>6, <3>7, ManaRateAssumption DEF Refreshes
  <2> QED BY <2>1, <2>2
<1> QED BY <1>1, InitRate, RateInductive, PTL DEF RateSpec, RateGoesBack

-----------------------------------------------------------------------------
(* The list of contracts. *)

NameOrder == {p \in Collections \X Collections : NameOf[p[1]] < NameOf[p[2]]}

LoadWalks == [at : {"paging", "storing"}, ask : Asks, total : Nat, skip : Nat, got : Seq(Collections),
              kept : SUBSET Collections, came : Nat, gone : Nat]

\* What a walk has seen of the collections S that are approved now.
WalkInv(w, S) ==
  /\ w \in LoadWalks /\ w.kept \subseteq S
  /\ Cardinality(S) + w.gone = w.total + w.came
  /\ \E k \in Nat : w.skip = k * PageSize
  /\ w.at = "storing" => w.skip >= w.total
  /\ w.gone = 0 => \A c \in w.kept : c \in Range(w.got) \/ Place(NameOrder, S, c) >= w.skip
  /\ w.came = 0 => /\ IsInjective(w.got)
                   /\ \A c \in Range(w.got) \cap S : Place(NameOrder, S, c) < w.skip

LoadTold(w) ==
  /\ w.gone = 0 /\ w.total + w.came <= Reach(w) => w.kept \subseteq Range(w.list)
  /\ w.came = 0 => IsInjective(w.list)

LoadInv(w, S) ==
  /\ w.at = "counting" => w.ask \in Asks
  /\ w.at \in {"paging", "storing"} => WalkInv(w, S)
  /\ w.at = "stored" => LoadTold(w)

ContractsInv ==
  /\ approved \subseteq Collections
  /\ load = [l \in Loaders |-> load[l]]
  /\ ~Tied(Collections) => \A l \in Loaders : LoadInv(load[l], approved)

LEMMA NamesOrder ==
    ASSUME ~Tied(Collections), NEW S \in SUBSET Collections
    PROVE  /\ IsFiniteSet(S) /\ Cardinality(S) \in Nat
           /\ InOrderBy(NameOrder, S)
<1>1. IsFiniteSet(S) /\ Cardinality(S) \in Nat
  BY ContractsAssumption, FS_Subset, FS_CardinalityType
<1>2. \A x, y \in S : NameOf[x] \in Nat /\ (x # y => NameOf[x] # NameOf[y])
  BY ContractsAssumption DEF Tied
<1>3. \A x, y \in S : <<x, y>> \in NameOrder <=> NameOf[x] < NameOf[y]
  BY DEF NameOrder
<1> QED BY <1>1, <1>2, <1>3 DEF InOrderBy

\* What the change of c means to a walk.
WatchedLoad(w, S, c) ==
  [w EXCEPT !.kept = @ \ {c}, !.gone = IF c \in S THEN @ + 1 ELSE @,
            !.came = IF c \in S THEN @ ELSE @ + 1]

LEMMA ChangeKeepsWalk ==
    ASSUME ~Tied(Collections), NEW S \in SUBSET Collections, NEW w, WalkInv(w, S), NEW c \in Collections,
           NEW T, T = IF c \in S THEN S \ {c} ELSE S \cup {c}
    PROVE  WalkInv(WatchedLoad(w, S, c), T)
<1> DEFINE v == WatchedLoad(w, S, c)
<1>1. /\ w \in LoadWalks /\ w.total \in Nat /\ w.skip \in Nat /\ w.came \in Nat /\ w.gone \in Nat
      /\ w.kept \subseteq S /\ w.got \in Seq(Collections)
  BY DEF WalkInv, LoadWalks
<1>2. /\ v.at = w.at /\ v.total = w.total /\ v.skip = w.skip /\ v.got = w.got
      /\ v.kept = w.kept \ {c}
      /\ v.gone = (IF c \in S THEN w.gone + 1 ELSE w.gone)
      /\ v.came = (IF c \in S THEN w.came ELSE w.came + 1)
      /\ v \in LoadWalks
  <2>1. /\ v.at = w.at /\ v.total = w.total /\ v.skip = w.skip /\ v.got = w.got
        /\ v.kept = w.kept \ {c}
        /\ v.gone = (IF c \in S THEN w.gone + 1 ELSE w.gone)
        /\ v.came = (IF c \in S THEN w.came ELSE w.came + 1)
    BY <1>1 DEF LoadWalks, WatchedLoad
  <2>2. v.gone \in Nat /\ v.came \in Nat /\ v.kept \in SUBSET Collections
    BY <1>1, <2>1
  <2>3. v = [w EXCEPT !.kept = v.kept, !.gone = v.gone, !.came = v.came]
    BY <1>1, <2>1 DEF LoadWalks, WatchedLoad
  <2> HIDE DEF v
  <2>4. v \in LoadWalks
    BY <1>1, <2>2, <2>3 DEF LoadWalks
  <2> QED BY <2>1, <2>4
<1> HIDE DEF v
<1>3. T \in SUBSET Collections /\ IsFiniteSet(S) /\ IsFiniteSet(T) /\ Cardinality(S) \in Nat
  <2>1. T \in SUBSET Collections
    OBVIOUS
  <2> QED BY <2>1, NamesOrder
<1>4. Cardinality(T) + v.gone = v.total + v.came
  <2>1. Cardinality(T) = IF c \in S THEN Cardinality(S) - 1 ELSE Cardinality(S) + 1
    BY <1>3, FS_AddElement, FS_RemoveElement
  <2>2. Cardinality(S) + w.gone = w.total + w.came
    BY DEF WalkInv
  <2>3. /\ v.total = w.total
        /\ Cardinality(S) \in Nat /\ w.gone \in Nat /\ w.came \in Nat /\ w.total \in Nat
    BY <1>1, <1>2, <1>3
  <2>4. CASE c \in S
    <3>1. Cardinality(T) = Cardinality(S) - 1 /\ v.gone = w.gone + 1 /\ v.came = w.came
      BY <1>2, <2>1, <2>4
    <3> QED BY <2>2, <2>3, <3>1
  <2>5. CASE c \notin S
    <3>1. Cardinality(T) = Cardinality(S) + 1 /\ v.gone = w.gone /\ v.came = w.came + 1
      BY <1>2, <2>1, <2>5
    <3> QED BY <2>2, <2>3, <3>1
  <2> QED BY <2>4, <2>5
\* If nothing ever went, this came, and what is missing is no further to the front.
<1>5. ASSUME v.gone = 0, NEW d \in v.kept, d \notin Range(v.got)
      PROVE  Place(NameOrder, T, d) >= v.skip
  <2>1. c \notin S /\ w.gone = 0 /\ S \subseteq T
    BY <1>1, <1>2, <1>5
  <2>2. Place(NameOrder, S, d) >= w.skip
    BY <1>2, <1>5, <2>1 DEF WalkInv
  <2>3. Place(NameOrder, S, d) <= Place(NameOrder, T, d)
    BY <1>3, <2>1, FewerBefore
  <2>4. Place(NameOrder, S, d) \in Nat /\ Place(NameOrder, T, d) \in Nat
    BY <1>3, PlaceType
  <2> QED BY <1>1, <1>2, <2>2, <2>3, <2>4
\* If nothing ever came, this went, and what was read is no further to the back.
<1>6. ASSUME v.came = 0, NEW d \in Range(v.got) \cap T
      PROVE  Place(NameOrder, T, d) < v.skip
  <2>1. c \in S /\ w.came = 0 /\ T \subseteq S
    BY <1>1, <1>2, <1>6
  <2>2. Place(NameOrder, S, d) < w.skip
    BY <1>2, <1>6, <2>1 DEF WalkInv
  <2>3. Place(NameOrder, T, d) <= Place(NameOrder, S, d)
    BY <1>3, <2>1, FewerBefore
  <2>4. Place(NameOrder, S, d) \in Nat /\ Place(NameOrder, T, d) \in Nat
    BY <1>3, PlaceType
  <2> QED BY <1>1, <1>2, <2>2, <2>3, <2>4
<1>7. v.kept \subseteq T /\ (v.came = 0 => IsInjective(v.got))
  <2>1. v.kept \subseteq T
    BY <1>1, <1>2
  <2>2. v.came = 0 => w.came = 0
    BY <1>1, <1>2
  <2> QED BY <1>2, <2>1, <2>2 DEF WalkInv
<1>8. \E k \in Nat : v.skip = k * PageSize
  BY <1>2 DEF WalkInv
<1>9. v.at = "storing" => v.skip >= v.total
  BY <1>2 DEF WalkInv
<1> QED BY <1>2, <1>4, <1>5, <1>6, <1>7, <1>8, <1>9 DEF WalkInv, v

LEMMA PageKeepsWalk ==
    ASSUME ~Tied(Collections), NEW S \in SUBSET Collections, NEW w, WalkInv(w, S), w.at = "paging",
           NEW s \in Sorted(S, NameBefore), NEW page, page = Slice(s, PageSize, w.skip),
           NEW v, v = [w EXCEPT !.got = @ \o page, !.skip = NextSkip(@),
                                !.at = IF NextSkip(w.skip) < w.total THEN @ ELSE "storing"]
    PROVE  WalkInv(v, S)
<1> DEFINE Spot(c) == Place(NameOrder, S, c)
<1>1. /\ w \in LoadWalks /\ w.total \in Nat /\ w.skip \in Nat /\ w.came \in Nat /\ w.gone \in Nat
      /\ w.kept \subseteq S /\ w.got \in Seq(Collections) /\ PageSize \in Nat \ {0}
  BY ContractsAssumption DEF WalkInv, LoadWalks
<1>2. s \in SetToSeqs(S) /\ \A m, n \in DOMAIN s : m < n => <<s[n], s[m]>> \notin NameOrder
  BY DEF Sorted, NameBefore, NameOrder
<1>3. /\ page \in Seq(S) /\ IsInjective(page)
      /\ \A x : x \in Range(page) <=> x \in S /\ w.skip <= Spot(x) /\ Spot(x) < w.skip + PageSize
  <2>1. PageSize \in Nat /\ w.skip \in Nat /\ IsFiniteSet(S) /\ InOrderBy(NameOrder, S)
    BY <1>1, NamesOrder
  <2> QED BY <1>2, <2>1, PageIsPlaces
<1>4. page \in Seq(Collections)
  BY <1>3
<1>5. /\ w.got \o page \in Seq(Collections) /\ Range(w.got \o page) = Range(w.got) \cup Range(page)
      /\ IsInjective(w.got) /\ Range(w.got) \cap Range(page) = {} => IsInjective(w.got \o page)
  BY <1>1, <1>3, <1>4, PagesJoined
<1>6. /\ v.total = w.total /\ v.kept = w.kept /\ v.gone = w.gone /\ v.came = w.came
      /\ v.got = w.got \o page /\ v.skip = w.skip + PageSize
      /\ v.at = "storing" => v.skip >= v.total
      /\ v \in LoadWalks
  <2>1. w.skip + PageSize \in Nat
    BY <1>1
  <2>2. v.at = "storing" => w.skip + PageSize >= w.total
    BY <1>1, <2>1 DEF LoadWalks, NextSkip
  <2>3. /\ v.total = w.total /\ v.kept = w.kept /\ v.gone = w.gone /\ v.came = w.came
        /\ v.got = w.got \o page /\ v.skip = w.skip + PageSize
    BY <1>1 DEF LoadWalks, NextSkip
  <2>4. v \in LoadWalks
    BY <1>1, <1>5, <2>1 DEF LoadWalks, NextSkip
  <2> QED BY <1>1, <2>1, <2>2, <2>3, <2>4
<1>7. \E k \in Nat : v.skip = k * PageSize
  <2>1. PICK k \in Nat : w.skip = k * PageSize
    BY DEF WalkInv
  <2>2. (k + 1) * PageSize = k * PageSize + PageSize /\ k + 1 \in Nat
    <3>1. PageSize \in Nat
      BY <1>1
    <3> QED BY <3>1, TimesNext
  <2> QED BY <1>6, <2>1, <2>2
<1>8. \A c \in S : Spot(c) \in Nat
  BY NamesOrder, PlaceType
<1>9. ASSUME v.gone = 0, NEW c \in v.kept, c \notin Range(v.got)
      PROVE  Spot(c) >= v.skip
  <2>1. c \in S /\ c \notin Range(w.got) /\ c \notin Range(page)
    BY <1>1, <1>5, <1>6, <1>9
  <2>2. Spot(c) >= w.skip
    BY <1>6, <1>9, <2>1 DEF WalkInv
  <2> HIDE DEF Spot
  <2> QED BY <1>1, <1>3, <1>6, <1>8, <2>1, <2>2
<1>10. ASSUME v.came = 0
       PROVE  IsInjective(v.got) /\ \A c \in Range(v.got) \cap S : Spot(c) < v.skip
  <2>1. IsInjective(w.got) /\ \A c \in Range(w.got) \cap S : Spot(c) < w.skip
    BY <1>6, <1>10 DEF WalkInv
  <2> HIDE DEF Spot
  <2>2. Range(w.got) \cap Range(page) = {}
    BY <1>1, <1>3, <1>8, <2>1
  <2>3. \A c \in Range(v.got) \cap S : Spot(c) < v.skip
    BY <1>1, <1>3, <1>5, <1>6, <1>8, <2>1
  <2> QED BY <1>5, <1>6, <2>1, <2>2, <2>3
<1>11. v.kept \subseteq S /\ Cardinality(S) + v.gone = v.total + v.came
  BY <1>6 DEF WalkInv
<1> QED BY <1>6, <1>7, <1>9, <1>10, <1>11 DEF WalkInv

\* A walk that has come to its end has passed every place there is, if so few came that
\* the pages hold them.
LEMMA WalkEnds ==
    ASSUME ~Tied(Collections), NEW S \in SUBSET Collections, NEW w, WalkInv(w, S), w.at = "storing",
           NEW v, v.gone = w.gone, v.came = w.came, v.total = w.total, v.kept = w.kept, v.list = w.got
    PROVE  LoadTold(v)
<1> DEFINE Spot(c) == Place(NameOrder, S, c)
<1>1. /\ w.total \in Nat /\ w.skip \in Nat /\ w.came \in Nat /\ w.gone \in Nat
      /\ w.kept \subseteq S /\ PageSize \in Nat \ {0} /\ w.skip >= w.total
  BY ContractsAssumption DEF WalkInv, LoadWalks
<1>2. ASSUME w.gone = 0, w.total + w.came <= Reach(v), NEW c \in w.kept, c \notin Range(w.got)
      PROVE  FALSE
  <2>1. Spot(c) \in Nat /\ Spot(c) >= w.skip /\ Spot(c) < Cardinality(S) /\ Cardinality(S) \in Nat
    BY <1>1, <1>2, NamesOrder, PlaceType DEF WalkInv
  <2>2. Cardinality(S) = w.total + w.came
    BY <1>1, <1>2, <2>1 DEF WalkInv
  <2>3. Reach(v) <= w.skip
    <3>1. PICK k \in Nat : w.skip = k * PageSize
      BY DEF WalkInv
    <3>2. (w.total + PageSize - 1) \div PageSize <= k
      BY <1>1, <3>1, PagesFit
    <3>3. (w.total + PageSize - 1) \div PageSize \in Nat
      BY <1>1
    <3>4. ((w.total + PageSize - 1) \div PageSize) * PageSize <= k * PageSize
      BY <1>1, <3>2, <3>3, MorePages
    <3> QED BY <3>1, <3>4 DEF Reach
  <2>4. Reach(v) \in Int
    BY <1>1 DEF Reach
  <2> QED BY <1>1, <1>2, <2>1, <2>2, <2>3, <2>4
<1>3. w.came = 0 => IsInjective(w.got)
  BY DEF WalkInv
<1> QED BY <1>2, <1>3 DEF LoadTold

LEMMA InitContracts == ContractsInit => ContractsInv
BY DEF ContractsInit, ContractsInv, LoadInv, NoWalk

LEMMA ContractsStep == ContractsInv /\ [ContractsNext]_cvars => ContractsInv'
<1> SUFFICES ASSUME ContractsInv, [ContractsNext]_cvars PROVE ContractsInv'
    OBVIOUS
<1> DEFINE Fine(w) == w.at \notin {"counting", "paging", "storing", "stored"}
<1>1. /\ approved \in SUBSET Collections /\ load = [l \in Loaders |-> load[l]]
      /\ ~Tied(Collections) => \A l \in Loaders : LoadInv(load[l], approved)
  BY DEF ContractsInv
\* One call goes on, the collections stay.
<1>2. ASSUME NEW l \in Loaders, UNCHANGED approved, NEW w, load' = [load EXCEPT ![l] = w],
             ~Tied(Collections) => LoadInv(w, approved)
      PROVE  ContractsInv'
  BY <1>1, <1>2 DEF ContractsInv
<1>3. ASSUME NEW l \in Loaders, UNCHANGED approved, NEW w, load' = [load EXCEPT ![l] = w], Fine(w)
      PROVE  ContractsInv'
  BY <1>2, <1>3 DEF LoadInv
<1>4. CASE UNCHANGED cvars \/ CacheExpires
  BY <1>1, <1>4 DEF cvars, CacheExpires, ContractsInv
<1>5. ASSUME NEW c \in Collections, Change(c)
      PROVE  ContractsInv'
  <2>1. /\ approved' = IF c \in approved THEN approved \ {c} ELSE approved \cup {c}
        /\ load' = [l \in Loaders |->
             IF ~Walking(l) THEN load[l]
             ELSE [load[l] EXCEPT !.kept = @ \ {c},
                                  !.gone = IF c \in approved THEN @ + 1 ELSE @,
                                  !.came = IF c \in approved THEN @ ELSE @ + 1]]
    BY <1>5 DEF Change
  <2>2. ASSUME ~Tied(Collections), NEW l \in Loaders PROVE LoadInv(load'[l], approved')
    <3>1. LoadInv(load[l], approved)
      BY <1>1, <2>2
    <3>2. CASE Walking(l)
      <4>1. WalkInv(load[l], approved)
        BY <3>1, <3>2 DEF LoadInv, Walking, At
      <4>2. load'[l] = WatchedLoad(load[l], approved, c)
        BY <2>1, <3>2 DEF WatchedLoad
      <4>3. WalkInv(load'[l], approved')
        <5>1. approved' = IF c \in approved THEN approved \ {c} ELSE approved \cup {c}
          BY <2>1
        <5>2. WalkInv(WatchedLoad(load[l], approved, c), approved')
          BY <1>1, <2>2, <4>1, <5>1, ChangeKeepsWalk
        <5> QED BY <4>2, <5>2
      <4>4. load'[l].at = load[l].at
        BY <4>1, <4>2 DEF WalkInv, LoadWalks, WatchedLoad
      <4> QED BY <3>2, <4>3, <4>4 DEF LoadInv, Walking, At
    <3>3. CASE ~Walking(l)
      BY <2>1, <3>1, <3>3 DEF LoadInv, Walking, At
    <3> QED BY <3>2, <3>3
  <2> QED BY <1>1, <2>1, <2>2 DEF ContractsInv
<1>6. ASSUME NEW l \in Loaders, NEW f \in Asks, AskContracts(l, f)
      PROVE  ContractsInv'
  <2> DEFINE w == IF ~f.collections THEN Done(f, <<>>)
                  ELSE IF listCache # {} THEN Done(f, CHOOSE list \in listCache : TRUE)
                  ELSE [at |-> "counting", ask |-> f]
  <2>1. load' = [load EXCEPT ![l] = w] /\ UNCHANGED approved
    BY <1>6 DEF AskContracts
  <2>2. w.at = "done" \/ (w.at = "counting" /\ w.ask \in Asks)
    BY DEF Done
  <2> HIDE DEF w
  <2> QED BY <1>2, <2>1, <2>2 DEF LoadInv
<1>7. ASSUME NEW l \in Loaders, CountCollections(l)
      PROVE  ContractsInv'
  <2>1. CASE approved = {}
    <3> DEFINE w == Done(load[l].ask, <<>>)
    <3>1. load' = [load EXCEPT ![l] = w] /\ UNCHANGED approved
      BY <1>7, <2>1 DEF CountCollections
    <3>2. w.at = "done"
      BY DEF Done
    <3> HIDE DEF w
    <3> QED BY <1>3, <3>1, <3>2
  <2>2. CASE approved # {}
    <3> DEFINE w == Walk(load[l].ask, "paging", Cardinality(approved))
    <3>1. load' = [load EXCEPT ![l] = w] /\ UNCHANGED approved
      BY <1>7, <2>2 DEF CountCollections
    <3>2. ~Tied(Collections) => WalkInv(w, approved)
      <4> SUFFICES ASSUME ~Tied(Collections) PROVE WalkInv(w, approved)
          OBVIOUS
      <4>1. Cardinality(approved) \in Nat /\ \A c \in approved : Place(NameOrder, approved, c) \in Nat
        BY <1>1, NamesOrder, PlaceType
      <4>2. IsInjective(w.got) /\ Range(w.got) = {} /\ w.skip = 0 * PageSize
        BY ContractsAssumption DEF Walk, IsInjective, Range
      <4>3. w \in LoadWalks
        BY <1>1, <1>7, <4>1 DEF Walk, LoadWalks, LoadInv, CountCollections, At
      <4> QED BY <1>1, <4>1, <4>2, <4>3 DEF WalkInv, Walk
    <3>3. w.at = "paging"
      BY DEF Walk
    <3> HIDE DEF w
    <3> QED BY <1>2, <3>1, <3>2, <3>3 DEF LoadInv
  <2> QED BY <2>1, <2>2
<1>8. ASSUME NEW l \in Loaders, ReadPage(l)
      PROVE  ContractsInv'
  <2>1. PICK page \in CollectionPages(PageSize, load[l].skip) :
          load' = [load EXCEPT ![l].got = @ \o page, ![l].skip = NextSkip(@),
                     ![l].at = IF NextSkip(load[l].skip) < load[l].total THEN @ ELSE "storing"]
    BY <1>8 DEF ReadPage
  <2>4. PICK s \in Sorted(approved, NameBefore) : page = Slice(s, PageSize, load[l].skip)
    BY DEF CollectionPages
  <2> DEFINE v == [load[l] EXCEPT !.got = @ \o page, !.skip = NextSkip(@),
                     !.at = IF NextSkip(load[l].skip) < load[l].total THEN @ ELSE "storing"]
  <2>5. load' = [load EXCEPT ![l] = v]
    BY <1>1, <2>1
  <2>2. ASSUME ~Tied(Collections) PROVE WalkInv(v, approved)
    <3>1. WalkInv(load[l], approved) /\ load[l].at = "paging"
      BY <1>1, <1>8, <2>2 DEF LoadInv, ReadPage, At
    <3> QED BY <1>1, <2>2, <2>4, <3>1, PageKeepsWalk
  <2>3. ~Tied(Collections) => LoadInv(v, approved)
    BY <2>2 DEF LoadInv, WalkInv, LoadWalks
  <2> HIDE DEF v
  <2> QED BY <1>2, <1>8, <2>5, <2>3 DEF ReadPage
<1>9. ASSUME NEW l \in Loaders, StoreList(l)
      PROVE  ContractsInv'
  <2> DEFINE w == load[l]
             v == Stored(w)
  <2>1. load' = [load EXCEPT ![l] = v] /\ UNCHANGED approved /\ w.at = "storing"
    BY <1>9 DEF StoreList, At
  <2>2. ASSUME ~Tied(Collections) PROVE LoadInv(v, approved)
    <3>1. WalkInv(w, approved)
      BY <1>1, <2>1, <2>2 DEF LoadInv
    <3>2. /\ v.at = "stored" /\ v.list = w.got /\ v.gone = w.gone /\ v.came = w.came
          /\ v.total = w.total /\ v.kept = w.kept
      BY DEF Stored
    <3> HIDE DEF v, w
    <3>3. LoadTold(v)
      BY <1>1, <2>1, <2>2, <3>1, <3>2, WalkEnds
    <3> QED BY <3>2, <3>3 DEF LoadInv
  <2> QED BY <1>2, <2>1, <2>2
<1> QED BY <1>4, <1>5, <1>6, <1>7, <1>8, <1>9 DEF ContractsNext

\* A load of the contracts (logic/contracts) that goes through the pages while collections are
\* approved and rejected misses one that was approved all the while only if another was
\* rejected, or more came than its pages hold; and has one twice only if another came.
THEOREM LoadsAreWhole == ContractsSpec => []LoadsLoseNothing
<1>1. ContractsInv => LoadsLoseNothing
  BY DEF ContractsInv, LoadInv, LoadTold, LoadsLoseNothing, At
<1> QED BY <1>1, InitContracts, ContractsStep, PTL DEF ContractsSpec

-----------------------------------------------------------------------------
(* The assets of an address. *)

AssetWalks == [at : {"data", "count"}, ask : Wanted, skip : Nat, got : Seq(Nat), kept : SUBSET Nat,
               left : BOOLEAN, came : BOOLEAN, dated : BOOLEAN]

\* The order of what is asked.
AssetOrder(f) == {p \in Units(Assets, f) \X Units(Assets, f) : Before(f, p[1], p[2])}

\* The places that are behind a walk.
Behind(w) == IF w.at = "data" THEN w.skip ELSE w.skip + w.ask.first
Ordered(w) == ~Ties(w.ask) /\ ~(w.ask.grouped /\ w.dated)

\* What a walk has seen of the units U that the address has now, in the order B.
ReadInv(w, U, B) ==
  /\ w \in AssetWalks /\ w.kept \subseteq U
  /\ \E k \in Nat : w.skip = k * w.ask.first
  /\ Ordered(w) /\ ~w.left => \A u \in w.kept : u \in Range(w.got) \/ Place(B, U, u) >= Behind(w)
  /\ Ordered(w) /\ ~w.came => /\ IsInjective(w.got)
                              /\ \A u \in Range(w.got) \cap U : Place(B, U, u) < Behind(w)

AssetsTyped == held \in SUBSET Assets /\ moves \in Nat /\ moved \in [Assets -> 0 .. moves]

AssetsInv ==
  /\ AssetsTyped
  /\ Walks => ReadInv(walk, Units(held, walk.ask), AssetOrder(walk.ask))
  /\ WalksLoseNothing

LEMMA LatestAndEarliest ==
    ASSUME NEW n \in Nat, NEW S \in SUBSET (0 .. n), S # {}
    PROVE  Max(S) \in S /\ Min(S) \in S
<1>2. \E x \in S : \A y \in S : x <= y
  <2>1. S \in SUBSET Nat
    OBVIOUS
  <2> QED BY <2>1, LeastNumber
<1>3. \E x \in S : \A y \in S : x >= y
  <2> DEFINE T == {n - x : x \in S}
  <2>1. T \in SUBSET Nat /\ T # {}
    <3>1. \A x \in S : n - x \in Nat
      OBVIOUS
    <3>2. PICK x \in S : TRUE
      OBVIOUS
    <3>3. n - x \in T
      OBVIOUS
    <3> QED BY <3>1, <3>3
  <2>2. PICK z \in T : \A y \in T : z <= y
    BY <2>1, LeastNumber
  <2>3. PICK x \in S : z = n - x
    BY <2>2
  <2>4. \A y \in S : n - x <= n - y
    BY <2>2, <2>3
  <2> QED BY <2>3, <2>4
<1> QED BY <1>2, <1>3 DEF Max, Min

LEMMA OwnedUnits ==
    ASSUME NEW H \in SUBSET Assets, NEW f \in Wanted
    PROVE  /\ Units(H, f) \subseteq Units(Assets, f) /\ Units(Assets, f) \subseteq Nat
           /\ IsFiniteSet(Units(H, f))
<1>1. IsFiniteSet(Owned(H, f)) /\ Owned(H, f) \subseteq Assets
  BY UserAssetsAssumption, FS_Subset DEF Owned
<1>2. IsFiniteSet(Groups(H, f))
  <2> DEFINE g == [t \in Owned(H, f) |-> UrnOf[t]]
  <2>1. g \in Surjection(Owned(H, f), Groups(H, f))
    BY DEF Surjection, Groups
  <2> QED BY <1>1, <2>1, FS_Surjection
<1> QED BY <1>1, <1>2, UserAssetsAssumption DEF Units, Groups, Owned

LEMMA AssetsOrder ==
    ASSUME AssetsTyped, NEW f \in Wanted, ~Ties(f)
    PROVE  InOrderBy(AssetOrder(f), Units(held, f))
<1> DEFINE U == Units(held, f)
<1>1. U \subseteq Units(Assets, f)
  BY OwnedUnits DEF AssetsTyped
<1>2. \A x, y \in U : <<x, y>> \in AssetOrder(f) <=> Before(f, x, y)
  BY <1>1 DEF AssetOrder
<1>3. CASE ~f.grouped
  <2>1. \A x \in U : x \in Assets /\ KindOf[x] = f.kind
    BY <1>3 DEF Units, Owned, AssetsTyped
  <2>2. \A x, y \in U : Before(f, x, y) <=> TokenBefore(f, x, y)
    BY <1>3 DEF Before
  <2>3. CASE f.kind = "name"
    <3>1. \A x, y \in U : TokenBefore(f, x, y) <=> x < y
      BY <2>3 DEF TokenBefore
    <3>2. \A x \in U : x \in Nat
      BY <2>1, UserAssetsAssumption
    <3> QED BY <1>2, <2>2, <3>1, <3>2 DEF InOrderBy
  <2>4. CASE f.kind # "name"
    <3>1. \A x, y \in U : TokenBefore(f, x, y) <=> CreatedAt[x] > CreatedAt[y]
      BY <2>4 DEF TokenBefore
    <3>2. \A x \in U : CreatedAt[x] \in Nat
      BY <2>1, UserAssetsAssumption
    <3>3. \A x, y \in U : x # y => CreatedAt[x] # CreatedAt[y]
      BY <1>3, <2>1, <2>4 DEF Ties
    <3> QED BY <1>2, <2>2, <3>1, <3>2, <3>3 DEF InOrderBy
  <2> QED BY <2>3, <2>4
<1>4. CASE f.grouped
  <2>1. \A x \in U : /\ x \in Nat /\ RarityOf[x] \in Nat
                    /\ Moved(f, x) \in SUBSET (0 .. moves) /\ Moved(f, x) # {}
    BY <1>4, UserAssetsAssumption DEF Units, Groups, Owned, Moved, AssetsTyped
  <2>2. moves \in Nat
    BY DEF AssetsTyped
  <2>3. \A x \in U : Max(Moved(f, x)) \in Nat /\ Min(Moved(f, x)) \in Nat
    <3> SUFFICES ASSUME NEW x \in U PROVE Max(Moved(f, x)) \in Nat /\ Min(Moved(f, x)) \in Nat
        OBVIOUS
    <3>1. Max(Moved(f, x)) \in Moved(f, x) /\ Min(Moved(f, x)) \in Moved(f, x)
      BY <2>1, <2>2, LatestAndEarliest
    <3> QED BY <2>1, <2>2, <3>1
  <2>4. \A x, y \in U : Before(f, x, y) <=> GroupBefore(f, x, y)
    BY <1>4 DEF Before
  <2>5. f.sort \in {"rarity", "newest", "oldest"}
    BY UserAssetsAssumption
  <2>9. \A x, y \in U : <<x, y>> \in AssetOrder(f) <=> GroupBefore(f, x, y)
    BY <1>2, <2>4
  <2> HIDE DEF U
  <2>6. CASE f.sort = "rarity"
    <3>1. \A x, y \in U : GroupBefore(f, x, y) <=>
            RarityOf[x] > RarityOf[y] \/ (RarityOf[x] = RarityOf[y] /\ x < y)
      BY <2>6 DEF GroupBefore
    <3>2. \A x, y \in U : x # y => GroupBefore(f, x, y) \/ GroupBefore(f, y, x)
      BY <2>1, <3>1
    <3>3. \A x \in U : ~GroupBefore(f, x, x)
      BY <2>1, <3>1
    <3> QED BY <2>9, <3>2, <3>3 DEF InOrderBy, U
  <2>7. CASE f.sort = "newest"
    <3>1. \A x, y \in U : GroupBefore(f, x, y) <=>
            \/ Max(Moved(f, x)) > Max(Moved(f, y))
            \/ Max(Moved(f, x)) = Max(Moved(f, y)) /\ x < y
      BY <2>7 DEF GroupBefore
    <3>2. \A x, y \in U : x # y => GroupBefore(f, x, y) \/ GroupBefore(f, y, x)
      BY <2>1, <2>3, <3>1
    <3>3. \A x \in U : ~GroupBefore(f, x, x)
      BY <2>1, <2>3, <3>1
    <3> QED BY <2>9, <3>2, <3>3 DEF InOrderBy, U
  <2>8. CASE f.sort = "oldest"
    <3>1. \A x, y \in U : GroupBefore(f, x, y) <=>
            \/ Min(Moved(f, y)) > Min(Moved(f, x))
            \/ Min(Moved(f, y)) = Min(Moved(f, x)) /\ x > y
      BY <2>8 DEF GroupBefore
    <3>2. \A x, y \in U : x # y => GroupBefore(f, x, y) \/ GroupBefore(f, y, x)
      BY <2>1, <2>3, <3>1
    <3>3. \A x \in U : ~GroupBefore(f, x, x)
      BY <2>1, <2>3, <3>1
    <3> QED BY <2>9, <3>2, <3>3 DEF InOrderBy, U
  <2> QED BY <2>5, <2>6, <2>7, <2>8
<1> QED BY <1>3, <1>4, UserAssetsAssumption

LEMMA TransferKeepsRead ==
    ASSUME NEW w, NEW U, IsFiniteSet(U), NEW B, ReadInv(w, U, B),
           NEW T, IsFiniteSet(T), NEW C, NEW v, v \in AssetWalks,
           v.at = w.at, v.ask = w.ask, v.skip = w.skip, v.got = w.got, v.kept = w.kept \cap T,
           w.dated => v.dated,
           \/ T \subseteq U /\ v.left /\ v.came = w.came
           \/ U \subseteq T /\ v.left = w.left /\ v.came,
           Ordered(v) => B = C
    PROVE  ReadInv(v, T, C)
<1>1. /\ w \in AssetWalks /\ w.kept \subseteq U /\ Behind(v) = Behind(w)
      /\ \E k \in Nat : v.skip = k * v.ask.first
  BY DEF ReadInv, Behind
<1>2. Behind(v) \in Nat
  <2>1. v.skip \in Nat /\ v.ask.first \in Nat
    BY UserAssetsAssumption DEF AssetWalks
  <2> QED BY <2>1 DEF Behind
<1>3. ASSUME Ordered(v) PROVE Ordered(w)
  BY <1>3 DEF Ordered
\* What left moved nothing back, and what came moved nothing to the front.
<1>4. ASSUME Ordered(v), ~v.left, NEW u \in v.kept
      PROVE  u \in Range(v.got) \/ Place(C, T, u) >= Behind(v)
  <2>1. U \subseteq T /\ ~w.left /\ u \in w.kept /\ B = C
    BY <1>4
  <2>2. u \in Range(w.got) \/ Place(B, U, u) >= Behind(w)
    BY <1>3, <1>4, <2>1 DEF ReadInv
  <2>3. Place(B, U, u) \in Nat /\ Place(B, T, u) \in Nat /\ Place(B, U, u) <= Place(B, T, u)
    BY <2>1, PlaceType, FewerBefore
  <2> QED BY <1>1, <1>2, <2>1, <2>2, <2>3
<1>5. ASSUME Ordered(v), ~v.came
      PROVE  IsInjective(v.got) /\ \A u \in Range(v.got) \cap T : Place(C, T, u) < Behind(v)
  <2>1. T \subseteq U /\ ~w.came /\ B = C
    BY <1>5
  <2>2. IsInjective(w.got) /\ \A u \in Range(w.got) \cap U : Place(B, U, u) < Behind(w)
    BY <1>3, <1>5, <2>1 DEF ReadInv
  <2>3. \A u : Place(B, U, u) \in Nat /\ Place(B, T, u) \in Nat /\ Place(B, T, u) <= Place(B, U, u)
    BY <2>1, PlaceType, FewerBefore
  <2>4. ASSUME NEW u \in Range(v.got) \cap T PROVE Place(C, T, u) < Behind(v)
    <3>1. Place(B, U, u) < Behind(w)
      BY <2>1, <2>2, <2>4
    <3> QED BY <1>1, <1>2, <2>1, <2>3, <3>1
  <2> QED BY <2>2, <2>4
<1>6. v.kept \subseteq T
  OBVIOUS
<1> QED BY <1>1, <1>4, <1>5, <1>6 DEF ReadInv

LEMMA SameOrderKeepsRead ==
    ASSUME NEW w, NEW U, NEW B, ReadInv(w, U, B), NEW C,
           \A x, y \in U : <<x, y>> \in B <=> <<x, y>> \in C
    PROVE  ReadInv(w, U, C)
<1>1. \A u \in U : Place(B, U, u) = Place(C, U, u)
  BY SamePlaces
<1>2. w.kept \subseteq U
  BY DEF ReadInv
<1> HIDE DEF Place
<1> QED BY <1>1, <1>2 DEF ReadInv

LEMMA PageKeepsRead ==
    ASSUME NEW w, NEW U \in SUBSET Nat, IsFiniteSet(U), NEW B, ReadInv(w, U, B),
           Ordered(w) => InOrderBy(B, U), w.at = "data",
           NEW s \in SetToSeqs(U), \A m, n \in DOMAIN s : m < n => <<s[n], s[m]>> \notin B,
           NEW page, page = Slice(s, w.ask.first, w.skip),
           NEW v, v = [w EXCEPT !.at = "count", !.got = @ \o page]
    PROVE  ReadInv(v, U, B)
<1> DEFINE Spot(u) == Place(B, U, u)
<1>1. /\ w \in AssetWalks /\ w.skip \in Nat /\ w.ask.first \in Nat \ {0} /\ w.got \in Seq(Nat)
      /\ w.kept \subseteq U /\ \E k \in Nat : w.skip = k * w.ask.first
  BY UserAssetsAssumption DEF ReadInv, AssetWalks
<1>2. page \in Seq(U)
  <2>1. s \in Seq(U)
    BY SeqOfSet
  <2>2. w.skip \in Nat /\ w.ask.first \in Nat
    BY <1>1
  <2> QED BY <2>1, <2>2, SliceOf
<1>3. /\ w.got \o page \in Seq(Nat) /\ Range(w.got \o page) = Range(w.got) \cup Range(page)
      /\ IsInjective(w.got) /\ IsInjective(page) /\ Range(w.got) \cap Range(page) = {} =>
           IsInjective(w.got \o page)
  <2>1. page \in Seq(Nat)
    BY <1>2
  <2> QED BY <1>1, <2>1, PagesJoined
<1>4. /\ v \in AssetWalks /\ v.at = "count" /\ v.ask = w.ask /\ v.skip = w.skip
      /\ v.got = w.got \o page /\ v.kept = w.kept /\ v.left = w.left /\ v.came = w.came
      /\ v.dated = w.dated
  BY <1>1, <1>3 DEF AssetWalks
<1>5. Behind(w) = w.skip /\ Behind(v) = w.skip + w.ask.first /\ (Ordered(v) <=> Ordered(w))
  BY <1>4 DEF Behind, Ordered
<1>6. \A u : Spot(u) \in Nat
  BY PlaceType
<1>7. ASSUME Ordered(w)
      PROVE  /\ IsInjective(page)
             /\ \A u : u \in Range(page) <=>
                         u \in U /\ w.skip <= Spot(u) /\ Spot(u) < w.skip + w.ask.first
  <2>1. w.skip \in Nat /\ w.ask.first \in Nat
    BY <1>1
  <2> QED BY <1>7, <2>1, PageIsPlaces
<1>8. ASSUME Ordered(v), ~v.left, NEW u \in v.kept, u \notin Range(v.got)
      PROVE  Spot(u) >= Behind(v)
  <2>1. u \in U /\ u \notin Range(w.got) /\ u \notin Range(page)
    BY <1>1, <1>3, <1>4, <1>8
  <2>2. Spot(u) >= w.skip
    BY <1>4, <1>5, <1>8, <2>1 DEF ReadInv
  <2> HIDE DEF Spot
  <2> QED BY <1>1, <1>5, <1>6, <1>7, <1>8, <2>1, <2>2
<1>9. ASSUME Ordered(v), ~v.came
      PROVE  IsInjective(v.got) /\ \A u \in Range(v.got) \cap U : Spot(u) < Behind(v)
  <2>1. IsInjective(w.got) /\ \A u \in Range(w.got) \cap U : Spot(u) < w.skip
    BY <1>4, <1>5, <1>9 DEF ReadInv
  <2> HIDE DEF Spot
  <2>2. Range(w.got) \cap Range(page) = {}
    BY <1>1, <1>5, <1>6, <1>7, <1>9, <2>1
  <2>3. \A u \in Range(v.got) \cap U : Spot(u) < Behind(v)
    BY <1>1, <1>3, <1>4, <1>5, <1>6, <1>7, <1>9, <2>1
  <2> QED BY <1>3, <1>4, <1>5, <1>7, <1>9, <2>1, <2>2, <2>3
<1> QED BY <1>1, <1>4, <1>8, <1>9 DEF ReadInv

LEMMA CountKeepsRead ==
    ASSUME NEW w, NEW U, IsFiniteSet(U), NEW B, ReadInv(w, U, B), w.at = "count",
           NEW v, v = [w EXCEPT !.at = "data", !.skip = @ + w.ask.first]
    PROVE  ReadInv(v, U, B)
<1>1. /\ w \in AssetWalks /\ w.skip \in Nat /\ w.ask.first \in Nat \ {0} /\ w.kept \subseteq U
  BY UserAssetsAssumption DEF ReadInv, AssetWalks
<1>2. w.skip + w.ask.first \in Nat
  BY <1>1
<1>3. /\ v \in AssetWalks /\ v.at = "data" /\ v.ask = w.ask /\ v.skip = w.skip + w.ask.first
      /\ v.got = w.got /\ v.kept = w.kept /\ v.left = w.left /\ v.came = w.came
      /\ v.dated = w.dated
  BY <1>1, <1>2 DEF AssetWalks
<1>4. Behind(w) = w.skip + w.ask.first /\ Behind(v) = Behind(w) /\ (Ordered(v) <=> Ordered(w))
  BY <1>3 DEF Behind, Ordered
<1>5. \E k \in Nat : v.skip = k * v.ask.first
  <2>1. PICK k \in Nat : w.skip = k * w.ask.first
    BY DEF ReadInv
  <2>2. (k + 1) * w.ask.first = k * w.ask.first + w.ask.first /\ k + 1 \in Nat
    <3>1. w.ask.first \in Nat
      BY <1>1
    <3> QED BY <3>1, TimesNext
  <2> QED BY <1>3, <2>1, <2>2
<1> HIDE DEF Place
<1> QED BY <1>1, <1>3, <1>4, <1>5 DEF ReadInv

LEMMA LastPageEnds ==
    ASSUME NEW w, NEW U, IsFiniteSet(U), NEW B, ReadInv(w, U, B), w.at = "count",
           Ordered(w) => InOrderBy(B, U),
           ~(Page(w.ask, w.skip) < Pages(w.ask, Cardinality(U)))
    PROVE  /\ Ordered(w) /\ ~w.left => w.kept \subseteq Range(w.got)
           /\ Ordered(w) /\ ~w.came => IsInjective(w.got)
<1>1. /\ w.skip \in Nat /\ w.ask.first \in Nat \ {0} /\ w.kept \subseteq U
      /\ Behind(w) = w.skip + w.ask.first
  BY UserAssetsAssumption DEF ReadInv, AssetWalks, Behind
<1>2. Cardinality(U) <= Behind(w) /\ Cardinality(U) \in Nat
  <2>1. PICK k \in Nat : w.skip = k * w.ask.first
    BY DEF ReadInv
  <2>2. w.skip \div w.ask.first = k
    BY <1>1, <2>1, PageNumber
  <2>3. Cardinality(U) \in Nat
    BY FS_CardinalityType
  <2>4. Cardinality(U) <= (k + 1) * w.ask.first
    <3>1. ~(k + 1 < (Cardinality(U) + w.ask.first - 1) \div w.ask.first)
      BY <2>2 DEF Page, Pages
    <3>2. k + 1 \in Nat
      OBVIOUS
    <3> QED BY <1>1, <2>3, <3>1, <3>2, LastPage
  <2>5. (k + 1) * w.ask.first = k * w.ask.first + w.ask.first
    <3>1. w.ask.first \in Nat
      BY <1>1
    <3> QED BY <3>1, TimesNext
  <2> QED BY <1>1, <2>1, <2>3, <2>4, <2>5
<1>3. ASSUME Ordered(w), ~w.left, NEW u \in w.kept PROVE u \in Range(w.got)
  <2>1. Place(B, U, u) \in Nat /\ Place(B, U, u) < Cardinality(U)
    BY <1>1, <1>3, PlaceType
  <2>2. ~(Place(B, U, u) >= Behind(w))
    BY <1>1, <1>2, <2>1
  <2> QED BY <1>3, <2>2 DEF ReadInv
<1>4. Ordered(w) /\ ~w.came => IsInjective(w.got)
  BY DEF ReadInv
<1> QED BY <1>3, <1>4

LEMMA InitAssets == AssetsInit => AssetsInv
<1> SUFFICES ASSUME AssetsInit PROVE AssetsInv
    OBVIOUS
<1>1. AssetsTyped
  BY DEF AssetsInit, AssetsTyped
<1>2. walk.at = "idle"
  BY DEF AssetsInit, Still
<1> QED BY <1>1, <1>2 DEF AssetsInv, Walks, WalksLoseNothing

LEMMA TransferKeepsAssets ==
    ASSUME AssetsInv, NEW t \in Assets, Transfer(t)
    PROVE  AssetsInv'
<1> DEFINE f == walk.ask  U == Units(held, f)  T == Units(held', f)
           B == AssetOrder(f)  C == B'
<1>1. AssetsTyped'
  <2>1. moves \in Nat /\ held \in SUBSET Assets /\ moved \in [Assets -> 0 .. moves]
    BY DEF AssetsInv, AssetsTyped
  <2>2. moves' \in Nat /\ moves + 1 \in 0 .. moves' /\ 0 .. moves \subseteq 0 .. moves'
    BY <2>1 DEF Transfer
  <2>3. moved' \in [Assets -> 0 .. moves']
    BY <2>1, <2>2 DEF Transfer
  <2>4. held' \in SUBSET Assets
    BY <2>1 DEF Transfer
  <2> QED BY <2>2, <2>3, <2>4 DEF AssetsTyped
<1>2. CASE ~Walks
  <2>1. walk' = walk
    BY <1>2 DEF Transfer, Watched
  <2> QED BY <1>1, <1>2, <2>1 DEF AssetsInv, Walks, WalksLoseNothing, Ties
<1>3. CASE Walks
  <2>1. ReadInv(walk, U, B) /\ walk \in AssetWalks /\ f \in Wanted
    BY <1>3 DEF AssetsInv, ReadInv, AssetWalks
  <2>2. /\ IsFiniteSet(U) /\ IsFiniteSet(T) /\ U \subseteq Units(Assets, f) /\ T \subseteq Units(Assets, f)
        /\ T \subseteq Nat
    BY <1>1, <2>1, OwnedUnits DEF AssetsInv, AssetsTyped
  <2>3. walk'.at # "done" /\ Walks' /\ walk'.ask = f /\ ReadInv(walk', T, C)
    \* What is not asked for changes neither the units nor their order.
    <3>1. CASE t \notin Owned(held \cup held', f)
      <4>1. walk' = walk
        BY <1>3, <3>1 DEF Transfer, Watched
      <4>2. Owned(held', f) = Owned(held, f)
        BY <3>1 DEF Transfer, Owned
      <4>3. T = U
        BY <4>2 DEF Units, Groups
      <4>4. \A u : Moved(f, u)' = Moved(f, u)
        BY <3>1, <4>1, <4>2 DEF Moved, Transfer, Owned, AssetsInv, AssetsTyped
      <4>5. \A x, y : Before(f, x, y)' <=> Before(f, x, y)
        BY <4>1, <4>4 DEF Before, GroupBefore, TokenBefore
      <4>6. \A x, y \in U : <<x, y>> \in B <=> <<x, y>> \in C
        BY <4>1, <4>5 DEF AssetOrder
      <4> HIDE DEF B, C, U, T, f
      <4>7. ReadInv(walk, U, C)
        BY <2>1, <4>6, SameOrderKeepsRead
      <4> QED BY <1>3, <4>1, <4>3, <4>7 DEF Walks, f
    <3>2. CASE t \in Owned(held \cup held', f)
      <4>1. walk' = [walk EXCEPT !.kept = @ \cap T, !.left = @ \/ t \in held,
                                 !.came = @ \/ t \notin held, !.dated = @ \/ f.sort # "rarity"]
        BY <1>3, <3>2 DEF Transfer, Watched
      <4>2. /\ walk'.at = walk.at /\ walk'.ask = f /\ walk'.skip = walk.skip /\ walk'.got = walk.got
            /\ walk'.kept = walk.kept \cap T /\ walk'.left = (walk.left \/ t \in held)
            /\ walk'.came = (walk.came \/ t \notin held)
            /\ walk'.dated = (walk.dated \/ f.sort # "rarity")
            /\ walk' \in AssetWalks
        BY <2>1, <2>2, <4>1 DEF AssetWalks
      <4>3. Ordered(walk') => B = C
        <5> SUFFICES ASSUME Ordered(walk') PROVE B = C
            OBVIOUS
        <5>1. f.grouped => f.sort = "rarity"
          BY <4>2 DEF Ordered
        <5>2. \A x, y : Before(f, x, y)' <=> Before(f, x, y)
          BY <4>2, <5>1 DEF Before, GroupBefore, TokenBefore
        <5> QED BY <4>2, <5>2 DEF AssetOrder
      <4>4. \/ t \in held /\ T \subseteq U
            \/ t \notin held /\ U \subseteq T
        BY DEF Transfer, Units, Groups, Owned
      <4>5. \/ T \subseteq U /\ walk'.left /\ walk'.came = walk.came
            \/ U \subseteq T /\ walk'.left = walk.left /\ walk'.came
        BY <2>1, <4>2, <4>4 DEF AssetWalks
      <4>6. walk.dated => walk'.dated
        BY <4>2
      <4> HIDE DEF B, C, U, T, f
      <4>7. ReadInv(walk', T, C)
        BY <2>1, <2>2, <4>2, <4>3, <4>5, <4>6, TransferKeepsRead DEF f
      <4> QED BY <1>3, <4>2, <4>7 DEF Walks
    <3> QED BY <3>1, <3>2
  <2> QED BY <1>1, <2>3 DEF AssetsInv, WalksLoseNothing
<1> QED BY <1>2, <1>3

LEMMA AskKeepsAssets ==
    ASSUME AssetsInv, NEW f \in Wanted, Ask(f)
    PROVE  AssetsInv'
<1> DEFINE U == Units(held, f)
<1>1. AssetsTyped' /\ walk'.at = "data" /\ walk'.ask = f /\ held' = held
  BY DEF Ask, AssetsInv, AssetsTyped
<1>2. U \subseteq Nat /\ IsFiniteSet(U)
  BY OwnedUnits DEF AssetsInv, AssetsTyped
<1>3. IsInjective(<<>>) /\ Range(<<>>) = {} /\ <<>> \in Seq(Nat)
  BY DEF IsInjective, Range
<1>4. \A B : ReadInv(walk', U, B)
  <2> SUFFICES ASSUME NEW B PROVE ReadInv(walk', U, B)
      OBVIOUS
  <2>1. \A u : Place(B, U, u) \in Nat
    BY <1>2, PlaceType
  <2>2. f.first \in Nat
    BY UserAssetsAssumption
  <2>3. 0 * f.first = 0
    BY <2>2
  <2> HIDE DEF U, Place
  <2>4. walk' \in AssetWalks /\ walk'.kept = U /\ walk'.skip = 0 /\ walk'.got = <<>>
    BY <1>2, <1>3 DEF Ask, AssetWalks, U
  <2>5. Behind(walk') = 0
    BY <1>1, <2>4 DEF Behind
  <2> QED BY <1>1, <1>3, <2>1, <2>3, <2>4, <2>5 DEF ReadInv
<1> QED BY <1>1, <1>4 DEF AssetsInv, WalksLoseNothing

LEMMA DataKeepsAssets ==
    ASSUME AssetsInv, ReadData
    PROVE  AssetsInv'
<1> DEFINE f == walk.ask  U == Units(held, f)  B == AssetOrder(f)
<1>1. ReadInv(walk, U, B) /\ walk \in AssetWalks /\ f \in Wanted /\ walk.at = "data"
  BY DEF AssetsInv, ReadInv, AssetWalks, ReadData, Walks
<1>2. U \subseteq Units(Assets, f) /\ U \in SUBSET Nat /\ IsFiniteSet(U)
  BY <1>1, OwnedUnits DEF AssetsInv, AssetsTyped
<1>3. PICK s \in SetToSeqs(U) :
        /\ \A m, n \in DOMAIN s : m < n => ~Before(f, s[n], s[m])
        /\ walk' = [walk EXCEPT !.at = "count", !.got = @ \o Slice(s, f.first, walk.skip)]
  BY DEF ReadData, AssetPages, Sorted
<1>4. \A m, n \in DOMAIN s : m < n => <<s[n], s[m]>> \notin B
  BY <1>3 DEF AssetOrder
<1>5. walk'.at = "count" /\ walk'.ask = f /\ UNCHANGED <<held, moved, moves>>
  BY <1>1, <1>3 DEF AssetWalks, ReadData
<1>6. Ordered(walk) => InOrderBy(B, U)
  BY <1>1, AssetsOrder DEF AssetsInv, Ordered
<1>7. B' = B /\ U' = U
  BY <1>5 DEF AssetOrder, Before, GroupBefore, TokenBefore, Moved
<1> HIDE DEF B, U
<1>8. ReadInv(walk', U, B)
  BY <1>1, <1>2, <1>3, <1>4, <1>6, PageKeepsRead
<1>9. Walks => ReadInv(walk, U, B)
  BY <1>1
<1>10. AssetsTyped'
  BY <1>5 DEF AssetsInv, AssetsTyped
<1>11. WalksLoseNothing'
  BY <1>5 DEF WalksLoseNothing
<1>12. ReadInv(walk, U, B)'
  BY <1>7, <1>8
<1> QED BY <1>10, <1>11, <1>12 DEF AssetsInv, U, B

LEMMA CountKeepsAssets ==
    ASSUME AssetsInv, ReadCount
    PROVE  AssetsInv'
<1> DEFINE f == walk.ask  U == Units(held, f)  B == AssetOrder(f)
           more == Page(f, walk.skip) < Pages(f, CountOf(f))
<1>1. ReadInv(walk, U, B) /\ walk \in AssetWalks /\ f \in Wanted /\ walk.at = "count"
  BY DEF AssetsInv, ReadInv, AssetWalks, ReadCount, Walks
<1>2. IsFiniteSet(U)
  BY <1>1, OwnedUnits DEF AssetsInv, AssetsTyped
<1>3. Ordered(walk) => InOrderBy(B, U)
  BY <1>1, AssetsOrder DEF AssetsInv, Ordered
<1>4. AssetsTyped' /\ UNCHANGED <<held, moved, moves>>
  BY DEF ReadCount, AssetsInv, AssetsTyped
<1>5. CASE more
  <2>1. walk' = [walk EXCEPT !.at = "data", !.skip = @ + f.first]
    BY <1>5 DEF ReadCount
  <2>2. walk'.at = "data" /\ walk'.ask = f
    BY <1>1, <2>1 DEF AssetWalks
  <2>3. B' = B /\ U' = U
    BY <1>4, <2>2 DEF AssetOrder, Before, GroupBefore, TokenBefore, Moved
  <2> HIDE DEF B, U
  <2>4. ReadInv(walk', U, B)
    BY <1>1, <1>2, <2>1, CountKeepsRead
  <2>5. ReadInv(walk, U, B)'
    BY <2>3, <2>4
  <2> QED BY <1>4, <2>2, <2>5 DEF AssetsInv, WalksLoseNothing, U, B
<1>6. CASE ~more
  <2>1. walk' = [walk EXCEPT !.at = "done"]
    BY <1>6 DEF ReadCount
  <2>2. /\ walk'.at = "done" /\ walk'.ask = f /\ walk'.got = walk.got /\ walk'.kept = walk.kept
        /\ walk'.left = walk.left /\ walk'.came = walk.came /\ walk'.dated = walk.dated
    BY <1>1, <2>1 DEF AssetWalks
  <2>3. ~(Page(f, walk.skip) < Pages(f, Cardinality(U)))
    BY <1>6 DEF CountOf
  <2> HIDE DEF B, U
  <2>4. /\ Ordered(walk) /\ ~walk.left => walk.kept \subseteq Range(walk.got)
        /\ Ordered(walk) /\ ~walk.came => IsInjective(walk.got)
    BY <1>1, <1>2, <1>3, <2>3, LastPageEnds
  <2>5. Ties(f)' <=> Ties(f)
    BY <2>2 DEF Ties
  <2>6. WalksLoseNothing'
    BY <2>2, <2>4, <2>5 DEF WalksLoseNothing, Ordered, Ties
  <2> QED BY <1>4, <2>2, <2>6 DEF AssetsInv, Walks
<1> QED BY <1>5, <1>6

LEMMA AssetsStep == AssetsInv /\ [AssetsNext]_avars => AssetsInv'
<1> SUFFICES ASSUME AssetsInv, [AssetsNext]_avars PROVE AssetsInv'
    OBVIOUS
<1>1. CASE UNCHANGED avars
  <2>1. UNCHANGED <<held, moved, moves, walk>>
    BY <1>1 DEF avars
  <2>2. AssetOrder(walk.ask)' = AssetOrder(walk.ask)
    BY <2>1 DEF AssetOrder, Before, GroupBefore, TokenBefore, Moved
  <2>3. WalksLoseNothing' = WalksLoseNothing
    BY <2>1 DEF WalksLoseNothing, Ties
  <2> QED BY <2>1, <2>2, <2>3 DEF AssetsInv, AssetsTyped, Walks
<1> QED BY <1>1, TransferKeepsAssets, AskKeepsAssets, DataKeepsAssets, CountKeepsAssets DEF AssetsNext

\* A client that reads the assets of an address (ports/user-assets) to the last page misses
\* something the address had all the while only if something left it, and sees something twice
\* only if something came, when the order is one.
THEOREM WalksAreWhole == AssetsSpec => []WalksLoseNothing
<1>1. AssetsInv => WalksLoseNothing
  BY DEF AssetsInv
<1> QED BY <1>1, InitAssets, AssetsStep, PTL DEF AssetsSpec

-----------------------------------------------------------------------------
(* Activity: the turns of the events, and a page of them. *)

EventOk(e) ==
  /\ e.type \in EventKinds /\ e.at \in Nat
  /\ e.tx = IF e.type \in SaleKinds THEN {<<e.id, e.at>>} ELSE {}

\* Events of one turn tell the same.
EventsKnown(F) ==
  /\ IsFiniteSet(F)
  /\ \A e \in F : EventOk(e)
  /\ \A e, f \in F : Turn(e) = Turn(f) => Tells(e, f)

Turns(F) == {Turn(e) : e \in F}
TurnOrder == {p \in Int \X Int : p[1] < p[2]}

LEMMA SourceNumber ==
  /\ Len(Sources) = 7
  /\ \A t \in EventKinds : SourceOf(t) \in 1 .. 7
  /\ \A t, u \in EventKinds : SourceOf(t) = SourceOf(u) => t = u
<1>1. DOMAIN Sources = 1 .. 7 /\ Len(Sources) = 7
  BY DEF Sources
<1>2. \A t \in EventKinds : \E n \in DOMAIN Sources : Sources[n] = t
  BY DEF EventKinds
<1>3. \A t \in EventKinds : SourceOf(t) \in DOMAIN Sources /\ Sources[SourceOf(t)] = t
  BY <1>2 DEF SourceOf
<1> QED BY <1>1, <1>3

LEMMA TurnsRanked ==
    ASSUME NEW S \in SUBSET Int
    PROVE  RankedBy(TurnOrder, S)
<1>1. \A x, y \in S : <<x, y>> \in TurnOrder <=> x < y
  BY DEF TurnOrder
<1> QED BY <1>1 DEF RankedBy, InOrderBy

\* What is told twice has one key, and what has one key has one turn.
LEMMA TurnOfEvent ==
    ASSUME NEW e, NEW f, EventOk(e), EventOk(f)
    PROVE  /\ Turn(e) \in Int
           /\ KeyOf(e) = KeyOf(f) => Turn(e) = Turn(f)
           /\ Turn(e) = Turn(f) <=> e.type = f.type /\ e.at = f.at
           /\ Tells(e, f) => KeyOf(e) = KeyOf(f)
<1>1. e.type \in EventKinds /\ e.at \in Nat /\ f.type \in EventKinds /\ f.at \in Nat
  BY DEF EventOk
<1>2. /\ e.tx = IF e.type \in SaleKinds THEN {<<e.id, e.at>>} ELSE {}
      /\ f.tx = IF f.type \in SaleKinds THEN {<<f.id, f.at>>} ELSE {}
  BY DEF EventOk
<1> DEFINE s == SourceOf(e.type)
           r == SourceOf(f.type)
<1>3. s \in 1 .. 7 /\ r \in 1 .. 7 /\ (s = r <=> e.type = f.type)
  BY <1>1, SourceNumber
<1>4. Turn(e) = s - 7 * e.at /\ Turn(f) = r - 7 * f.at
  BY SourceNumber DEF Turn
<1> HIDE DEF s, r
<1>5. Turn(e) \in Int
  BY <1>1, <1>3, <1>4
<1>6. Turn(e) = Turn(f) <=> e.type = f.type /\ e.at = f.at
  <2>1. s - 7 * e.at = r - 7 * f.at => e.at = f.at
    BY <1>1, <1>3
  <2> QED BY <1>1, <1>3, <1>4, <2>1
<1>7. ASSUME KeyOf(e) = KeyOf(f) PROVE Turn(e) = Turn(f)
  <2>1. /\ e.type = f.type /\ e.tx = f.tx
        /\ (IF e.tx # {} THEN {} ELSE {<<e.good, e.at>>}) = (IF f.tx # {} THEN {} ELSE {<<f.good, f.at>>})
    BY <1>7 DEF KeyOf
  <2>2. CASE e.type \in SaleKinds
    <3>1. {<<e.id, e.at>>} = {<<f.id, f.at>>}
      BY <1>2, <2>1, <2>2
    <3>2. <<e.id, e.at>> = <<f.id, f.at>>
      BY <3>1
    <3> QED BY <1>6, <2>1, <3>2
  <2>3. CASE e.type \notin SaleKinds
    <3>1. {<<e.good, e.at>>} = {<<f.good, f.at>>}
      BY <1>2, <2>1, <2>3
    <3>2. <<e.good, e.at>> = <<f.good, f.at>>
      BY <3>1
    <3> QED BY <1>6, <2>1, <3>2
  <2> QED BY <2>2, <2>3
<1>8. ASSUME Tells(e, f) PROVE KeyOf(e) = KeyOf(f)
  BY <1>8 DEF Tells, KeyOf
<1> QED BY <1>5, <1>6, <1>7, <1>8

\* Deduplicated, the events of F, or as many of them as tell the same, are one of each turn.
LEMMA Deduped ==
    ASSUME NEW F, EventsKnown(F), NEW E \in SUBSET F, \A f \in F : \E e \in E : Tells(e, f)
    PROVE  LET V == DedupeEvents(E)
           IN  /\ V \subseteq F
               /\ \A f \in F : \E e \in V : Turn(e) = Turn(f)
               /\ \A e, f \in V : Turn(e) = Turn(f) => e = f
<1> DEFINE V == DedupeEvents(E)
           C(key) == CHOOSE e \in E : KeyOf(e) = key
           Keys == {KeyOf(e) : e \in E}
<1>1. \A e \in F : EventOk(e)
  BY DEF EventsKnown
<1>2. \A key \in Keys : C(key) \in E /\ KeyOf(C(key)) = key
  OBVIOUS
<1>3. V = {C(key) : key \in Keys}
  BY DEF DedupeEvents
<1>4. \A e \in E : KeyOf(e) \in Keys
  OBVIOUS
<1> HIDE DEF C, Keys, V
<1>5. V \subseteq F
  BY <1>2, <1>3
<1>6. ASSUME NEW f \in F PROVE \E e \in V : Turn(e) = Turn(f)
  <2>1. PICK e \in E : Tells(e, f)
    OBVIOUS
  <2>2. Turn(e) = Turn(f)
    BY <1>1, <2>1, TurnOfEvent
  <2>3. C(KeyOf(e)) \in V /\ C(KeyOf(e)) \in E /\ KeyOf(C(KeyOf(e))) = KeyOf(e)
    BY <1>2, <1>3, <1>4
  <2>4. Turn(C(KeyOf(e))) = Turn(e)
    BY <1>1, <2>3, TurnOfEvent
  <2> QED BY <2>2, <2>3, <2>4
<1>7. ASSUME NEW e \in V, NEW f \in V, Turn(e) = Turn(f) PROVE e = f
  <2>1. PICK k \in Keys : e = C(k)
    BY <1>3
  <2>2. PICK l \in Keys : f = C(l)
    BY <1>3
  <2>3. e \in F /\ f \in F /\ KeyOf(e) = k /\ KeyOf(f) = l
    BY <1>2, <1>5, <2>1, <2>2
  <2>4. KeyOf(e) = KeyOf(f)
    BY <1>1, <1>7, <2>3, TurnOfEvent DEF EventsKnown
  <2> QED BY <2>1, <2>2, <2>3, <2>4
<1> QED BY <1>5, <1>6, <1>7 DEF V

\* As many come before an event as turns before its turn.
LEMMA DedupedPlaces ==
    ASSUME NEW F, EventsKnown(F), NEW E \in SUBSET F, \A f \in F : \E e \in E : Tells(e, f)
    PROVE  LET V == DedupeEvents(E)
           IN  /\ IsFiniteSet(V) /\ Cardinality(V) = Cardinality(Turns(F))
               /\ \A e \in V : Cardinality({v \in V : Turn(v) < Turn(e)}) = Place(TurnOrder, Turns(F), Turn(e))
<1> DEFINE V == DedupeEvents(E)
           g == [v \in V |-> Turn(v)]
<1>1. /\ V \subseteq F
      /\ \A f \in F : \E e \in V : Turn(e) = Turn(f)
      /\ \A e, f \in V : Turn(e) = Turn(f) => e = f
  BY Deduped
<1>2. \A e \in F : Turn(e) \in Int
  BY TurnOfEvent DEF EventsKnown
<1>3. IsFiniteSet(V)
  BY <1>1, FS_Subset DEF EventsKnown
<1>4. Turns(F) = {Turn(v) : v \in V}
  BY <1>1 DEF Turns
<1> HIDE DEF V
<1>5. g \in Surjection(V, Turns(F))
  BY <1>4 DEF Surjection
<1>6. g \in Injection(V, Turns(F))
  BY <1>1, <1>4 DEF Injection, IsInjective
<1>7. Cardinality(V) = Cardinality(Turns(F))
  <2> HIDE DEF g
  <2> QED BY <1>3, <1>5, <1>6, FS_Surjection
<1>8. ASSUME NEW e \in V
      PROVE  Cardinality({v \in V : Turn(v) < Turn(e)}) = Place(TurnOrder, Turns(F), Turn(e))
  <2> DEFINE S == {v \in V : Turn(v) < Turn(e)}
             Q == {m \in Turns(F) : <<m, Turn(e)>> \in TurnOrder}
             h == [v \in S |-> Turn(v)]
  <2>1. \A v \in V : Turn(v) < Turn(e) <=> <<Turn(v), Turn(e)>> \in TurnOrder
    BY <1>1, <1>2 DEF TurnOrder
  <2>2. h \in Surjection(S, Q)
    BY <1>4, <2>1 DEF Surjection
  <2>3. h \in Injection(S, Q)
    BY <1>1, <1>4, <2>1 DEF Injection, IsInjective
  <2>4. IsFiniteSet(S)
    BY <1>3, FS_Subset
  <2>5. Cardinality(S) = Cardinality(Q)
    <3> HIDE DEF S, Q, h
    <3> QED BY <2>2, <2>3, <2>4, FS_Surjection
  <2> QED BY <2>5 DEF Place
<1> QED BY <1>3, <1>7, <1>8 DEF V

LEMMA TurnsFinite ==
    ASSUME NEW F, EventsKnown(F)
    PROVE  IsFiniteSet(Turns(F)) /\ Turns(F) \in SUBSET Int
<1> DEFINE g == [e \in F |-> Turn(e)]
<1>1. g \in Surjection(F, Turns(F))
  BY DEF Surjection, Turns
<1>2. IsFiniteSet(Turns(F))
  <2> HIDE DEF g
  <2> QED BY <1>1, FS_Surjection DEF EventsKnown
<1>3. \A e \in F : Turn(e) \in Int
  BY TurnOfEvent DEF EventsKnown
<1> QED BY <1>2, <1>3 DEF Turns

\* What is on a page, and that the last page leaves nothing.
LEMMA PageOfEvents ==
    ASSUME NEW F, EventsKnown(F), NEW E \in SUBSET F, \A f \in F : \E e \in E : Tells(e, f),
           NEW skip \in Nat, NEW V, V = DedupeEvents(E),
           NEW data \in PagesOf(V, Limit, skip, [e \in V |-> Turn(e)])
    PROVE  LET P(e) == Place(TurnOrder, Turns(F), Turn(e))
           IN  /\ data \subseteq F
               /\ \A e \in data : skip <= P(e) /\ P(e) < skip + Limit
               /\ \A e, f \in data : Turn(e) = Turn(f) => e = f
               /\ \A f \in F : skip <= P(f) =>
                    \/ \E e \in data : Turn(e) = Turn(f)
                    \/ skip + Limit <= P(f) /\ ~(skip + Cardinality(data) >= Cardinality(V))
<1> DEFINE P(e) == Place(TurnOrder, Turns(F), Turn(e))
           turn == [e \in V |-> Turn(e)]
           last == skip + Limit - 1
           q == [e \in data |-> P(e)]
<1>1. /\ V \subseteq F
      /\ \A f \in F : \E e \in V : Turn(e) = Turn(f)
      /\ \A e, f \in V : Turn(e) = Turn(f) => e = f
  BY Deduped
<1>2. /\ IsFiniteSet(V) /\ Cardinality(V) = Cardinality(Turns(F))
      /\ \A e \in V : Cardinality({v \in V : Turn(v) < Turn(e)}) = P(e)
  BY DedupedPlaces
<1>3. Limit \in Nat \ {0}
  BY ActivityAssumption
<1>4. IsFiniteSet(Turns(F)) /\ Turns(F) \in SUBSET Int /\ RankedBy(TurnOrder, Turns(F))
  BY TurnsFinite, TurnsRanked
<1>5. \A f \in F : Turn(f) \in Turns(F)
  BY DEF Turns
<1>6. \A f \in F : P(f) \in Nat /\ P(f) < Cardinality(V)
  BY <1>2, <1>4, <1>5, PlaceType DEF RankedBy
<1>7. data = {e \in V : skip <= P(e) /\ P(e) < skip + Limit}
  <2>1. turn \in [V -> Int] /\ \A e \in V : turn[e] = Turn(e)
    BY <1>1, <1>4, <1>5
  <2>2. \A e, f \in V : turn[e] = turn[f] => e = f
    BY <1>1, <2>1
  <2>3. data \in PagesOf(V, Limit, skip, turn)
    OBVIOUS
  <2> HIDE DEF turn
  <2>4. data = {x \in V : /\ skip <= Cardinality({v \in V : turn[v] < turn[x]})
                          /\ Cardinality({v \in V : turn[v] < turn[x]}) < skip + Limit}
    BY <1>2, <1>3, <2>1, <2>2, <2>3, PagesAre
  <2>5. \A x \in V : {v \in V : turn[v] < turn[x]} = {v \in V : Turn(v) < Turn(x)}
    BY <2>1
  <2>6. \A x \in V : Cardinality({v \in V : turn[v] < turn[x]}) = P(x)
    BY <1>2, <2>5
  <2> HIDE DEF P
  <2> QED BY <2>4, <2>6
<1>8. \A e, f \in V : P(e) = P(f) => e = f
  <2> SUFFICES ASSUME NEW e \in V, NEW f \in V, P(e) = P(f), e # f PROVE FALSE
      OBVIOUS
  <2>1. Turn(e) \in Turns(F) /\ Turn(f) \in Turns(F) /\ Turn(e) # Turn(f)
    BY <1>1, <1>5
  <2>2. <<Turn(e), Turn(f)>> \in TurnOrder \/ <<Turn(f), Turn(e)>> \in TurnOrder
    BY <1>4, <2>1 DEF RankedBy, InOrderBy
  <2>3. P(e) < P(f) \/ P(f) < P(e)
    BY <1>4, <2>1, <2>2, PlacesGrow
  <2>4. P(e) \in Nat /\ P(f) \in Nat
    BY <1>1, <1>6
  <2> HIDE DEF P
  <2> QED BY <2>3, <2>4
<1> HIDE DEF P
<1>9. q \in Injection(data, skip .. last)
  <2>1. \A e \in data : e \in V /\ P(e) \in Nat /\ skip <= P(e) /\ P(e) < skip + Limit
    BY <1>1, <1>6, <1>7
  <2>2. \A e \in data : P(e) \in skip .. last
    BY <1>3, <2>1
  <2> HIDE DEF last
  <2> QED BY <1>8, <2>1, <2>2 DEF Injection, IsInjective
<1>10. Cardinality(data) \in Nat /\ Cardinality(data) <= Limit
  <2>1. last \in Int /\ skip \in Int /\ ~(skip > last) /\ last - skip + 1 = Limit
    BY <1>3
  <2> HIDE DEF q, last
  <2>2. IsFiniteSet(skip .. last) /\ Cardinality(skip .. last) = Limit
    BY <2>1, FS_Interval
  <2>3. IsFiniteSet(data) /\ Cardinality(data) <= Cardinality(skip .. last)
    BY <1>9, <2>2, FS_Injection
  <2> QED BY <2>2, <2>3, FS_CardinalityType
<1>11. Cardinality(V) \in Nat
  BY <1>2, FS_CardinalityType
<1>12. ASSUME NEW f \in F, skip <= P(f)
       PROVE  \/ \E e \in data : Turn(e) = Turn(f)
              \/ skip + Limit <= P(f) /\ ~(skip + Cardinality(data) >= Cardinality(V))
  <2>1. PICK e \in V : Turn(e) = Turn(f)
    BY <1>1
  <2>2. P(e) = P(f) /\ P(f) \in Nat /\ P(f) < Cardinality(V)
    BY <1>6, <2>1 DEF P
  <2>3. CASE P(f) < skip + Limit
    BY <1>7, <1>12, <2>1, <2>2, <2>3
  <2>4. CASE ~(P(f) < skip + Limit)
    <3>1. skip + Limit <= P(f)
      BY <1>3, <2>2, <2>4
    <3>2. skip + Cardinality(data) < Cardinality(V)
      BY <1>3, <1>10, <1>11, <2>2, <3>1
    <3> QED BY <1>10, <1>11, <3>1, <3>2
  <2> QED BY <2>3, <2>4
<1>13. /\ data \subseteq F
       /\ \A e \in data : skip <= P(e) /\ P(e) < skip + Limit
       /\ \A e, f \in data : Turn(e) = Turn(f) => e = f
  BY <1>1, <1>7
<1> QED BY <1>12, <1>13 DEF P

-----------------------------------------------------------------------------
(* Activity: the facts there are. *)

OrderRow == [id : Nat, at : Nat, good : Goods, owner : {Me, Peer}, buyer : SUBSET {Me, Peer}, until : Nat]
TradeRow == [id : Nat, at : Nat, good : Goods, signer : {Me, Peer}, bid : BOOLEAN,
             state : {"open", "closed", "over"}]

DealsTyped ==
  /\ deals \in Nat /\ now \in Nat /\ holder \in [Goods -> {Me, Peer}]
  /\ IsFiniteSet(sales) /\ IsFiniteSet(legacy) /\ IsFiniteSet(bids) /\ IsFiniteSet(trades)
  /\ \A r \in sales \cup bids : r.at \in Nat
  /\ legacy \subseteq OrderRow /\ trades \subseteq TradeRow

LEMMA SevenKinds ==
  /\ Sources = <<"sale_buyer", "sale_seller", "bid_placed", "bid_received",
                 "order_created", "order_filled", "trade_created">>
  /\ EventKinds = {"sale_buyer", "sale_seller", "bid_placed", "bid_received",
                   "order_created", "order_filled", "trade_created"}
<1>1. DOMAIN Sources = 1 .. 7
  BY DEF Sources
<1>2. 1 .. 7 = {1, 2, 3, 4, 5, 6, 7}
  OBVIOUS
<1>3. EventKinds = {Sources[1], Sources[2], Sources[3], Sources[4], Sources[5], Sources[6], Sources[7]}
  BY <1>1, <1>2 DEF EventKinds
<1> QED BY <1>3 DEF Sources

LEMMA RowsAreDeals ==
    ASSUME NEW type \in EventKinds
    PROVE  /\ RowsOfSource(type) \subseteq sales \cup legacy \cup bids \cup trades
           /\ type = "order_filled" => RowsOfSource(type) \subseteq legacy
<1>1. /\ \A role : SalesAs(role) \subseteq sales
      /\ \A role : BidsAs(role) \subseteq bids \cup trades
      /\ OrdersAsOwner \subseteq legacy \cup trades
      /\ OrdersAsBuyer \subseteq legacy
      /\ TradesOf \subseteq trades
  BY DEF SalesAs, BidsAs, BidTrades, LegacyBids, OrdersAsOwner, OrdersAsBuyer, LegacyOf, TradesOf
<1>2. CASE type = "sale_buyer"
  BY <1>1, <1>2 DEF RowsOfSource
<1>3. CASE type = "sale_seller"
  BY <1>1, <1>3 DEF RowsOfSource
<1>4. CASE type = "bid_placed"
  BY <1>1, <1>4 DEF RowsOfSource
<1>5. CASE type = "bid_received"
  BY <1>1, <1>5 DEF RowsOfSource
<1>6. CASE type = "order_created"
  BY <1>1, <1>6 DEF RowsOfSource
<1>7. CASE type = "order_filled"
  BY <1>1, <1>7 DEF RowsOfSource
<1>8. CASE type = "trade_created"
  BY <1>1, <1>8 DEF RowsOfSource
<1> QED BY <1>2, <1>3, <1>4, <1>5, <1>6, <1>7, <1>8, SevenKinds

LEMMA RowsTyped ==
    ASSUME DealsTyped, NEW type \in EventKinds
    PROVE  /\ IsFiniteSet(RowsOfSource(type))
           /\ \A row \in RowsOfSource(type) : /\ row.at \in Nat
                                              /\ type = "order_filled" => row.until \in Nat
<1>1. IsFiniteSet(sales \cup legacy \cup bids \cup trades)
  BY FS_Union DEF DealsTyped
<1>2. IsFiniteSet(RowsOfSource(type))
  BY <1>1, RowsAreDeals, FS_Subset
<1>3. /\ \A r \in sales \cup legacy \cup bids \cup trades : r.at \in Nat
      /\ \A r \in legacy : r.until \in Nat
  BY DEF DealsTyped, OrderRow, TradeRow
<1> QED BY <1>2, <1>3, RowsAreDeals

LEMMA AnswersAreRows == \A type : \A R \in Answers(type) : R \subseteq RowsOfSource(type)
BY DEF Answers, PagesOf

LEMMA EventFields ==
    ASSUME NEW type, NEW row
    PROVE  /\ Event(type, row).type = type /\ Event(type, row).id = row.id
           /\ Event(type, row).at = IF type = "order_filled" THEN row.until ELSE row.at
           /\ Event(type, row).tx = IF type \in SaleKinds THEN {<<row.id, row.at>>} ELSE {}
BY DEF Event

LEMMA FactOfRow ==
    ASSUME NEW e \in Facts
    PROVE  /\ e.type \in EventKinds
           /\ \E row \in RowsOfSource(e.type) : e = Event(e.type, row)
<1>1. PICK type \in EventKinds : e \in EventsOf(type, UNION Answers(type))
  BY DEF Facts
<1>2. PICK row \in UNION Answers(type) : e = Event(type, row)
  BY <1>1 DEF EventsOf
<1>3. row \in RowsOfSource(type)
  BY <1>2, AnswersAreRows
<1> QED BY <1>2, <1>3, EventFields

LEMMA FactsFinite == DealsTyped => IsFiniteSet(Facts)
<1> SUFFICES ASSUME DealsTyped PROVE IsFiniteSet(Facts)
    OBVIOUS
<1> DEFINE Told(type) == EventsOf(type, UNION Answers(type))
<1>1. ASSUME NEW type \in EventKinds PROVE IsFiniteSet(Told(type))
  <2> DEFINE R == {r \in UNION Answers(type) : type = "bid_received" => r.signer # Me}
             g == [row \in R |-> Event(type, row)]
  <2>1. IsFiniteSet(R)
    BY AnswersAreRows, RowsTyped, FS_Subset
  <2>2. g \in Surjection(R, Told(type))
    BY DEF Surjection, EventsOf
  <2> HIDE DEF g, R
  <2> QED BY <2>1, <2>2, FS_Surjection
<1>2. Facts = (Told("sale_buyer") \cup Told("sale_seller") \cup Told("bid_placed"))
              \cup (Told("bid_received") \cup Told("order_created") \cup Told("order_filled")
                    \cup Told("trade_created"))
  <2>1. Facts = UNION {Told(type) : type \in EventKinds}
    BY DEF Facts
  <2> HIDE DEF Told
  <2> QED BY <2>1, SevenKinds
<1>3. /\ IsFiniteSet(Told("sale_buyer")) /\ IsFiniteSet(Told("sale_seller"))
      /\ IsFiniteSet(Told("bid_placed")) /\ IsFiniteSet(Told("bid_received"))
      /\ IsFiniteSet(Told("order_created")) /\ IsFiniteSet(Told("order_filled"))
      /\ IsFiniteSet(Told("trade_created"))
  BY <1>1, SevenKinds
<1> HIDE DEF Told
<1>4. IsFiniteSet(Told("sale_buyer") \cup Told("sale_seller") \cup Told("bid_placed"))
  BY <1>3, FS_Union
<1>5. IsFiniteSet(Told("bid_received") \cup Told("order_created") \cup Told("order_filled")
                  \cup Told("trade_created"))
  BY <1>3, FS_Union
<1> QED BY <1>2, <1>4, <1>5, FS_Union

\* Rows of one query that have one time tell the same, unless they tie.
LEMMA RowsUntied ==
    ASSUME ~RowsTie, NEW type \in EventKinds, NEW r \in RowsOfSource(type), NEW s \in RowsOfSource(type),
           r.at = s.at \/ (type = "order_filled" /\ r.until = s.until)
    PROVE  Tells(Event(type, r), Event(type, s)) /\ (type \notin SaleKinds => r = s)
<1>1. r = s \/ (type \in SaleKinds /\ r.id = s.id)
  BY DEF RowsTie
<1>2. CASE r = s
  BY <1>2, EventFields DEF Tells
<1>3. CASE r # s
  <2>1. type \in SaleKinds /\ r.id = s.id
    BY <1>1, <1>3
  <2>2. r.at = s.at
    BY <2>1 DEF SaleKinds
  <2>3. /\ Event(type, r).tx = {<<r.id, r.at>>} /\ Event(type, s).tx = {<<s.id, s.at>>}
        /\ Event(type, r).type = Event(type, s).type
    BY <2>1 DEF Event
  <2>4. Event(type, r).tx # {} /\ Event(type, r).tx = Event(type, s).tx
    BY <2>1, <2>2, <2>3
  <2> QED BY <2>1, <2>3, <2>4 DEF Tells
<1> QED BY <1>2, <1>3

LEMMA FactsKnown == DealsTyped /\ ~RowsTie => EventsKnown(Facts)
<1> SUFFICES ASSUME DealsTyped, ~RowsTie PROVE EventsKnown(Facts)
    OBVIOUS
<1>1. ASSUME NEW e \in Facts PROVE EventOk(e)
  <2>1. e.type \in EventKinds
    BY FactOfRow
  <2>2. PICK row \in RowsOfSource(e.type) : e = Event(e.type, row)
    BY FactOfRow
  <2>3. /\ e.id = row.id /\ e.at = IF e.type = "order_filled" THEN row.until ELSE row.at
        /\ e.tx = IF e.type \in SaleKinds THEN {<<row.id, row.at>>} ELSE {}
    BY <2>2 DEF Event
  <2>4. row.at \in Nat /\ (e.type = "order_filled" => row.until \in Nat)
    BY <2>1, RowsTyped
  <2>5. e.type \in SaleKinds => e.at = row.at
    BY <2>3 DEF SaleKinds
  <2> QED BY <2>1, <2>3, <2>4, <2>5 DEF EventOk
<1>2. ASSUME NEW e \in Facts, NEW f \in Facts, Turn(e) = Turn(f) PROVE Tells(e, f)
  <2>1. e.type = f.type /\ e.at = f.at /\ e.type \in EventKinds
    BY <1>1, <1>2, TurnOfEvent, FactOfRow
  <2>2. PICK r \in RowsOfSource(e.type) : e = Event(e.type, r)
    BY FactOfRow
  <2>3. PICK s \in RowsOfSource(f.type) : f = Event(f.type, s)
    BY FactOfRow
  <2>4. r.at = s.at \/ (e.type = "order_filled" /\ r.until = s.until)
    <3>1. e.at = IF e.type = "order_filled" THEN r.until ELSE r.at
      BY <2>2 DEF Event
    <3>2. f.at = IF f.type = "order_filled" THEN s.until ELSE s.at
      BY <2>3 DEF Event
    <3> QED BY <2>1, <3>1, <3>2
  <2>5. s \in RowsOfSource(e.type) /\ f = Event(e.type, s)
    BY <2>1, <2>3
  <2>6. Tells(Event(e.type, r), Event(e.type, s))
    BY <2>1, <2>4, <2>5, RowsUntied
  <2> QED BY <2>2, <2>5, <2>6
<1> QED BY <1>1, <1>2, FactsFinite DEF EventsKnown

\* Whatever the queries cut of rows that tie, what they tell is the same but for ties.
LEMMA FetchedTellsAll ==
    ASSUME DealsTyped, ~RowsTie, NEW type \in EventKinds, NEW E \in Fetched(type)
    PROVE  /\ E \subseteq EventsOf(type, UNION Answers(type))
           /\ \A f \in EventsOf(type, UNION Answers(type)) : \E e \in E : Tells(e, f)
<1>1. PICK R \in Answers(type) : E = EventsOf(type, R)
  BY DEF Fetched
<1>2. E \subseteq EventsOf(type, UNION Answers(type))
  BY <1>1 DEF EventsOf
<1>3. ASSUME NEW f \in EventsOf(type, UNION Answers(type)) PROVE \E e \in E : Tells(e, f)
  <2>1. PICK s \in UNION Answers(type) : f = Event(type, s) /\ (type = "bid_received" => s.signer # Me)
    BY DEF EventsOf
  <2>2. PICK S \in Answers(type) : s \in S
    BY <2>1
  <2> DEFINE all == RowsOfSource(type)
             turn == [row \in all |-> now - row.at]
  <2>3. S \in PagesOf(all, FetchCap, 0, turn) /\ R \in PagesOf(all, FetchCap, 0, turn)
    BY DEF Answers
  <2>4. s \in all /\ R \subseteq all
    BY <2>2, AnswersAreRows
  <2>0. IsFiniteSet(all)
    BY RowsTyped
  <2> HIDE DEF all, turn
  <2>5. PICK r \in R : turn[r] = turn[s]
    <3>1. \A P, Q \in PagesOf(all, FetchCap, 0, turn) : \A x \in P : \E y \in Q : turn[y] = turn[x]
      BY <2>0, PagesShare
    <3> QED BY <2>2, <2>3, <3>1
  <2>6. r \in all
    BY <2>4, <2>5
  <2>7. now - r.at = now - s.at
    BY <2>4, <2>5, <2>6 DEF turn
  <2>8. r.at \in Nat /\ s.at \in Nat /\ now \in Nat
    BY <2>4, <2>6, RowsTyped DEF all, DealsTyped
  <2>9. r.at = s.at
    BY <2>7, <2>8
  <2>10. Tells(Event(type, r), Event(type, s)) /\ (type \notin SaleKinds => r = s)
    BY <2>4, <2>6, <2>9, RowsUntied DEF all
  <2>11. type = "bid_received" => r.signer # Me
    BY <2>1, <2>10 DEF SaleKinds
  <2>12. Event(type, r) \in E
    BY <1>1, <2>5, <2>11 DEF EventsOf
  <2> QED BY <2>1, <2>10, <2>12
<1> QED BY <1>2, <1>3

LEMMA AllTold ==
    ASSUME DealsTyped, ~RowsTie, NEW E \in AllFetched
    PROVE  E \subseteq Facts /\ \A f \in Facts : \E e \in E : Tells(e, f)
<1> DEFINE Told(type) == EventsOf(type, UNION Answers(type))
           Of(type, G) == G \subseteq E /\ G \subseteq Told(type) /\ \A f \in Told(type) : \E e \in G : Tells(e, f)
<1>1. PICK E1 \in Fetched("sale_buyer"), E2 \in Fetched("sale_seller"),
           E3 \in Fetched("bid_placed"), E4 \in Fetched("bid_received"),
           E5 \in Fetched("order_created"), E6 \in Fetched("order_filled"),
           E7 \in Fetched("trade_created") :
           E = E1 \cup E2 \cup E3 \cup E4 \cup E5 \cup E6 \cup E7
  BY DEF AllFetched
<1>2. /\ Of("sale_buyer", E1) /\ Of("sale_seller", E2) /\ Of("bid_placed", E3) /\ Of("bid_received", E4)
      /\ Of("order_created", E5) /\ Of("order_filled", E6) /\ Of("trade_created", E7)
  <2>1. \A type \in EventKinds : \A G \in Fetched(type) : G \subseteq E => Of(type, G)
    BY FetchedTellsAll
  <2> HIDE DEF Of
  <2> QED BY <1>1, <2>1, SevenKinds
<1>3. Facts = UNION {Told(type) : type \in EventKinds}
  BY DEF Facts
<1> HIDE DEF Told
<1>4. E \subseteq Facts
  <2>1. \A G : (\E type \in EventKinds : Of(type, G)) => G \subseteq Facts
    BY <1>3
  <2> HIDE DEF Of
  <2>2. /\ E1 \subseteq Facts /\ E2 \subseteq Facts /\ E3 \subseteq Facts /\ E4 \subseteq Facts
        /\ E5 \subseteq Facts /\ E6 \subseteq Facts /\ E7 \subseteq Facts
    BY <1>2, <2>1, SevenKinds
  <2> QED BY <1>1, <2>2
<1>5. ASSUME NEW f \in Facts PROVE \E e \in E : Tells(e, f)
  <2>1. PICK type \in EventKinds : f \in Told(type)
    BY <1>3
  <2>2. \E G : Of(type, G)
    <3> HIDE DEF Of
    <3> QED BY <1>2, <2>1, SevenKinds
  <2> QED BY <2>1, <2>2
<1> QED BY <1>4, <1>5

-----------------------------------------------------------------------------
(* Activity: the deals, and the client between them. *)

DealAction ==
  \/ \E g \in Goods : PlaceLegacyOrder(g) \/ PlaceLegacyBid(g) \/ \E u \in {Me, Peer} : SignTrade(g, u)
  \/ \E o \in legacy : ExecuteOrder(o)
  \/ \E t \in trades : EndTrade(t)
  \/ \E o \in legacy : Lapse({o}, {})
  \/ \E b \in bids : Lapse({}, {b})
  \/ RefreshShown
  \/ \E T \in SUBSET trades : AcceptTrades(T)

LEMMA OneMore ==
    ASSUME NEW S, NEW x, IsFiniteSet(S)
    PROVE  IsFiniteSet(S \cup {x})
BY FS_AddElement

\* What a step does that adds no sale and moves no token.
LEMMA CountersKeep ==
    ASSUME DealsTyped, Deal
    PROVE  deals' \in Nat /\ now' \in Nat
BY DEF DealsTyped, Deal

LEMMA SellKeeps ==
    ASSUME DealsTyped, Deal, NEW S, IsFiniteSet(S), Sell(S)
    PROVE  /\ IsFiniteSet(sales') /\ holder' \in [Goods -> {Me, Peer}]
           /\ \A r \in sales' : r.at \in Nat
<1> DEFINE new == {SaleOf(g) : g \in S}
           h == [g \in S |-> SaleOf(g)]
<1>1. h \in Surjection(S, new)
  BY DEF Surjection
<1>2. IsFiniteSet(new)
  <2> HIDE DEF h, new
  <2> QED BY <1>1, FS_Surjection
<1>3. \A r \in new : r.at \in Nat
  BY CountersKeep DEF SaleOf
<1>4. sales' = sales \cup new
  BY DEF Sell
<1>5. \A u : Other(u) \in {Me, Peer}
  BY DEF Other
<1>6. holder' \in [Goods -> {Me, Peer}]
  BY <1>5 DEF Sell, DealsTyped
<1> HIDE DEF new
<1> QED BY <1>2, <1>3, <1>4, <1>6, FS_Union DEF DealsTyped

LEMMA RowsChanged ==
  /\ \A o \in OrderRow : \A b \in SUBSET {Me, Peer} : \A n \in Nat :
       [o EXCEPT !.buyer = b, !.until = n] \in OrderRow
  /\ \A t \in TradeRow : \A s \in {"open", "closed", "over"} : [t EXCEPT !.state = s] \in TradeRow
BY DEF OrderRow, TradeRow

LEMMA DealsKeepTyped ==
    ASSUME DealsTyped, DealAction
    PROVE  DealsTyped' /\ pages' = WatchedPages /\ pages.at # "done"
<1>1. ASSUME NEW g \in Goods, PlaceLegacyOrder(g)
      PROVE  DealsTyped' /\ pages' = WatchedPages /\ pages.at # "done"
  <2> DEFINE o == [id |-> deals', at |-> now', good |-> g, owner |-> holder[g],
                   buyer |-> {}, until |-> now']
  <2>1. /\ Deal /\ legacy' = legacy \cup {o} /\ UNCHANGED <<holder, sales, bids, trades, shown>>
        /\ pages' = WatchedPages
    BY <1>1 DEF PlaceLegacyOrder
  <2>2. deals' \in Nat /\ now' \in Nat /\ holder[g] \in {Me, Peer}
    BY <2>1, CountersKeep DEF DealsTyped
  <2>3. o \in OrderRow
    BY <2>2 DEF OrderRow
  <2> HIDE DEF o
  <2> QED BY <2>1, <2>2, <2>3, OneMore DEF DealsTyped, Deal
<1>2. ASSUME NEW g \in Goods, PlaceLegacyBid(g)
      PROVE  DealsTyped' /\ pages' = WatchedPages /\ pages.at # "done"
  <2> DEFINE b == [id |-> deals', at |-> now', good |-> g,
                   signer |-> Other(holder[g]), seller |-> holder[g]]
  <2>1. /\ Deal /\ bids' = bids \cup {b} /\ UNCHANGED <<holder, sales, legacy, trades, shown>>
        /\ pages' = WatchedPages
    BY <1>2 DEF PlaceLegacyBid
  <2>2. deals' \in Nat /\ now' \in Nat
    BY <2>1, CountersKeep
  <2>3. b.at \in Nat
    BY <2>2
  <2> HIDE DEF b
  <2> QED BY <2>1, <2>2, <2>3, OneMore DEF DealsTyped, Deal
<1>3. ASSUME NEW g \in Goods, NEW u \in {Me, Peer}, SignTrade(g, u)
      PROVE  DealsTyped' /\ pages' = WatchedPages /\ pages.at # "done"
  <2> DEFINE t == [id |-> deals', at |-> now', good |-> g, signer |-> u,
                   bid |-> u # holder[g], state |-> "open"]
  <2>1. /\ Deal /\ trades' = trades \cup {t} /\ UNCHANGED <<holder, sales, legacy, bids, shown>>
        /\ pages' = WatchedPages
    BY <1>3 DEF SignTrade
  <2>2. deals' \in Nat /\ now' \in Nat
    BY <2>1, CountersKeep
  <2>3. t \in TradeRow
    BY <2>2 DEF TradeRow
  <2> HIDE DEF t
  <2> QED BY <2>1, <2>2, <2>3, OneMore DEF DealsTyped, Deal
<1>4. ASSUME NEW o \in legacy, ExecuteOrder(o)
      PROVE  DealsTyped' /\ pages' = WatchedPages /\ pages.at # "done"
  <2> DEFINE p == [o EXCEPT !.buyer = {Other(o.owner)}, !.until = now']
  <2>1. /\ Deal /\ UNCHANGED <<bids, trades, shown>> /\ Sell({o.good}) /\ pages' = WatchedPages
        /\ legacy' = (legacy \ {o}) \cup {p}
    BY <1>4 DEF ExecuteOrder
  <2>2. deals' \in Nat /\ now' \in Nat
    BY <2>1, CountersKeep
  <2>3. p \in OrderRow
    <3>1. {Other(o.owner)} \in SUBSET {Me, Peer}
      BY DEF Other
    <3>2. o \in OrderRow
      BY DEF DealsTyped
    <3> QED BY <2>2, <3>1, <3>2, RowsChanged
  <2> HIDE DEF p
  <2>4. /\ IsFiniteSet(sales') /\ holder' \in [Goods -> {Me, Peer}]
        /\ \A r \in sales' : r.at \in Nat
    BY <2>1, FS_Singleton, SellKeeps
  <2>5. IsFiniteSet(legacy')
    <3>1. IsFiniteSet(legacy \ {o})
      BY FS_RemoveElement DEF DealsTyped
    <3> QED BY <2>1, <3>1, OneMore
  <2> QED BY <2>1, <2>2, <2>3, <2>4, <2>5 DEF DealsTyped, Deal
<1>5. ASSUME NEW T \in SUBSET trades, AcceptTrades(T)
      PROVE  DealsTyped' /\ pages' = WatchedPages /\ pages.at # "done"
  <2> DEFINE goods == {t.good : t \in T}
             closed == {[t EXCEPT !.state = "closed"] : t \in T}
             f == [t \in T |-> t.good]
             h == [t \in T |-> [t EXCEPT !.state = "closed"]]
  <2>1. /\ Deal /\ UNCHANGED <<legacy, bids, shown>> /\ Sell(goods) /\ pages' = WatchedPages
        /\ trades' = (trades \ T) \cup closed
    BY <1>5 DEF AcceptTrades
  <2>2. deals' \in Nat /\ now' \in Nat
    BY <2>1, CountersKeep
  <2>3. closed \subseteq TradeRow
    <3>1. \A t \in T : t \in TradeRow
      BY DEF DealsTyped
    <3> QED BY <3>1, RowsChanged
  <2>4. f \in Surjection(T, goods) /\ h \in Surjection(T, closed)
    BY DEF Surjection
  <2> HIDE DEF goods, closed, f, h
  <2>5. IsFiniteSet(T)
    BY FS_Subset DEF DealsTyped
  <2>6. IsFiniteSet(goods) /\ IsFiniteSet(closed)
    BY <2>4, <2>5, FS_Surjection
  <2>7. /\ IsFiniteSet(sales') /\ holder' \in [Goods -> {Me, Peer}]
        /\ \A r \in sales' : r.at \in Nat
    BY <2>1, <2>6, SellKeeps
  <2>8. IsFiniteSet(trades')
    <3>1. IsFiniteSet(trades \ T)
      BY FS_Subset DEF DealsTyped
    <3> QED BY <2>1, <2>6, <3>1, FS_Union
  <2> QED BY <2>1, <2>2, <2>3, <2>7, <2>8 DEF DealsTyped, Deal
<1>6. ASSUME NEW t \in trades, EndTrade(t)
      PROVE  DealsTyped' /\ pages' = WatchedPages /\ pages.at # "done"
  <2>1. PICK s \in {"closed", "over"} : trades' = (trades \ {t}) \cup {[t EXCEPT !.state = s]}
    BY <1>6 DEF EndTrade
  <2>2. Deal /\ UNCHANGED <<holder, sales, legacy, bids, shown>> /\ pages' = WatchedPages
    BY <1>6 DEF EndTrade
  <2>3. deals' \in Nat /\ now' \in Nat
    BY <2>2, CountersKeep
  <2>4. [t EXCEPT !.state = s] \in TradeRow
    <3>1. t \in TradeRow
      BY DEF DealsTyped
    <3> QED BY <3>1, RowsChanged
  <2>5. IsFiniteSet(trades')
    <3>1. IsFiniteSet(trades \ {t})
      BY FS_RemoveElement DEF DealsTyped
    <3> QED BY <2>1, <3>1, OneMore
  <2> QED BY <2>1, <2>2, <2>3, <2>4, <2>5 DEF DealsTyped, Deal
<1>7. ASSUME NEW o, NEW b, Lapse(o, b)
      PROVE  DealsTyped' /\ pages' = WatchedPages /\ pages.at # "done"
  <2>1. /\ Deal /\ legacy' = legacy \ o /\ bids' = bids \ b
        /\ UNCHANGED <<holder, sales, trades, shown>> /\ pages' = WatchedPages
    BY <1>7 DEF Lapse
  <2>2. deals' \in Nat /\ now' \in Nat
    BY <2>1, CountersKeep
  <2>3. IsFiniteSet(legacy \ o) /\ IsFiniteSet(bids \ b)
    BY FS_Subset DEF DealsTyped
  <2> QED BY <2>1, <2>2, <2>3 DEF DealsTyped, Deal
<1>8. ASSUME RefreshShown PROVE DealsTyped' /\ pages' = WatchedPages /\ pages.at # "done"
  BY <1>8 DEF RefreshShown, DealsTyped
<1> QED BY <1>1, <1>2, <1>3, <1>4, <1>5, <1>6, <1>7, <1>8 DEF DealAction

\* Where the turn of an event is, among those of the facts.
PlaceOfTurn(e) == Place(TurnOrder, Turns(Facts), Turn(e))

\* A client that lost nothing has yet to come to what it was not told.
NothingMissed ==
  /\ pages.kept \subseteq Facts
  /\ \A fact \in pages.kept :
       (\E g \in pages.got : Tells(g.event, fact)) \/ pages.offset <= PlaceOfTurn(fact)
\* What a client was told is behind its offset, or gone.
NothingAgain ==
  /\ \A g \in pages.got : EventOk(g.event)
  /\ \A g \in pages.got : Turn(g.event) \notin Turns(Facts) \/ PlaceOfTurn(g.event) < pages.offset
  /\ \A g, h \in pages.got : Tells(g.event, h.event) => g = h

PagesTyped ==
  \/ pages = NoPages
  \/ /\ pages.at \in {"reading", "done"} /\ pages.offset \in Nat
     /\ pages.left \in BOOLEAN /\ pages.came \in BOOLEAN /\ pages.failed \in BOOLEAN
     /\ pages.tied \in BOOLEAN
     /\ pages = [at |-> pages.at, offset |-> pages.offset, got |-> pages.got, kept |-> pages.kept,
                 left |-> pages.left, came |-> pages.came, failed |-> pages.failed, tied |-> pages.tied]

ActivityInv ==
  /\ DealsTyped /\ PagesTyped
  /\ pages.at = "reading" /\ ~pages.failed /\ ~pages.tied =>
       ~RowsTie /\ (~pages.left => NothingMissed) /\ (~pages.came => NothingAgain)
  /\ ActivityTold

LEMMA InitActivity == ActivityInit => ActivityInv
<1> SUFFICES ASSUME ActivityInit PROVE ActivityInv
    OBVIOUS
<1>1. pages = NoPages /\ pages.at = "idle"
  BY DEF ActivityInit, NoPages
<1>2. DealsTyped
  BY FS_EmptySet DEF ActivityInit, DealsTyped
<1> QED BY <1>1, <1>2 DEF ActivityInv, PagesTyped, ActivityTold

LEMMA KnownAlways == DealsTyped /\ ~RowsTie => EventsKnown(Facts)
BY FactsKnown

\* The facts, and the ties among them, are of the tables alone.
LEMMA SameFacts ==
    ASSUME UNCHANGED <<holder, sales, legacy, bids, trades, shown, deals, now>>
    PROVE  Facts' = Facts /\ RowsTie' = RowsTie /\ DealsTyped' = DealsTyped
<1>1. \A type : RowsOfSource(type)' = RowsOfSource(type)
  BY DEF RowsOfSource, SalesAs, BidsAs, BidTrades, LegacyBids, OrdersAsOwner, OrdersAsBuyer, LegacyOf, TradesOf
<1>2. \A type : Answers(type)' = Answers(type)
  BY <1>1 DEF Answers
<1>3. Facts' = Facts
  BY <1>2 DEF Facts
<1>4. RowsTie' = RowsTie
  BY <1>1 DEF RowsTie
<1>5. DealsTyped' = DealsTyped
  BY DEF DealsTyped
<1> QED BY <1>3, <1>4, <1>5

LEMMA DealsKeepActivity == ActivityInv /\ DealAction => ActivityInv'
<1> SUFFICES ASSUME ActivityInv, DealAction PROVE ActivityInv'
    OBVIOUS
<1>1. DealsTyped' /\ pages' = WatchedPages /\ pages.at # "done"
  BY DealsKeepTyped DEF ActivityInv
<1>2. CASE pages.at # "reading"
  <2>1. pages' = pages
    BY <1>1, <1>2 DEF WatchedPages
  <2> QED BY <1>1, <1>2, <2>1 DEF ActivityInv, PagesTyped, ActivityTold
<1>3. CASE pages.at = "reading"
  <2>1. /\ pages # NoPages
        /\ pages.offset \in Nat /\ pages.left \in BOOLEAN /\ pages.came \in BOOLEAN
        /\ pages.failed \in BOOLEAN /\ pages.tied \in BOOLEAN
        /\ pages = [at |-> pages.at, offset |-> pages.offset, got |-> pages.got, kept |-> pages.kept,
                    left |-> pages.left, came |-> pages.came, failed |-> pages.failed, tied |-> pages.tied]
    BY <1>3 DEF ActivityInv, PagesTyped, NoPages
  <2>2. pages' = [at |-> "reading", offset |-> pages.offset, got |-> pages.got,
                  kept |-> pages.kept \cap Facts', left |-> pages.left \/ ~(Facts \subseteq Facts'),
                  came |-> pages.came \/ ~(Facts' \subseteq Facts), failed |-> pages.failed,
                  tied |-> pages.tied \/ RowsTie']
    <3>1. pages' = [pages EXCEPT !.kept = pages.kept \cap Facts',
                                 !.left = pages.left \/ ~(Facts \subseteq Facts'),
                                 !.came = pages.came \/ ~(Facts' \subseteq Facts),
                                 !.tied = pages.tied \/ RowsTie']
      BY <1>1, <1>3 DEF WatchedPages
    <3> QED BY <1>3, <2>1, <3>1
  <2>3. PagesTyped'
    BY <2>1, <2>2 DEF PagesTyped, RowsTie
  <2>4. ActivityTold'
    BY <2>2 DEF ActivityTold
  <2>5. ASSUME ~pages.failed', ~pages.tied'
        PROVE  ~RowsTie' /\ (~pages.left' => NothingMissed') /\ (~pages.came' => NothingAgain')
    <3>1. ~RowsTie' /\ ~pages.tied /\ ~pages.failed
      BY <2>1, <2>2, <2>5
    <3>2. ~RowsTie /\ (~pages.left => NothingMissed) /\ (~pages.came => NothingAgain)
      BY <1>3, <3>1 DEF ActivityInv
    <3>3. EventsKnown(Facts)
      BY <3>2, FactsKnown DEF ActivityInv
    <3>4. EventsKnown(Facts')
      <4>1. (DealsTyped /\ ~RowsTie => EventsKnown(Facts))'
        BY KnownAlways, PTL
      <4> QED BY <1>1, <3>1, <4>1
    <3>5. IsFiniteSet(Turns(Facts)) /\ IsFiniteSet(Turns(Facts'))
      BY <3>3, <3>4, TurnsFinite
    <3>6. ASSUME ~pages.left' PROVE NothingMissed'
      <4>1. Facts \subseteq Facts' /\ NothingMissed
        BY <2>1, <2>2, <3>2, <3>6
      <4>2. pages'.kept = pages.kept /\ pages'.got = pages.got /\ pages'.offset = pages.offset
        BY <2>2, <4>1 DEF NothingMissed
      <4>3. Turns(Facts) \subseteq Turns(Facts')
        BY <4>1 DEF Turns
      <4>4. \A e : /\ Place(TurnOrder, Turns(Facts), Turn(e)) <= Place(TurnOrder, Turns(Facts'), Turn(e))
                  /\ Place(TurnOrder, Turns(Facts), Turn(e)) \in Nat
                  /\ Place(TurnOrder, Turns(Facts'), Turn(e)) \in Nat
        BY <3>5, <4>3, FewerBefore, PlaceType
      <4>5. ASSUME NEW fact \in pages.kept
            PROVE  \/ \E g \in pages.got : Tells(g.event, fact)
                   \/ pages.offset <= Place(TurnOrder, Turns(Facts'), Turn(fact))
        BY <2>1, <4>1, <4>4 DEF NothingMissed, PlaceOfTurn
      <4> QED BY <4>1, <4>2, <4>5 DEF NothingMissed, PlaceOfTurn
    <3>7. ASSUME ~pages.came' PROVE NothingAgain'
      <4>1. Facts' \subseteq Facts /\ NothingAgain
        BY <2>1, <2>2, <3>2, <3>7
      <4>2. pages'.got = pages.got /\ pages'.offset = pages.offset
        BY <2>2
      <4>3. Turns(Facts') \subseteq Turns(Facts)
        BY <4>1 DEF Turns
      <4>4. \A e : /\ Place(TurnOrder, Turns(Facts'), Turn(e)) <= Place(TurnOrder, Turns(Facts), Turn(e))
                  /\ Place(TurnOrder, Turns(Facts), Turn(e)) \in Nat
                  /\ Place(TurnOrder, Turns(Facts'), Turn(e)) \in Nat
        BY <3>5, <4>3, FewerBefore, PlaceType
      <4>5. ASSUME NEW g \in pages.got
            PROVE  \/ Turn(g.event) \notin Turns(Facts')
                   \/ Place(TurnOrder, Turns(Facts'), Turn(g.event)) < pages.offset
        BY <2>1, <4>1, <4>3, <4>4 DEF NothingAgain, PlaceOfTurn
      <4> QED BY <4>1, <4>2, <4>5 DEF NothingAgain, PlaceOfTurn
    <3> QED BY <3>1, <3>6, <3>7
  <2> QED BY <1>1, <2>2, <2>3, <2>4, <2>5 DEF ActivityInv
<1> QED BY <1>2, <1>3

LEMMA AskKeepsActivity == ActivityInv /\ AskActivity => ActivityInv'
<1> SUFFICES ASSUME ActivityInv, AskActivity PROVE ActivityInv'
    OBVIOUS
<1>1. /\ UNCHANGED <<holder, sales, legacy, bids, trades, shown, deals, now>>
      /\ pages' = [at |-> "reading", offset |-> 0, got |-> {}, kept |-> Facts,
                   left |-> FALSE, came |-> FALSE, failed |-> FALSE, tied |-> RowsTie]
  BY DEF AskActivity
<1>2. DealsTyped' /\ Facts' = Facts /\ RowsTie' = RowsTie
  BY <1>1, SameFacts DEF ActivityInv
<1>3. PagesTyped' /\ ActivityTold'
  BY <1>1 DEF PagesTyped, ActivityTold, RowsTie
<1>4. ASSUME ~RowsTie PROVE NothingMissed' /\ NothingAgain'
  <2>1. EventsKnown(Facts)
    BY <1>4, FactsKnown DEF ActivityInv
  <2>2. \A e \in Facts : Place(TurnOrder, Turns(Facts), Turn(e)) \in Nat
    BY <2>1, TurnsFinite, PlaceType
  <2> QED BY <1>1, <1>2, <2>2 DEF NothingMissed, NothingAgain, PlaceOfTurn
<1>5. pages'.tied = RowsTie
  BY <1>1
<1> QED BY <1>2, <1>3, <1>4, <1>5 DEF ActivityInv

LEMMA ReadKeepsActivity == ActivityInv /\ ReadActivity => ActivityInv'
<1> SUFFICES ASSUME ActivityInv, ReadActivity PROVE ActivityInv'
    OBVIOUS
<1>1. UNCHANGED <<holder, sales, legacy, bids, trades, shown, deals, now>> /\ pages.at = "reading"
  BY DEF ReadActivity
<1>2. DealsTyped' /\ Facts' = Facts /\ RowsTie' = RowsTie
  BY <1>1, SameFacts DEF ActivityInv
<1>3. Limit \in Nat \ {0}
  BY ActivityAssumption
<1>4. PICK E \in AllFetched : \E failed \in Failures(E) :
     LET all == UserActivity(E, failed) IN
     \E data \in PagesOf(all, Limit, pages.offset, [e \in all |-> Turn(e)]) :
       pages' = [pages EXCEPT
                   !.got = @ \cup {[page |-> pages.offset, event |-> e] : e \in data},
                   !.offset = @ + Limit,
                   !.failed = @ \/ failed # {},
                   !.at = IF pages.offset + Cardinality(data) >= Cardinality(all)
                          THEN "done" ELSE @]
  BY DEF ReadActivity
<1>5. PICK failed \in Failures(E) :
     LET all == UserActivity(E, failed) IN
     \E data \in PagesOf(all, Limit, pages.offset, [e \in all |-> Turn(e)]) :
       pages' = [pages EXCEPT
                   !.got = @ \cup {[page |-> pages.offset, event |-> e] : e \in data},
                   !.offset = @ + Limit,
                   !.failed = @ \/ failed # {},
                   !.at = IF pages.offset + Cardinality(data) >= Cardinality(all)
                          THEN "done" ELSE @]
  BY <1>4
<1> DEFINE all == UserActivity(E, failed)
<1>6. PICK data \in PagesOf(all, Limit, pages.offset, [e \in all |-> Turn(e)]) :
       pages' = [pages EXCEPT
                   !.got = @ \cup {[page |-> pages.offset, event |-> e] : e \in data},
                   !.offset = @ + Limit,
                   !.failed = @ \/ failed # {},
                   !.at = IF pages.offset + Cardinality(data) >= Cardinality(all)
                          THEN "done" ELSE @]
  BY <1>5
<1> DEFINE ends == pages.offset + Cardinality(data) >= Cardinality(all)
           got == pages.got \cup {[page |-> pages.offset, event |-> e] : e \in data}
<1>7. /\ pages.offset \in Nat /\ pages.left \in BOOLEAN /\ pages.came \in BOOLEAN
      /\ pages.failed \in BOOLEAN /\ pages.tied \in BOOLEAN
      /\ pages = [at |-> pages.at, offset |-> pages.offset, got |-> pages.got, kept |-> pages.kept,
                  left |-> pages.left, came |-> pages.came, failed |-> pages.failed, tied |-> pages.tied]
  BY <1>1 DEF ActivityInv, PagesTyped, NoPages
<1>8. pages' = [at |-> IF ends THEN "done" ELSE "reading", offset |-> pages.offset + Limit,
                got |-> got, kept |-> pages.kept, left |-> pages.left, came |-> pages.came,
                failed |-> pages.failed \/ failed # {}, tied |-> pages.tied]
  <2>1. pages' = [pages EXCEPT !.got = got, !.offset = pages.offset + Limit,
                               !.failed = pages.failed \/ failed # {},
                               !.at = IF ends THEN "done" ELSE "reading"]
    BY <1>1, <1>6
  <2> HIDE DEF ends, got
  <2> QED BY <1>7, <2>1
<1>9. PagesTyped'
  <2> HIDE DEF ends, got
  <2> QED BY <1>3, <1>7, <1>8 DEF PagesTyped
<1>10. ASSUME pages.failed \/ failed # {} \/ pages.tied PROVE ActivityInv'
  <2>1. pages'.failed \/ pages'.tied
    BY <1>8, <1>10
  <2> QED BY <1>2, <1>9, <2>1 DEF ActivityInv, ActivityTold
<1>11. ASSUME ~pages.failed, failed = {}, ~pages.tied PROVE ActivityInv'
  <2> DEFINE P(e) == Place(TurnOrder, Turns(Facts), Turn(e))
  <2>1. ~RowsTie /\ (~pages.left => NothingMissed) /\ (~pages.came => NothingAgain) /\ DealsTyped
    BY <1>1, <1>11 DEF ActivityInv
  <2>2. EventsKnown(Facts)
    BY <2>1, FactsKnown
  <2>3. E \subseteq Facts /\ \A f \in Facts : \E e \in E : Tells(e, f)
    BY <2>1, AllTold
  <2>4. all = DedupeEvents(E)
    BY <1>11 DEF UserActivity
  <2>5. /\ data \subseteq Facts
        /\ \A e \in data : pages.offset <= P(e) /\ P(e) < pages.offset + Limit
        /\ \A e, f \in data : Turn(e) = Turn(f) => e = f
        /\ \A f \in Facts : pages.offset <= P(f) =>
             \/ \E e \in data : Turn(e) = Turn(f)
             \/ pages.offset + Limit <= P(f) /\ ~ends
    <3>1. data \in PagesOf(all, Limit, pages.offset, [e \in all |-> Turn(e)])
      OBVIOUS
    <3> HIDE DEF all
    <3> QED BY <1>7, <2>2, <2>3, <2>4, <3>1, PageOfEvents
  <2> HIDE DEF all, ends
  <2>6. IsFiniteSet(Turns(Facts)) /\ \A e : P(e) \in Nat
    BY <2>2, TurnsFinite, PlaceType
  <2>7. \A e \in Facts : EventOk(e)
    BY <2>2 DEF EventsKnown
  <2>8. ASSUME ~pages.left
        PROVE  /\ pages.kept \subseteq Facts
               /\ \A fact \in pages.kept : \/ \E g \in got : Tells(g.event, fact)
                                           \/ pages.offset + Limit <= P(fact) /\ ~ends
    <3>1. NothingMissed
      BY <2>1, <2>8
    <3>2. ASSUME NEW fact \in pages.kept
          PROVE  \/ \E g \in got : Tells(g.event, fact)
                 \/ pages.offset + Limit <= P(fact) /\ ~ends
      <4>1. CASE \E g \in pages.got : Tells(g.event, fact)
        BY <4>1
      <4>2. CASE pages.offset <= P(fact)
        <5>1. fact \in Facts
          BY <3>1 DEF NothingMissed
        <5>2. ASSUME NEW e \in data, Turn(e) = Turn(fact) PROVE \E g \in got : Tells(g.event, fact)
          <6>1. [page |-> pages.offset, event |-> e] \in got
            OBVIOUS
          <6>2. Tells(e, fact)
            BY <2>2, <2>5, <5>1, <5>2 DEF EventsKnown
          <6> QED BY <6>1, <6>2
        <5> HIDE DEF got, P
        <5> QED BY <2>5, <4>2, <5>1, <5>2
      <4> QED BY <3>1, <4>1, <4>2 DEF NothingMissed, PlaceOfTurn
    <3> QED BY <3>1, <3>2 DEF NothingMissed
  <2>9. ASSUME ~pages.came
        PROVE  /\ \A g \in got : EventOk(g.event)
               /\ \A g \in got : Turn(g.event) \notin Turns(Facts) \/ P(g.event) < pages.offset + Limit
               /\ \A g, h \in got : Tells(g.event, h.event) => g = h
    <3>1. NothingAgain
      BY <2>1, <2>9
    <3>2. \A g \in got : \/ g \in pages.got
                        \/ \E e \in data : g = [page |-> pages.offset, event |-> e]
      OBVIOUS
    <3>3. ASSUME NEW g \in got PROVE EventOk(g.event)
      <4>1. CASE g \in pages.got
        BY <3>1, <4>1 DEF NothingAgain
      <4>2. ASSUME NEW e \in data, g = [page |-> pages.offset, event |-> e] PROVE EventOk(g.event)
        <5>1. g.event = e
          BY <4>2
        <5> QED BY <2>5, <2>7, <5>1
      <4> QED BY <3>2, <4>1, <4>2
    <3>4. \A g, h \in got : Tells(g.event, h.event) => Turn(g.event) = Turn(h.event)
      <4> HIDE DEF got
      <4> QED BY <3>3, TurnOfEvent
    <3>5. ASSUME NEW e \in data, NEW g \in pages.got, Turn(g.event) = Turn(e) PROVE FALSE
      <4>1. Turn(e) \in Turns(Facts)
        BY <2>5 DEF Turns
      <4>2. P(e) < pages.offset /\ pages.offset <= P(e) /\ P(e) \in Nat
        BY <2>5, <2>6, <3>1, <3>5, <4>1 DEF NothingAgain, PlaceOfTurn
      <4> HIDE DEF P
      <4> QED BY <1>7, <4>2
    <3>6. ASSUME NEW g \in got, NEW h \in got, Tells(g.event, h.event) PROVE g = h
      <4>0. Turn(g.event) = Turn(h.event)
        BY <3>4, <3>6
      <4>1. CASE g \in pages.got /\ h \in pages.got
        BY <3>1, <3>6, <4>1 DEF NothingAgain
      <4>2. CASE g \notin pages.got /\ h \notin pages.got
        <5>1. PICK e \in data : g = [page |-> pages.offset, event |-> e]
          BY <3>2, <4>2
        <5>2. PICK f \in data : h = [page |-> pages.offset, event |-> f]
          BY <3>2, <4>2
        <5>3. g.event = e /\ h.event = f
          BY <5>1, <5>2
        <5>4. e = f
          BY <2>5, <4>0, <5>3
        <5> QED BY <5>1, <5>2, <5>4
      <4>3. CASE g \in pages.got /\ h \notin pages.got
        <5>1. PICK f \in data : h = [page |-> pages.offset, event |-> f]
          BY <3>2, <4>3
        <5>2. h.event = f
          BY <5>1
        <5> QED BY <3>5, <4>0, <4>3, <5>2
      <4>4. CASE g \notin pages.got /\ h \in pages.got
        <5>1. PICK e \in data : g = [page |-> pages.offset, event |-> e]
          BY <3>2, <4>4
        <5>2. g.event = e
          BY <5>1
        <5> QED BY <3>5, <4>0, <4>4, <5>2
      <4> QED BY <4>1, <4>2, <4>3, <4>4
    <3>7. ASSUME NEW g \in got
          PROVE  Turn(g.event) \notin Turns(Facts) \/ P(g.event) < pages.offset + Limit
      <4>1. CASE g \in pages.got
        <5>1. Turn(g.event) \notin Turns(Facts) \/ P(g.event) < pages.offset
          BY <3>1, <4>1 DEF NothingAgain, PlaceOfTurn
        <5>2. P(g.event) \in Nat
          BY <2>6
        <5> HIDE DEF P
        <5> QED BY <1>3, <1>7, <5>1, <5>2
      <4>2. CASE g \notin pages.got
        <5>1. PICK e \in data : g = [page |-> pages.offset, event |-> e]
          BY <3>2, <4>2
        <5>2. g.event = e
          BY <5>1
        <5> QED BY <2>5, <5>2
      <4> QED BY <4>1, <4>2
    <3> HIDE DEF got, P
    <3> QED BY <3>3, <3>6, <3>7
  <2> HIDE DEF got
  <2>10. /\ pages'.got = got /\ pages'.kept = pages.kept /\ pages'.offset = pages.offset + Limit
         /\ pages'.left = pages.left /\ pages'.came = pages.came
         /\ pages'.at = "done" <=> ends
    BY <1>8
  <2>11. ~pages'.left => NothingMissed'
    BY <1>2, <2>8, <2>10 DEF NothingMissed, PlaceOfTurn
  <2>12. ~pages'.came => NothingAgain'
    BY <1>2, <2>9, <2>10 DEF NothingAgain, PlaceOfTurn
  <2>13. ActivityTold'
    BY <2>8, <2>9, <2>10 DEF ActivityTold
  <2> QED BY <1>2, <1>9, <2>1, <2>11, <2>12, <2>13 DEF ActivityInv
<1> QED BY <1>7, <1>10, <1>11

LEMMA ActivityStep == ActivityInv /\ [ActivityNext]_actvars => ActivityInv'
<1> SUFFICES ASSUME ActivityInv, [ActivityNext]_actvars PROVE ActivityInv'
    OBVIOUS
<1>1. CASE UNCHANGED actvars
  <2>1. UNCHANGED <<holder, sales, legacy, bids, trades, shown, deals, now, pages>>
    BY <1>1 DEF actvars
  <2>2. Facts' = Facts /\ RowsTie' = RowsTie /\ DealsTyped' = DealsTyped
    BY <2>1, SameFacts
  <2> QED BY <2>1, <2>2 DEF ActivityInv, PagesTyped, NothingMissed, NothingAgain, PlaceOfTurn, ActivityTold
<1>2. CASE DealAction
  BY <1>2, DealsKeepActivity
<1>3. CASE AskActivity \/ ReadActivity
  BY <1>3, AskKeepsActivity, ReadKeepsActivity
<1> QED BY <1>1, <1>2, <1>3 DEF ActivityNext, DealAction

\* A client that reads what a user did (ports/activity) to the total is told of each fact that
\* held all the while, unless one went or a query failed, and of none twice unless one came,
\* where no two rows of a query are of one second: whatever the caps cut, and although the
\* sales of one transaction are cut in any order and told as one.
THEOREM ActivityIsTold == ActivitySpec => []ActivityTold
<1>1. ActivityInv => ActivityTold
  BY DEF ActivityInv
<1> QED BY <1>1, InitActivity, ActivityStep, PTL DEF ActivitySpec
=============================================================================
