------------------------------ MODULE ManaRate ------------------------------
(***************************************************************************)
(* The MANA/USD rate the shop prices its credits by: an oracle's last      *)
(* round, read when the server starts and every 90 seconds after that.     *)
(* A read has no time limit, so several may be under way.                  *)
(***************************************************************************)
EXTENDS Naturals, FiniteSets

CONSTANTS
  MaxRound,    \* bound on the rounds of the oracle
  MaxRefresh   \* bound on the refreshes

Refreshes == 1 .. MaxRefresh

ASSUME ManaRateAssumption == MaxRound \in Nat /\ MaxRefresh \in Nat \ {0}

VARIABLES
  configured, \* are the RPC endpoint and the oracle's address set? fixed
  feed,      \* the oracle: [round, good]; not good: non-positive, incomplete or stale
  refreshes, \* per refresh: [at, answer], answer a set of at most one round
  cached,    \* {} or the rate: {[round, by]}, by the refresh that read it
  boot,      \* off, starting, up or stopped
  provider,  \* is there one?
  met        \* history: per refresh, those under way when it began

rvars == <<configured, feed, refreshes, cached, boot, provider, met>>

UnderWay == {r \in Refreshes : refreshes[r].at \in {"begun", "asking", "served"}}

RateTypeOK ==
  /\ configured \in BOOLEAN
  /\ feed \in [round : 0 .. MaxRound, good : BOOLEAN]
  /\ \A r \in Refreshes : refreshes[r].at \in {"none", "begun", "asking", "served", "settled"}
  /\ Cardinality(cached) <= 1
  /\ \A c \in cached : c.round \in 0 .. MaxRound /\ c.by \in Refreshes
  /\ boot \in {"off", "starting", "up", "stopped"} /\ provider \in BOOLEAN
  /\ met \in [Refreshes -> SUBSET Refreshes]

RateInit ==
  /\ configured \in BOOLEAN
  /\ feed \in [round : {0}, good : BOOLEAN]
  /\ refreshes = [r \in Refreshes |-> [at |-> "none", answer |-> {}]]
  /\ cached = {} /\ boot = "off" /\ provider = FALSE
  /\ met = [r \in Refreshes |-> {}]

\* External: the oracle's next round, or its last one growing stale.
FeedMoves ==
  /\ \/ feed.round < MaxRound /\ feed' \in [round : {feed.round + 1}, good : BOOLEAN]
     \/ feed.good /\ feed' = [round |-> feed.round, good |-> FALSE]
  /\ UNCHANGED <<configured, refreshes, cached, boot, provider, met>>

BeginRefresh(r) ==
  /\ refreshes[r].at = "none" /\ \A q \in 1 .. r - 1 : refreshes[q].at # "none"
  /\ refreshes' = [refreshes EXCEPT ![r].at = "begun"]
  /\ met' = [met EXCEPT ![r] = UnderWay]
  /\ UNCHANGED <<configured, feed, cached, provider>>

\* start(): races the first refresh against a timer.
StartRate == boot = "off" /\ boot' = "starting" /\ BeginRefresh(1)
StartupTimeout ==
  /\ boot = "starting"
  /\ boot' = "up"
  /\ UNCHANGED <<configured, feed, refreshes, cached, provider, met>>
\* The interval.
Tick(r) == boot = "up" /\ r > 1 /\ BeginRefresh(r) /\ UNCHANGED boot

Fresh(r) == {[round |-> a.round, by |-> r] : a \in {x \in refreshes[r].answer : x.good}}
\* As a bug would have it: a failure clears the rate.
Forgets(r) == Fresh(r)
\* refresh() keeps the last rate when it fails; it never rejects.
RateAfter(r) == IF Fresh(r) = {} THEN cached ELSE Fresh(r)
Settle(r) ==
  /\ refreshes' = [refreshes EXCEPT ![r].at = "settled"]
  /\ cached' = RateAfter(r)
  /\ boot' = IF boot = "starting" THEN "up" ELSE boot
  /\ UNCHANGED <<configured, feed, met>>

\* getAggregator: the first use builds the provider; the rate is not refreshed without one.
GetAggregator(r) ==
  /\ refreshes[r].at = "begun"
  /\ IF configured
     THEN /\ provider' = TRUE
          /\ refreshes' = [refreshes EXCEPT ![r].at = "asking"]
          /\ UNCHANGED <<configured, feed, cached, boot, met>>
     ELSE Settle(r) /\ UNCHANGED provider

\* External: the node answers from its last block, or refuses.  It may also never answer.
OracleServes(r) ==
  /\ refreshes[r].at = "asking"
  /\ refreshes' = [refreshes EXCEPT ![r].at = "served", ![r].answer = {feed}]
  /\ UNCHANGED <<configured, feed, cached, boot, provider, met>>
OracleFails(r) == refreshes[r].at = "asking" /\ Settle(r) /\ UNCHANGED provider

\* fetchRate checks the round; refresh() keeps it.
RateArrives(r) == refreshes[r].at = "served" /\ Settle(r) /\ UNCHANGED provider

\* stop(): a refresh under way goes on.
StopRate ==
  /\ boot = "up"
  /\ boot' = "stopped" /\ provider' = FALSE
  /\ UNCHANGED <<configured, feed, refreshes, cached, met>>

RateNext ==
  \/ FeedMoves \/ StartRate \/ StartupTimeout \/ StopRate
  \/ \E r \in Refreshes :
       Tick(r) \/ GetAggregator(r) \/ OracleServes(r) \/ OracleFails(r) \/ RateArrives(r)

RateSpec == RateInit /\ [][RateNext]_rvars

-----------------------------------------------------------------------------
(* A rate once read is never lost, and an older round replaces a newer one *)
(* only when the refreshes that read them were under way at the same time: *)
(* never because the oracle fails, stops or grows stale.                   *)
RateGoesBack ==
  [][\A c \in cached : \E d \in cached' :
       d.round < c.round => d.by \in met[c.by] \/ c.by \in met[d.by]]_cached
=============================================================================
