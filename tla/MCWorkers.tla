----------------------------- MODULE MCWorkers -----------------------------
(***************************************************************************)
(* Five parts that share no state, each followed on its own: the first     *)
(* state says which.                                                       *)
(***************************************************************************)
EXTENDS Job, ManaRate, Contracts, UserAssets, Activity

CONSTANTS c1, c2, c3, m1, l1, l2

VARIABLE focus

wvars == <<jvars, rvars, cvars, avars, actvars, focus>>

MCNameOf == [c \in Collections |-> CASE c = c1 -> 1 [] c = c2 -> 2 [] c = c3 -> 3]
MCMarketplaces == <<m1>>
MCAsks == {[collections |-> TRUE, first |-> 0, skip |-> 0],
           [collections |-> TRUE, first |-> 1, skip |-> 1],
           [collections |-> FALSE, first |-> 0, skip |-> 0]}

MCKindOf == [t \in Assets |-> IF t = 1 THEN "name" ELSE IF t = 2 THEN "name" ELSE "wearable"]
MCUrnOf == [t \in Assets |-> IF t <= 2 THEN t ELSE IF t <= 4 THEN 3 ELSE 4]
MCCreatedAt == [t \in Assets |-> IF t <= 2 THEN 1 ELSE t]
MCRarityOf == [u \in 1 .. 4 |-> 1]
MCWanted ==
  {[kind |-> "name", grouped |-> FALSE, sort |-> "rarity", items |-> 1 .. 4, first |-> 1],
   [kind |-> "wearable", grouped |-> FALSE, sort |-> "rarity", items |-> 1 .. 4, first |-> 2]}
  \cup [kind : {"wearable"}, grouped : {TRUE}, sort : {"rarity", "newest", "oldest"},
        items : {1 .. 4, {3}}, first : {1}]

\* A client of whom ActivityTold says nothing, whatever comes, is not followed.
Followed == pages # NoPages => ~pages.failed /\ ~pages.tied /\ ~(pages.left /\ pages.came)

On(part, Next, others) == focus = part /\ Next /\ UNCHANGED <<others, focus>>

WInit ==
  /\ focus \in {"job", "rate", "contracts", "assets", "activity"}
  /\ JobInit /\ RateInit /\ ContractsInit /\ AssetsInit /\ ActivityInit
  /\ focus # "job" => repeat
  /\ focus # "rate" => configured /\ feed.good
  /\ focus # "contracts" => approved = {}
  /\ focus # "assets" => held = {}
  /\ holder[1] = Me /\ (focus # "activity" => holder[2] = Me)
WNext ==
  \/ On("job", JobNext, <<rvars, cvars, avars, actvars>>)
  \/ On("rate", RateNext, <<jvars, cvars, avars, actvars>>)
  \/ On("contracts", ContractsNext, <<jvars, rvars, avars, actvars>>)
  \/ On("assets", AssetsNext, <<jvars, rvars, cvars, actvars>>)
  \/ On("activity", Followed /\ ActivityNext, <<jvars, rvars, cvars, avars>>)
WSpec ==
  /\ WInit /\ [][WNext]_wvars
  /\ WF_wvars(On("job", Wake, <<rvars, cvars, avars, actvars>>))
  /\ WF_wvars(On("job", RunEnds, <<rvars, cvars, avars, actvars>>))
=============================================================================
