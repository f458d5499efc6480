--------------------------- MODULE AddTradeProofs ---------------------------
(***************************************************************************)
(* AddTrade for every set of requests and trades.                          *)
(***************************************************************************)
EXTENDS AddTrade, TLAPS

\* A request past its submission has a body; before it, nothing has happened.
SentInv ==
    \A r \in Requests :
        /\ pc[r] # "idle" => trade[r] \in Trades
        /\ pc[r] = "idle" => ping[r] = "none"
        /\ r \in published => pc[r] \notin {"idle", "submitted", "unique", "verified"}

\* What a request saw is still stored, and had no rival that is still open.
SeenInv ==
    \A r \in Requests :
        /\ seen[r] \subseteq stored
        /\ /\ pc[r] \in {"unique", "verified", "stored", "notified", "created"}
           /\ ComparesAddress(trade[r])
           => \A u \in seen[r] : Rivals(trade[r], u) => u \notin Open

\* The view shows what the tables hold or held.
ViewInv == view \subseteq facts

IInv == TypeOK /\ SentInv /\ SeenInv /\ ViewInv /\ CreatedOnce /\ RedundantToAnother

-----------------------------------------------------------------------------
\* Nothing is ever removed from the tables: what is open was stored, and an
\* action that leaves the tables alone or adds to them keeps the view's facts.
LEMMA FactsGrow ==
    ASSUME stored \subseteq stored', closed \subseteq closed'
    PROVE  facts \subseteq facts'
  BY DEF facts

LEMMA InitInv == Init => IInv
  BY DEF Init, IInv, TypeOK, SentInv, SeenInv, ViewInv, CreatedOnce, Created,
         RedundantToAnother, facts

\* Every action keeps the types.
LEMMA NextType ==
    ASSUME IInv, [Next]_vars
    PROVE  TypeOK'
<1> USE DEF TypeOK, Goes, Pings, Facts, facts
<1>0. TypeOK /\ SentInv /\ ViewInv
  BY DEF IInv
<1>1. ASSUME NEW r \in Requests, NEW t \in Trades, Submit(r, t)
      PROVE  TypeOK'
  BY <1>0, <1>1 DEF Submit
<1>2. ASSUME NEW r \in Requests, Handle(r)
      PROVE  TypeOK'
  <2>1. CASE CheckDuplicate(r)
    <3>1. stored \in SUBSET Trades /\ seen' = [seen EXCEPT ![r] = stored]
      BY <1>0, <2>1 DEF CheckDuplicate
    <3>2. seen' \in [Requests -> SUBSET Trades]
      BY <1>0, <3>1
    <3>3. pc' = [pc EXCEPT ![r] = "rejected"] \/ pc' = [pc EXCEPT ![r] = "unique"]
      BY <2>1 DEF CheckDuplicate
    <3> QED
      BY <1>0, <2>1, <3>2, <3>3 DEF CheckDuplicate, Answered
  <2>2. CASE Verify(r)
    BY <1>0, <2>2 DEF Verify
  <2>3. CASE Reject(r)
    BY <1>0, <2>3 DEF Reject, Answered
  <2>4. CASE Store(r)
    BY <1>0, <2>4 DEF Store, StoreAnyway, SentInv
  <2>5. CASE SignatureTaken(r)
    BY <1>0, <2>5 DEF SignatureTaken, Answered
  <2>6. CASE Notify(r)
    BY <1>0, <2>6 DEF Notify
  <2>7. CASE Respond(r)
    BY <1>0, <2>7 DEF Respond, Answered
  <2> QED
    BY <1>2, <2>1, <2>2, <2>3, <2>4, <2>5, <2>6, <2>7 DEF Handle
<1>3. ASSUME NEW r \in Requests, PingShop(r) \/ Die(r)
      PROVE  TypeOK'
  <2>1. CASE ResolveItem(r)
    BY <1>0, <2>1 DEF ResolveItem
  <2>2. CASE CheckOtherOpen(r)
    BY <1>0, <2>2 DEF CheckOtherOpen
  <2>3. CASE SendPing(r)
    BY <1>0, <2>3 DEF SendPing
  <2>4. CASE PingFails(r)
    BY <1>0, <2>4 DEF PingFails
  <2>5. CASE Die(r)
    BY <1>0, <2>5 DEF Die, Answered
  <2> QED
    BY <1>3, <2>1, <2>2, <2>3, <2>4, <2>5 DEF PingShop
<1>4. ASSUME NEW t \in Trades, Close(t)
      PROVE  TypeOK'
  BY <1>0, <1>4 DEF Close, requestVars
<1>5. CASE RefreshView
  BY <1>0, <1>5 DEF RefreshView, requestVars
<1>6. CASE UNCHANGED vars
  BY <1>0, <1>6 DEF vars, requestVars
<1> QED
  BY <1>1, <1>2, <1>3, <1>4, <1>5, <1>6 DEF Next

-----------------------------------------------------------------------------
\* Nothing leaves the tables, and the view shows no more than they have held.
LEMMA NextView ==
    ASSUME IInv, [Next]_vars
    PROVE  ViewInv' /\ stored \subseteq stored' /\ Open' \cap stored \subseteq Open
<1>0. TypeOK /\ ViewInv
  BY DEF IInv
<1>1. /\ stored \subseteq stored' /\ closed \subseteq closed'
      /\ view' = view \/ view' = facts' \/ view' = facts
  BY DEF Next, Submit, Handle, CheckDuplicate, Verify, Reject, Store, StoreAnyway,
         SignatureTaken, Notify, Respond, PingShop, ResolveItem, CheckOtherOpen,
         SendPing, PingFails, Die, Close, RefreshView, requestVars, vars
<1>2. facts \subseteq facts'
  BY <1>1, FactsGrow
<1>3. ViewInv'
  BY <1>0, <1>1, <1>2 DEF ViewInv
<1> QED
  BY <1>1, <1>3 DEF Open

\* A request that is not submitted in this step keeps its body.
LEMMA NextSent ==
    ASSUME IInv, [Next]_vars
    PROVE  /\ SentInv'
           /\ \A r \in Requests : pc[r] # "idle" => trade'[r] = trade[r]
<1> USE DEF TypeOK, SentInv, Goes, Pings, Answered
<1>0. TypeOK /\ SentInv
  BY DEF IInv
<1>1. ASSUME NEW r \in Requests, NEW t \in Trades, Submit(r, t)
      PROVE  /\ SentInv'
             /\ \A s \in Requests : pc[s] # "idle" => trade'[s] = trade[s]
  BY <1>0, <1>1 DEF Submit
<1>2. ASSUME NEW r \in Requests, Handle(r) \/ PingShop(r) \/ Die(r)
      PROVE  SentInv' /\ trade' = trade
  BY <1>0, <1>2
     DEF Handle, CheckDuplicate, Verify, Reject, Store, StoreAnyway, SignatureTaken,
         Notify, Respond, PingShop, ResolveItem, CheckOtherOpen, SendPing, PingFails,
         Die
<1>3. CASE (\E t \in Trades : Close(t)) \/ RefreshView \/ UNCHANGED vars
  BY <1>0, <1>3 DEF Close, RefreshView, requestVars, vars
<1> QED
  BY <1>1, <1>2, <1>3 DEF Next

\* Every action keeps what the duplicate check has established: what a request
\* saw can only close, and a request looks at all that is stored.
LEMMA NextSeen ==
    ASSUME IInv, [Next]_vars
    PROVE  SeenInv'
<1>0. TypeOK /\ SentInv /\ SeenInv
  BY DEF IInv
<1>1. stored \subseteq stored' /\ Open' \cap stored \subseteq Open
  BY NextView
<1>2. \A r \in Requests : pc[r] # "idle" => trade'[r] = trade[r]
  BY NextSent
<1> DEFINE Past == {"unique", "verified", "stored", "notified", "created"}
<1>3. SUFFICES ASSUME NEW r \in Requests
               PROVE  /\ seen'[r] \subseteq stored'
                      /\ pc'[r] \in Past /\ ComparesAddress(trade'[r])
                         => \A u \in seen'[r] : Rivals(trade'[r], u) => u \notin Open'
  BY DEF SeenInv
<1>4. CASE CheckDuplicate(r)
  <2>1. seen'[r] = stored /\ trade' = trade /\ Open' = Open
    BY <1>0, <1>4 DEF CheckDuplicate, TypeOK, Open
  <2>2. pc'[r] \in Past => ~FindsDuplicate(trade[r])
    BY <1>0, <1>4 DEF CheckDuplicate, TypeOK, Goes
  <2> QED
    BY <1>1, <2>1, <2>2 DEF FindsDuplicate
<1>5. CASE ~CheckDuplicate(r)
  <2>1. seen'[r] = seen[r] /\ (pc'[r] \in Past => pc[r] \in Past)
    <3> USE DEF TypeOK, Goes, Pings
    <3>1. ASSUME NEW s \in Requests, NEW t \in Trades, Submit(s, t)
          PROVE  seen'[r] = seen[r] /\ (pc'[r] \in Past => pc[r] \in Past)
      BY <1>0, <3>1 DEF Submit
    <3> QED
      BY <1>0, <1>5, <3>1
         DEF Next, Handle, CheckDuplicate, Verify, Reject, Store, StoreAnyway,
             SignatureTaken, Notify, Respond, PingShop, ResolveItem, CheckOtherOpen,
             SendPing, PingFails, Die, Close, RefreshView, requestVars, vars
  <2> QED
    BY <1>0, <1>1, <1>2, <2>1 DEF SeenInv
<1> QED
  BY <1>4, <1>5

\* Every action keeps a trade with one creator: the unique signature stops the
\* others, even when the creator's process has died since.
LEMMA NextCreatedOnce ==
    ASSUME IInv, [Next]_vars
    PROVE  CreatedOnce'
<1>0. TypeOK /\ SentInv /\ CreatedOnce
  BY DEF IInv
<1>1. stored \subseteq stored'
  BY NextView
<1>2. \A s \in Requests : pc[s] # "idle" => trade'[s] = trade[s]
  BY NextSent
<1> DEFINE Has == Created \cup published
<1>3. \A s \in Has : s \in Requests /\ pc[s] # "idle"
  BY <1>0 DEF SentInv, Created, TypeOK
<1>4. ASSUME NEW r \in Requests, Store(r)
      PROVE  CreatedOnce'
  <2>1. trade[r] \notin stored /\ stored' = stored \cup {trade[r]} /\ trade' = trade
    BY <1>4 DEF Store, StoreAnyway
  <2>2. Created' = Created \cup {r} /\ published' = published
    BY <1>0, <1>4 DEF Store, StoreAnyway, Created, TypeOK, Goes
  <2>3. \A s \in Has : trade[s] # trade[r]
    BY <1>0, <2>1 DEF CreatedOnce
  <2> QED
    BY <1>0, <2>1, <2>2, <2>3 DEF CreatedOnce
<1>5. ASSUME \A r \in Requests : ~Store(r)
      PROVE  Has' \subseteq Has
  <2> USE DEF TypeOK, Created, Goes, Pings
  <2>1. ASSUME NEW r \in Requests, NEW t \in Trades, Submit(r, t)
        PROVE  Has' \subseteq Has
    BY <1>0, <2>1 DEF Submit
  <2>2. ASSUME NEW r \in Requests, Notify(r)
        PROVE  Has' \subseteq Has
    <3>1. r \in Created /\ published' \subseteq published \cup {r} /\ Created' = Created
      BY <1>0, <2>2 DEF Notify
    <3> QED
      BY <3>1
  <2>3. ASSUME NEW r \in Requests,
               CheckDuplicate(r) \/ Verify(r) \/ Reject(r) \/ SignatureTaken(r)
                   \/ Respond(r)
        PROVE  Has' \subseteq Has
    BY <1>0, <2>3 DEF CheckDuplicate, Verify, Reject, SignatureTaken, Respond
  <2>4. ASSUME NEW r \in Requests, PingShop(r) \/ Die(r)
        PROVE  Has' \subseteq Has
    BY <1>0, <2>4 DEF PingShop, ResolveItem, CheckOtherOpen, SendPing, PingFails, Die,
                      Answered
  <2>5. CASE (\E t \in Trades : Close(t)) \/ RefreshView \/ UNCHANGED vars
    BY <2>5 DEF Close, RefreshView, requestVars, vars
  <2> QED
    BY <1>5, <2>1, <2>2, <2>3, <2>4, <2>5 DEF Next, Handle
<1>6. Has' \subseteq Has => CreatedOnce'
  BY <1>0, <1>1, <1>2, <1>3 DEF CreatedOnce
<1> QED
  BY <1>4, <1>5, <1>6

\* Every action keeps a redundant ping justified: the query leaves the trade
\* itself out, and what the view shows was stored.
LEMMA NextRedundant ==
    ASSUME IInv, [Next]_vars
    PROVE  RedundantToAnother'
<1>0. TypeOK /\ SentInv /\ ViewInv /\ RedundantToAnother
  BY DEF IInv
<1>1. stored \subseteq stored'
  BY NextView
<1>2. \A s \in Requests : pc[s] # "idle" => trade'[s] = trade[s]
  BY NextSent
<1>3. SUFFICES ASSUME NEW r \in Requests, ping'[r] = "redundant"
               PROVE  OnSale(trade'[r].item, stored' \ {trade'[r]})
  BY DEF RedundantToAnother
<1>4. CASE CheckOtherOpen(r)
  <2>1. OnSale(trade[r].item, ShownOpen \ {trade[r]})
    BY <1>0, <1>3, <1>4 DEF CheckOtherOpen, Pings, TypeOK
  <2>2. ShownOpen \subseteq stored
    BY <1>0 DEF ShownOpen, ViewInv, facts
  <2>3. trade' = trade
    BY <1>4 DEF CheckOtherOpen
  <2> QED
    BY <1>1, <2>1, <2>2, <2>3 DEF OnSale
<1>5. CASE ~CheckOtherOpen(r)
  <2>1. ping[r] = "redundant"
    <3> USE DEF TypeOK, Pings
    <3>1. ASSUME NEW s \in Requests, PingShop(s) \/ Die(s)
          PROVE  ping[r] = "redundant"
      BY <1>0, <1>3, <1>5, <3>1
         DEF PingShop, ResolveItem, CheckOtherOpen, SendPing, PingFails, Die
    <3>2. ASSUME NEW s \in Requests, Handle(s)
          PROVE  ping[r] = "redundant"
      BY <1>0, <1>3, <3>2
         DEF Handle, CheckDuplicate, Verify, Reject, Store, StoreAnyway,
             SignatureTaken, Notify, Respond
    <3> QED
      BY <1>3, <3>1, <3>2 DEF Next, Submit, Close, RefreshView, requestVars, vars
  <2>2. trade'[r] = trade[r]
    BY <1>0, <1>2, <2>1 DEF SentInv
  <2> QED
    BY <1>0, <1>1, <2>1, <2>2 DEF RedundantToAnother, OnSale
<1> QED
  BY <1>4, <1>5

\* The invariant holds in every behaviour.
LEMMA AlwaysIInv == Spec => []IInv
<1>1. IInv /\ [Next]_vars => IInv'
  BY NextType, NextView, NextSent, NextSeen, NextCreatedOnce, NextRedundant DEF IInv
<1> QED
  BY <1>1, InitInv, PTL DEF Spec

-----------------------------------------------------------------------------
\* Requests, pings, tables and view always have their types.
THEOREM TypeCorrect == Spec => []TypeOK
<1>1. IInv => TypeOK
  BY DEF IInv
<1> QED
  BY <1>1, AlwaysIInv, PTL

\* However many requests run at once, two rivals are only open together when
\* each request looked before the other trade was stored.
THEOREM RivalsAreARace == Spec => []RivalsOnlyByRace
<1>1. IInv => RivalsOnlyByRace
  <2> SUFFICES ASSUME IInv PROVE RivalsOnlyByRace
    OBVIOUS
  <2> QED
    BY DEF IInv, SeenInv, RivalsOnlyByRace, Created
<1> QED
  BY <1>1, AlwaysIInv, PTL

\* However often a trade is sent, one request creates it and publishes its event.
THEOREM TradesAreCreatedOnce == Spec => []CreatedOnce
<1>1. IInv => CreatedOnce
  BY DEF IInv
<1> QED
  BY <1>1, AlwaysIInv, PTL

\* A ping left out as redundant was so for another listing of the item.
THEOREM PingsAreRedundantToAnother == Spec => []RedundantToAnother
<1>1. IInv => RedundantToAnother
  BY DEF IInv
<1> QED
  BY <1>1, AlwaysIInv, PTL
=============================================================================
