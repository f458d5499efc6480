------------------------- MODULE AccessTokenProofs -------------------------
(***************************************************************************)
(* The lock of the access token for any number of requests and any times.  *)
(***************************************************************************)
EXTENDS AccessToken, TLAPS

\* A request at work has its time, and the lock outlasts it.
HoldsLock ==
    \A r \in Requests : pc[r] \in AtWork =>
        /\ lockedUntil = since[r] + LockTTL
        /\ now <= since[r] + MaxHold

\* The newest token is the one on its way to the cache, if there is one.
TokensInOrder ==
    /\ cached.id <= issued
    /\ \A r \in Requests : pc[r] = "storing" => token[r].id = issued

\* What Read found is still so when Transak is asked.
StillMissing ==
    \A r \in Requests : pc[r] = "fetching" /\ ~force[r] => ~CachedNow

LockInv == TypeOK /\ HoldsLock /\ OneAtATime /\ TokensInOrder /\ StillMissing

LEMMA EndTypes ==
    ASSUME TypeOK, NEW r \in Requests, End(r)
    PROVE  /\ pc' \in [Requests -> AtWork \cup {"idle", "waiting"}] /\ pc'[r] = "idle"
           /\ force' \in [Requests -> BOOLEAN] /\ since' \in [Requests -> Nat]
           /\ token' \in [Requests -> Token]
           /\ \A q \in Requests : q # r =>
                 /\ pc'[q] = pc[q] /\ force'[q] = force[q]
                 /\ since'[q] = since[q] /\ token'[q] = token[q]
BY DEF TypeOK, End, Goto, Token, NoToken

LEMMA TypeInit == Init => TypeOK
BY DEF Init, TypeOK, Token, NoToken

LEMMA TypeNext == TypeOK /\ [Next]_vars => TypeOK'
<1> SUFFICES ASSUME TypeOK, [Next]_vars PROVE TypeOK'  OBVIOUS
<1> USE NumbersAssumption
<1>1. CASE Tick  BY <1>1 DEF Tick, TypeOK, request
<1>2. ASSUME NEW r \in Requests, Ask(r) PROVE TypeOK'
  BY <1>2 DEF Ask, TypeOK, Goto
<1>3. ASSUME NEW r \in Requests, Acquire(r) PROVE TypeOK'
  BY <1>3 DEF Acquire, AcquireAnyway, TypeOK, Goto, AtWork
<1>4. ASSUME NEW r \in Requests, GiveUp(r) \/ Leave(r) \/ Die(r) PROVE TypeOK'
  <2>1. End(r) /\ UNCHANGED <<now, cached, issued>> /\ lockedUntil' \in {lockedUntil, 0}
    BY <1>4 DEF GiveUp, Leave, Die
  <2>2. QED  BY <2>1, EndTypes DEF TypeOK
<1>5. ASSUME NEW r \in Requests, Read(r) PROVE TypeOK'
  BY <1>5 DEF Read, ReadBlindly, TypeOK, Goto, AtWork
<1>6. ASSUME NEW r \in Requests, Fetch(r) PROVE TypeOK'
  BY <1>6 DEF Fetch, TypeOK, Goto, AtWork, Token
<1>7. ASSUME NEW r \in Requests, Store(r) PROVE TypeOK'
  BY <1>7 DEF Store, TypeOK, Goto, AtWork
<1>8. ASSUME NEW r \in Requests, Throw(r) PROVE TypeOK'
  BY <1>8 DEF Throw, TypeOK, Goto, AtWork, Token, NoToken
<1>9. CASE UNCHANGED vars  BY <1>9 DEF vars, request, TypeOK
<1>10. QED
  BY <1>1, <1>2, <1>3, <1>4, <1>5, <1>6, <1>7, <1>8, <1>9 DEF Next, Serve, Work

\* Every variable has its type, and what is about to be stored is a token.
THEOREM TypeCorrect == Spec => []TypeOK
BY TypeInit, TypeNext, PTL DEF Spec

-----------------------------------------------------------------------------
(* The other parts of the invariant rest on each other: a lock that        *)
(* outlasts the work keeps others out, so that only its holder touches the *)
(* cache between its reading and its writing.                              *)

LEMMA LockInit == Init => LockInv
<1> SUFFICES ASSUME Init PROVE LockInv  OBVIOUS
<1>1. TypeOK  BY TypeInit
<1>2. \A r \in Requests : pc[r] = "idle" /\ pc[r] \notin AtWork
  BY DEF Init, AtWork
<1>3. QED
  BY <1>1, <1>2 DEF LockInv, HoldsLock, OneAtATime, TokensInOrder, StillMissing, Init, NoToken

\* A step of r within AtWork that has the lock and leaves it alone.
LEMMA WorkGoesOn ==
    ASSUME LockInv, NEW r \in Requests, pc[r] \in AtWork,
           pc' \in [Requests -> AtWork \cup {"idle", "waiting"}], pc'[r] \in AtWork,
           \A q \in Requests : q # r => pc'[q] = pc[q],
           UNCHANGED <<now, lockedUntil, since>>
    PROVE  /\ HoldsLock' /\ OneAtATime'
           /\ \A q \in Requests : q # r => pc'[q] \notin AtWork
BY DEF LockInv, HoldsLock, OneAtATime

LEMMA LockNext ==
    ASSUME Timely, LockInv, TypeOK', [Next]_vars
    PROVE  LockInv'
<1> USE NumbersAssumption
<1>0. TypeOK /\ HoldsLock /\ OneAtATime /\ TokensInOrder /\ StillMissing
  BY DEF LockInv
<1>1. CASE Tick
  <2>1. HoldsLock'
    BY <1>0, <1>1 DEF Tick, HoldsLock, TypeOK, request
  <2>2. StillMissing'
    BY <1>0, <1>1 DEF Tick, StillMissing, CachedNow, TypeOK, Token, request
  <2>3. QED
    BY <1>0, <1>1, <2>1, <2>2 DEF LockInv, Tick, OneAtATime, TokensInOrder, request
<1>2. ASSUME NEW r \in Requests, Ask(r) PROVE LockInv'
  <2>1. \A q \in Requests : /\ pc'[q] \in AtWork => pc'[q] = pc[q] /\ force'[q] = force[q]
                            /\ pc'[q] \in {"storing", "fetching"} => pc'[q] \in AtWork
    BY <1>0, <1>2 DEF Ask, Goto, TypeOK, AtWork
  <2>2. QED
    BY <1>0, <1>2, <2>1
    DEF LockInv, Ask, HoldsLock, OneAtATime, TokensInOrder, StillMissing, CachedNow
<1>3. ASSUME NEW r \in Requests, Acquire(r) PROVE LockInv'
  <2>1. /\ ~Locked /\ lockedUntil' = now + LockTTL /\ since' = [since EXCEPT ![r] = now]
        /\ pc' = [pc EXCEPT ![r] = "locked"]
        /\ UNCHANGED <<now, cached, issued, force, token>>
    BY <1>3 DEF Acquire, AcquireAnyway, Goto
  <2>2. \A q \in Requests : pc[q] \notin AtWork
    BY <1>0, <2>1 DEF Timely, HoldsLock, Locked, TypeOK
  <2>3. \A q \in Requests : q # r => pc'[q] \notin AtWork
    BY <1>0, <2>1, <2>2 DEF TypeOK
  <2>4. pc'[r] = "locked" /\ since'[r] = now  BY <1>0, <2>1 DEF TypeOK
  <2>5. HoldsLock'
    BY <1>0, <2>1, <2>3, <2>4 DEF HoldsLock, TypeOK
  <2>6. OneAtATime'  BY <2>3 DEF OneAtATime
  <2>7. TokensInOrder' /\ StillMissing'
    BY <1>0, <2>1, <2>3, <2>4 DEF TokensInOrder, StillMissing, CachedNow, AtWork
  <2>8. QED  BY <2>5, <2>6, <2>7 DEF LockInv
<1>4. ASSUME NEW r \in Requests, GiveUp(r) \/ Leave(r) \/ Die(r) PROVE LockInv'
  <2>1. End(r) /\ UNCHANGED <<now, cached, issued>>
    BY <1>4 DEF GiveUp, Leave, Die
  <2>2. /\ pc'[r] = "idle" /\ pc'[r] \notin AtWork
        /\ \A q \in Requests : q # r =>
              /\ pc'[q] = pc[q] /\ force'[q] = force[q]
              /\ since'[q] = since[q] /\ token'[q] = token[q]
    BY <1>0, <2>1, EndTypes DEF AtWork
  <2>3. \A q \in Requests : q # r /\ pc[q] \in AtWork => lockedUntil' = lockedUntil
    BY <1>0, <1>4 DEF GiveUp, Leave, Die, OneAtATime, AtWork
  <2>4. HoldsLock'  BY <1>0, <2>1, <2>2, <2>3 DEF HoldsLock
  <2>5. OneAtATime'  BY <1>0, <2>2 DEF OneAtATime
  <2>6. TokensInOrder' /\ StillMissing'
    BY <1>0, <2>1, <2>2 DEF TokensInOrder, StillMissing, CachedNow
  <2>7. QED  BY <2>4, <2>5, <2>6 DEF LockInv
<1>5. ASSUME NEW r \in Requests, Read(r) PROVE LockInv'
  <2>1. /\ pc[r] \in AtWork /\ UNCHANGED <<now, lockedUntil, cached, issued, force, since>>
        /\ \/ pc' = [pc EXCEPT ![r] = "leaving"]
           \/ pc' = [pc EXCEPT ![r] = "fetching"] /\ (~CachedNow \/ force[r])
    BY <1>5 DEF Read, ReadBlindly, Goto, AtWork
  <2>2. /\ \A q \in Requests : q # r => pc'[q] = pc[q]
        /\ pc'[r] = "leaving" \/ (pc'[r] = "fetching" /\ (~CachedNow \/ force[r]))
        /\ pc' \in [Requests -> AtWork \cup {"idle", "waiting"}] /\ pc'[r] \in AtWork
    BY <1>0, <2>1 DEF TypeOK, AtWork
  <2>3. HoldsLock' /\ OneAtATime' /\ \A q \in Requests : q # r => pc'[q] \notin AtWork
    BY <2>1, <2>2, WorkGoesOn
  <2>4. TokensInOrder' /\ StillMissing'
    BY <1>0, <2>1, <2>2, <2>3 DEF TokensInOrder, StillMissing, CachedNow, AtWork
  <2>5. QED  BY <2>3, <2>4 DEF LockInv
<1>6. ASSUME NEW r \in Requests, Fetch(r) PROVE LockInv'
  <2>1. /\ pc[r] \in AtWork /\ UNCHANGED <<now, lockedUntil, cached, force, since>>
        /\ pc' = [pc EXCEPT ![r] = "storing"] /\ issued' = issued + 1
        /\ token'[r].id = issued + 1
    BY <1>0, <1>6 DEF Fetch, Goto, AtWork, TypeOK
  <2>2. /\ \A q \in Requests : q # r => pc'[q] = pc[q]
        /\ pc'[r] = "storing"
        /\ pc' \in [Requests -> AtWork \cup {"idle", "waiting"}] /\ pc'[r] \in AtWork
    BY <1>0, <2>1 DEF TypeOK, AtWork
  <2>3. HoldsLock' /\ OneAtATime' /\ \A q \in Requests : q # r => pc'[q] \notin AtWork
    BY <2>1, <2>2, WorkGoesOn
  <2>4. \A q \in Requests : pc'[q] = "storing" => q = r
    BY <2>3 DEF AtWork
  <2>5. \A q \in Requests : pc'[q] # "fetching"
    BY <2>2, <2>3 DEF AtWork
  <2>6. TokensInOrder'
    BY <1>0, <2>1, <2>4 DEF TokensInOrder, TypeOK, Token
  <2>7. QED  BY <2>3, <2>5, <2>6 DEF LockInv, StillMissing
<1>7. ASSUME NEW r \in Requests, Store(r) \/ Throw(r) PROVE LockInv'
  <2>1. /\ pc[r] \in AtWork /\ UNCHANGED <<now, lockedUntil, issued, force, since>>
        /\ pc' = [pc EXCEPT ![r] = "leaving"]
        /\ \/ UNCHANGED cached
           \/ pc[r] = "storing" /\ cached' = token[r]
    BY <1>7 DEF Store, Throw, Goto, AtWork
  <2>2. /\ \A q \in Requests : q # r => pc'[q] = pc[q]
        /\ pc'[r] = "leaving"
        /\ pc' \in [Requests -> AtWork \cup {"idle", "waiting"}] /\ pc'[r] \in AtWork
    BY <1>0, <2>1 DEF TypeOK, AtWork
  <2>3. HoldsLock' /\ OneAtATime' /\ \A q \in Requests : q # r => pc'[q] \notin AtWork
    BY <2>1, <2>2, WorkGoesOn
  <2>4. \A q \in Requests : pc'[q] # "storing" /\ pc'[q] # "fetching"
    BY <2>2, <2>3 DEF AtWork
  <2>5. cached'.id <= issued'
    BY <1>0, <2>1 DEF TokensInOrder, TypeOK
  <2>6. QED  BY <2>3, <2>4, <2>5 DEF LockInv, TokensInOrder, StillMissing
<1>8. CASE UNCHANGED vars
  BY <1>0, <1>8
  DEF vars, request, LockInv, HoldsLock, OneAtATime, TokensInOrder, StillMissing, CachedNow
<1>9. QED
  BY <1>1, <1>2, <1>3, <1>4, <1>5, <1>6, <1>7, <1>8 DEF Next, Serve, Work

LEMMA LockAlways == ASSUME Timely PROVE Spec => []LockInv
<1>1. LockInv /\ TypeOK' /\ [Next]_vars => LockInv'  BY Timely, LockNext
<1>2. QED  BY <1>1, LockInit, TypeCorrect, PTL DEF Spec

-----------------------------------------------------------------------------
\* Two requests are never at work under the lock at once, if work is shorter than
\* the lock's time to live.
THEOREM LockExcludes == ASSUME Timely PROVE Spec => []OneAtATime
<1>1. LockInv => OneAtATime  BY DEF LockInv
<1>2. QED  BY <1>1, LockAlways, Timely, PTL

\* Then an older token never replaces a newer one in the cache either.
THEOREM TokensOnlyGetNewer == ASSUME Timely PROVE Spec => NewerTokens
<1>1. ASSUME LockInv, [Next]_vars PROVE [cached'.id >= cached.id]_cached
  <2>1. CASE UNCHANGED cached  BY <2>1
  <2>2. CASE \E r \in Requests : Store(r)
    <3>1. PICK r \in Requests : Store(r)  BY <2>2
    <3>2. cached' = token[r] /\ token[r].id = issued /\ cached.id <= issued
      BY <1>1, <3>1 DEF Store, LockInv, TokensInOrder
    <3>3. cached.id \in Nat /\ issued \in Nat
      BY <1>1 DEF LockInv, TypeOK, Token
    <3>4. QED  BY <3>2, <3>3
  <2>3. QED
    BY <1>1, <2>1, <2>2 DEF Next, Serve, Work, Tick, Ask, Acquire, AcquireAnyway, GiveUp, Read,
       ReadBlindly, Fetch, Throw, Leave, Die, vars
<1>2. QED  BY <1>1, LockAlways, Timely, PTL DEF Spec, NewerTokens

\* And Transak only issues a token when there is none or a new one is forced.
THEOREM RefreshesAreNeeded == ASSUME Timely PROVE Spec => NoNeedlessRefresh
<1> DEFINE Needed ==
      issued' # issued => ~CachedNow \/ \E r \in Requests : pc[r] = "fetching" /\ force[r]
<1>1. ASSUME LockInv, [Next]_vars PROVE [Needed]_vars
  <2>1. CASE UNCHANGED issued  BY <2>1
  <2>2. CASE \E r \in Requests : Fetch(r)
    BY <1>1, <2>2 DEF Fetch, LockInv, StillMissing
  <2>3. QED
    BY <1>1, <2>1, <2>2 DEF Next, Serve, Work, Tick, Ask, Acquire, AcquireAnyway, GiveUp, Read,
       ReadBlindly, Store, Throw, Leave, Die, vars
<1>2. QED  BY <1>1, LockAlways, Timely, PTL DEF Spec, NoNeedlessRefresh
=============================================================================
