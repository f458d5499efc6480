-------------------------- MODULE FavoritesProofs --------------------------
(***************************************************************************)
(* What holds of lists, grants, picks and powers for any users, lists and  *)
(* calls, and any number of requests at a time.                            *)
(***************************************************************************)
EXTENDS Favorites, TLAPS

\* A call is what its operation says it is.
LEMMA CallTypes ==
    ASSUME TypeOK, NEW r \in Requests, call[r] # NoCall
    PROVE  /\ call[r] \in Calls /\ call[r].user \in Users
           /\ call[r].op \notin {"bulk", "create"} => call[r].list \in Lists
           /\ call[r].op \in {"pick", "unpick", "bulk"} => call[r].item \in Items
           /\ call[r].op = "bulk" => call[r].pickedFor \subseteq Lists
           /\ call[r].op \in {"grant", "revoke"} =>
                 <<call[r].permission, call[r].grantee>> \in {"view", "edit"} \X (Users \cup {Everyone})
BY ConstantsAssumption DEF TypeOK

\* After insertVPQuery the user has a power, and everybody keeps the one they had.
LEMMA PowerStays ==
    ASSUME TypeOK, NEW u \in Users, NEW answer \in Scores \cup {ErrorReply, Undefined}
    PROVE  LET p == PowerWith(u, ScoreIn(answer)) IN
           /\ p \in [Users -> Scores \cup {Undefined}]
           /\ p[u] # Undefined
           /\ \A v \in Users : power[v] # Undefined => p[v] # Undefined
BY ConstantsAssumption DEF TypeOK, PowerWith, PowerOrZero, ScoreIn

-----------------------------------------------------------------------------
(* The invariant of the tables: their types, every pick's list and power,  *)
(* every grant's list.                                                     *)

TablesInv == TypeOK /\ EveryPickVotes /\ NothingOutlivesItsList

LEMMA TablesInit == Init => TablesInv
BY ConstantsAssumption DEF Init, TablesInv, TypeOK, EveryPickVotes, NothingOutlivesItsList

\* Answering a request leaves it ready for the next one.
LEMMA AnswerTypes ==
    ASSUME TypeOK, NEW r \in Requests, Answer(r)
    PROVE  /\ call' \in [Requests -> Calls \cup {NoCall}]
           /\ pc' \in [Requests -> {"idle", "submitted", "allowed", "fetched"}]
           /\ reply' \in [Requests -> Scores \cup {ErrorReply, Undefined}]
           /\ \A q \in Requests : reply'[q] # Undefined => pc'[q] = "fetched"
BY DEF TypeOK, Answer

\* A step that leaves the tables alone.
LEMMA TablesUntouched ==
    ASSUME TablesInv, TypeOK', UNCHANGED tables
    PROVE  TablesInv'
BY DEF TablesInv, EveryPickVotes, NothingOutlivesItsList, Exists, tables

\* The actions that only move a request on.
LEMMA RequestMoves ==
    ASSUME TablesInv, NEW r \in Requests,
           \/ CheckEdit(r) \/ CheckLists(r) \/ FetchScore(r) \/ CheckOwner(r) \/ Fail(r)
           \/ \E c \in Calls : Submit(r, c)
    PROVE  TablesInv'
<1>1. UNCHANGED tables
  BY DEF CheckEdit, CheckLists, FetchScore, CheckOwner, Fail, Submit
<1>2. TypeOK'
  <2>1. CASE CheckEdit(r) \/ CheckOwner(r)
    BY <2>1 DEF TablesInv, TypeOK, CheckEdit, CheckOwner, At, Continue, tables
  <2>2. CASE CheckLists(r)
    BY <2>2 DEF TablesInv, TypeOK, CheckLists, At, Continue, tables
  <2>3. CASE FetchScore(r)
    BY <2>3 DEF TablesInv, TypeOK, FetchScore, At, Continue, tables
  <2>4. CASE Fail(r)
    BY <2>4, AnswerTypes DEF TablesInv, TypeOK, Fail, tables
  <2>5. CASE \E c \in Calls : Submit(r, c)
    BY <2>5 DEF TablesInv, TypeOK, Submit, tables
  <2>6. QED  BY <2>1, <2>2, <2>3, <2>4, <2>5
<1>3. QED  BY <1>1, <1>2, TablesUntouched

\* The three ways to change picks.
LEMMA PicksChange ==
    ASSUME TablesInv, NEW r \in Requests, InsertPick(r) \/ Unpick(r) \/ PickInBulk(r)
    PROVE  TablesInv'
<1> DEFINE c == call[r]
<1>1. TypeOK /\ EveryPickVotes /\ NothingOutlivesItsList  BY DEF TablesInv
<1>2. CASE InsertPick(r)
  <2>1. c \in Calls /\ c.user \in Users /\ c.list \in Lists /\ c.item \in Items
    BY <1>1, <1>2, CallTypes DEF InsertPick, At
  <2>2. power' = PowerWith(c.user, ScoreIn(reply[r])) /\ reply[r] \in Scores \cup {ErrorReply, Undefined}
    BY <1>1, <1>2 DEF InsertPick, TypeOK
  <2>3. /\ power' \in [Users -> Scores \cup {Undefined}] /\ power'[c.user] # Undefined
        /\ \A v \in Users : power[v] # Undefined => power'[v] # Undefined
    BY <1>1, <2>1, <2>2, PowerStays
  <2>4. /\ picks' = picks \cup {<<c.item, c.user, c.list>>} /\ Exists(c.list)
        /\ Answer(r) /\ UNCHANGED <<owner, acl>>
    BY <1>2 DEF InsertPick
  <2>5. TypeOK'
    BY <1>1, <2>1, <2>3, <2>4, AnswerTypes DEF TypeOK
  <2>6. EveryPickVotes'
    BY <1>1, <2>1, <2>3, <2>4 DEF EveryPickVotes, TypeOK
  <2>7. NothingOutlivesItsList'
    BY <1>1, <2>1, <2>4 DEF NothingOutlivesItsList, Exists
  <2>8. QED  BY <2>5, <2>6, <2>7 DEF TablesInv
<1>3. CASE Unpick(r)
  <2>1. picks' \subseteq picks /\ Answer(r) /\ UNCHANGED <<owner, acl, power>>
    BY <1>3 DEF Unpick
  <2>2. QED
    BY <1>1, <2>1, AnswerTypes
    DEF TablesInv, TypeOK, EveryPickVotes, NothingOutlivesItsList, Exists
<1>4. CASE PickInBulk(r)
  <2> DEFINE new == {<<c.item, c.user, l>> : l \in {k \in c.pickedFor : Exists(k)}}
  <2>1. c \in Calls /\ c.user \in Users /\ c.pickedFor \subseteq Lists /\ c.item \in Items
    BY <1>1, <1>4, CallTypes DEF PickInBulk, At
  <2>2. /\ power' = IF c.pickedFor = {} THEN power ELSE PowerWith(c.user, ScoreIn(reply[r]))
        /\ reply[r] \in Scores \cup {ErrorReply, Undefined}
    BY <1>1, <1>4 DEF PickInBulk, TypeOK
  <2>3. /\ power' \in [Users -> Scores \cup {Undefined}]
        /\ c.pickedFor # {} => power'[c.user] # Undefined
        /\ \A v \in Users : power[v] # Undefined => power'[v] # Undefined
    BY <1>1, <2>1, <2>2, PowerStays DEF TypeOK
  <2>4. /\ picks' \subseteq picks \cup new
        /\ Answer(r) /\ UNCHANGED <<owner, acl>>
    BY <1>4 DEF PickInBulk
  <2>5. \A p \in new : /\ p \in Items \X Users \X Lists /\ p[2] = c.user
                       /\ Exists(p[3]) /\ c.pickedFor # {}
    BY <2>1
  <2>6. TypeOK'
    BY <1>1, <2>3, <2>4, <2>5, AnswerTypes DEF TypeOK
  <2>7. EveryPickVotes'
    BY <1>1, <2>1, <2>3, <2>4, <2>5 DEF EveryPickVotes, TypeOK
  <2>8. NothingOutlivesItsList'
    BY <1>1, <2>4, <2>5 DEF NothingOutlivesItsList, Exists
  <2>9. QED  BY <2>6, <2>7, <2>8 DEF TablesInv
<1>5. QED  BY <1>2, <1>3, <1>4

\* The actions on lists and grants.
LEMMA ListsChange ==
    ASSUME TablesInv, NEW r \in Requests,
           \/ \E l \in Lists : CreateList(r, l)
           \/ UpdateList(r) \/ DeleteList(r) \/ Grant(r) \/ Revoke(r)
    PROVE  TablesInv'
<1> DEFINE c == call[r]
<1>1. TypeOK /\ EveryPickVotes /\ NothingOutlivesItsList  BY DEF TablesInv
<1>2. CASE \E l \in Lists : CreateList(r, l)
  <2>1. PICK l \in Lists : CreateList(r, l)  BY <1>2
  <2>2. c.user \in Users /\ c.user \notin {Unborn, Gone}
    BY <1>1, <2>1, CallTypes, ConstantsAssumption DEF CreateList, At
  <2>3. /\ owner' = [owner EXCEPT ![l] = c.user]
        /\ acl' \subseteq acl \cup {<<l, "view", Everyone>>}
        /\ Answer(r) /\ UNCHANGED <<picks, power>>
    BY <2>1 DEF CreateList, PublicGrant
  <2>4. TypeOK'
    BY <1>1, <2>2, <2>3, AnswerTypes DEF TypeOK
  <2>5. \A k \in Lists : Exists(k) \/ k = l => Exists(k)'
    BY <1>1, <2>2, <2>3 DEF Exists, TypeOK
  <2>6. NothingOutlivesItsList'
    BY <1>1, <2>3, <2>5 DEF NothingOutlivesItsList, TypeOK
  <2>7. QED  BY <1>1, <2>3, <2>4, <2>6 DEF TablesInv, EveryPickVotes
<1>3. CASE UpdateList(r)
  <2>1. c.list \in Lists /\ Exists(c.list)
    BY <1>1, <1>3, CallTypes DEF UpdateList, UpdateUnguarded, UpdateAnyList, At
  <2>2. /\ acl' \subseteq acl \cup {<<c.list, "view", Everyone>>}
        /\ Answer(r) /\ UNCHANGED <<owner, picks, power>>
    BY <1>3 DEF UpdateList, UpdateUnguarded, UpdateAnyList, PublicGrant
  <2>3. TypeOK'
    BY <1>1, <2>1, <2>2, AnswerTypes DEF TypeOK
  <2>4. QED
    BY <1>1, <2>1, <2>2, <2>3 DEF TablesInv, EveryPickVotes, NothingOutlivesItsList, Exists
<1>4. CASE DeleteList(r)
  <2>1. /\ owner' = [owner EXCEPT ![c.list] = Gone]
        /\ acl' = acl \ Grants(c.list) /\ picks' = {p \in picks : p[3] # c.list}
        /\ Answer(r) /\ UNCHANGED power
    BY <1>4 DEF DeleteList
  <2>2. TypeOK'
    BY <1>1, <2>1, AnswerTypes DEF TypeOK
  <2>3. EveryPickVotes'
    BY <1>1, <2>1 DEF EveryPickVotes
  <2>4. \A k \in Lists : Exists(k) /\ k # c.list => Exists(k)'
    BY <1>1, <2>1 DEF Exists, TypeOK
  <2>5. NothingOutlivesItsList'
    BY <1>1, <2>1, <2>4 DEF NothingOutlivesItsList, Grants, TypeOK
  <2>6. QED  BY <2>2, <2>3, <2>5 DEF TablesInv
<1>5. CASE Grant(r)
  <2>1. /\ c.list \in Lists /\ Exists(c.list)
        /\ <<c.permission, c.grantee>> \in {"view", "edit"} \X (Users \cup {Everyone})
    BY <1>1, <1>5, CallTypes DEF Grant, At
  <2>2. /\ acl' = acl \cup {<<c.list, c.permission, c.grantee>>}
        /\ Answer(r) /\ UNCHANGED <<owner, picks, power>>
    BY <1>5 DEF Grant, GrantUnreferenced
  <2>3. TypeOK'
    BY <1>1, <2>1, <2>2, AnswerTypes DEF TypeOK
  <2>4. QED
    BY <1>1, <2>1, <2>2, <2>3 DEF TablesInv, EveryPickVotes, NothingOutlivesItsList, Exists
<1>6. CASE Revoke(r)
  <2>1. acl' \subseteq acl /\ Answer(r) /\ UNCHANGED <<owner, picks, power>>
    BY <1>6 DEF Revoke
  <2>2. QED
    BY <1>1, <2>1, AnswerTypes
    DEF TablesInv, TypeOK, EveryPickVotes, NothingOutlivesItsList, Exists
<1>7. QED  BY <1>2, <1>3, <1>4, <1>5, <1>6

LEMMA TablesNext == TablesInv /\ [Next]_vars => TablesInv'
<1> SUFFICES ASSUME TablesInv, [Next]_vars PROVE TablesInv'  OBVIOUS
<1>1. CASE Next
  <2>1. PICK r \in Requests : Handle(r) \/ \E c \in Calls : Submit(r, c)
    BY <1>1 DEF Next
  <2>2. QED  BY <2>1, RequestMoves, PicksChange, ListsChange DEF Handle
<1>2. CASE UNCHANGED vars
  BY <1>2 DEF vars, tables, TablesInv, TypeOK, EveryPickVotes, NothingOutlivesItsList, Exists
<1>3. QED  BY <1>1, <1>2

LEMMA TablesAlways == Spec => []TablesInv
BY TablesInit, TablesNext, PTL DEF Spec

-----------------------------------------------------------------------------
\* Every variable has its type, and only a request that asked holds an answer
\* of Snapshot.
THEOREM TypeCorrect == Spec => []TypeOK
<1>1. TablesInv => TypeOK  BY DEF TablesInv
<1>2. QED  BY <1>1, TablesAlways, PTL

\* Everybody who has a pick has a voting power, on both ways to pick and also
\* when Snapshot fails.
THEOREM PickersHavePower == Spec => []EveryPickVotes
<1>1. TablesInv => EveryPickVotes  BY DEF TablesInv
<1>2. QED  BY <1>1, TablesAlways, PTL

\* Grants and picks go with their list, and none comes after it.
THEOREM DeletedListsLeaveNothing == Spec => []NothingOutlivesItsList
<1>1. TablesInv => NothingOutlivesItsList  BY DEF TablesInv
<1>2. QED  BY <1>1, TablesAlways, PTL

-----------------------------------------------------------------------------
(* Who changes a power. *)

\* insertVPQuery changes no power but the user's, and one that exists to the score only.
LEMMA PowerFollowsScore ==
    ASSUME TypeOK, NEW u \in Users, NEW v \in Users, NEW s,
           power[v] # Undefined, PowerWith(u, s)[v] # power[v]
    PROVE  v = u /\ PowerWith(u, s)[v] = s
<1>1. power \in [Users -> Scores \cup {Undefined}]  BY DEF TypeOK
<1>2. CASE s = Undefined /\ power[u] # Undefined  BY <1>2 DEF PowerWith
<1>3. CASE ~(s = Undefined /\ power[u] # Undefined)
  <2>1. PowerWith(u, s) = [power EXCEPT ![u] = IF s = Undefined THEN 0 ELSE s]
    BY <1>3 DEF PowerWith, PowerOrZero
  <2>2. v = u  BY <1>1, <2>1
  <2>3. s # Undefined  BY <1>3, <2>2
  <2>4. QED  BY <1>1, <2>1, <2>2, <2>3
<1>4. QED  BY <1>2, <1>3

\* A power that exists only changes to the score that a request of its user was
\* answered by Snapshot (insertVPQuery), whatever other requests do and fail to do.
THEOREM PowersFollowScores == Spec => OnlyScoresChangePower
<1> DEFINE Scored ==
      \A u \in Users : power[u] # Undefined /\ power'[u] # power[u] =>
          \E r \in Requests : /\ call[r] # NoCall /\ call[r].user = u
                              /\ ScoreIn(reply[r]) = power'[u] /\ call'[r] = NoCall
<1>1. ASSUME TypeOK, [Next]_vars PROVE [Scored]_vars
  <2>1. CASE UNCHANGED vars  BY <2>1
  <2>2. CASE Next
    <3>1. PICK r \in Requests : Handle(r) \/ \E c \in Calls : Submit(r, c)
      BY <2>2 DEF Next
    <3>2. CASE UNCHANGED power  BY <3>2
    <3>3. CASE InsertPick(r) \/ PickInBulk(r)
      <4>1. /\ call[r] # NoCall /\ call'[r] = NoCall
            /\ power' = power \/ power' = PowerWith(call[r].user, ScoreIn(reply[r]))
        BY <1>1, <3>3 DEF InsertPick, PickInBulk, At, Answer, TypeOK
      <4>2. call[r].user \in Users  BY <1>1, <4>1, CallTypes
      <4>3. QED  BY <1>1, <4>1, <4>2, PowerFollowsScore
    <3>4. QED
      BY <3>1, <3>2, <3>3 DEF Handle, Submit, Fail, CheckEdit, CheckLists, FetchScore, CheckOwner,
         Unpick, CreateList, UpdateList, UpdateUnguarded, UpdateAnyList, DeleteList, Grant,
         GrantUnreferenced, Revoke, tables
  <2>3. QED  BY <1>1, <2>1, <2>2
<1>2. QED  BY <1>1, TypeCorrect, PTL DEF Spec, OnlyScoresChangePower

-----------------------------------------------------------------------------
(* Who changes a list.  A grant may be written long after the owner was    *)
(* checked, because a list never changes hands; and updateList may consult *)
(* a query that finds everybody the lists of DEFAULT_LIST_USER_ADDRESS,    *)
(* because there is one such list, which its handler refuses.              *)

OwnersInv ==
    /\ TypeOK
    /\ \A l \in Lists : owner[l] = DefaultUser => l = DefaultList
    /\ \A r \in Requests : At(r, "grant", "allowed") =>
          owner[call[r].list] \in {call[r].user, Gone}

LEMMA OwnersInit == Init => OwnersInv
<1> SUFFICES ASSUME Init PROVE OwnersInv  OBVIOUS
<1>1. TypeOK  BY TablesInit DEF TablesInv
<1>2. \A l \in Lists : owner[l] = DefaultUser => l = DefaultList
  BY ConstantsAssumption DEF Init
<1>3. QED  BY <1>1, <1>2 DEF OwnersInv, Init, At

\* No request reaches "grant, allowed" but through the check of the owner.
LEMMA OwnersNext ==
    ASSUME OwnersInv, TypeOK', [Next]_vars
    PROVE  OwnersInv'
<1>1. CASE Next
  <2>1. PICK r \in Requests : Handle(r) \/ \E c \in Calls : Submit(r, c)
    BY <1>1 DEF Next
  <2>2. TypeOK /\ \A q \in Requests : q # r => call'[q] = call[q] /\ pc'[q] = pc[q]
    BY <2>1 DEF OwnersInv, TypeOK, Handle, Submit, Fail, CheckEdit, CheckLists, FetchScore,
        InsertPick, Unpick, PickInBulk, CreateList, UpdateList, UpdateUnguarded, UpdateAnyList,
        DeleteList, CheckOwner, Grant, GrantUnreferenced, Revoke, Answer, Continue
  <2>3. At(r, "grant", "allowed")' =>
            /\ UNCHANGED owner /\ call'[r] = call[r]
            /\ owner[call[r].list] = call[r].user
    <3>1. CASE CheckOwner(r)
      BY <3>1, <2>2 DEF CheckOwner, Continue, TypeOK, tables
    <3>2. CASE CheckEdit(r) \/ CheckLists(r) \/ FetchScore(r)
      BY <3>2, <2>2 DEF CheckEdit, CheckLists, FetchScore, Continue, TypeOK, At
    <3>3. CASE \E c \in Calls : Submit(r, c)
      BY <3>3, <2>2 DEF Submit, TypeOK, At
    <3>4. CASE Answer(r)
      BY <3>4, <2>2 DEF Answer, TypeOK, At
    <3>5. QED
      BY <2>1, <3>1, <3>2, <3>3, <3>4 DEF Handle, Fail, InsertPick, Unpick, PickInBulk, CreateList,
         UpdateList, UpdateUnguarded, UpdateAnyList, DeleteList, Grant, GrantUnreferenced, Revoke
  <2>4. \/ UNCHANGED owner
        \/ \E l \in Lists, u \in Users : owner[l] = Unborn /\ owner' = [owner EXCEPT ![l] = u]
        \/ \E l \in Lists : owner[l] \in Users /\ owner' = [owner EXCEPT ![l] = Gone]
    <3>1. CASE \E l \in Lists : CreateList(r, l)
      BY <3>1, <2>2, CallTypes DEF CreateList, At
    <3>2. CASE DeleteList(r)
      BY <3>2, <2>2, CallTypes DEF DeleteList, At
    <3>3. QED
      BY <2>1, <3>1, <3>2 DEF Handle, Submit, Fail, CheckEdit, CheckLists, FetchScore, tables,
         InsertPick, Unpick, PickInBulk, UpdateList, UpdateUnguarded, UpdateAnyList,
         CheckOwner, Grant, GrantUnreferenced, Revoke
  <2>5. \A l \in Lists : owner'[l] = DefaultUser => l = DefaultList
    BY <2>2, <2>4, ConstantsAssumption DEF OwnersInv, TypeOK
  <2>6. ASSUME NEW q \in Requests, At(q, "grant", "allowed")'
        PROVE  owner'[call'[q].list] \in {call'[q].user, Gone}
    <3>1. CASE q = r  BY <2>3, <2>6, <3>1
    <3>2. CASE q # r
      <4>1. /\ At(q, "grant", "allowed") /\ call'[q] = call[q]
            /\ owner[call[q].list] \in {call[q].user, Gone}
        BY <2>2, <2>6, <3>2 DEF At, OwnersInv
      <4>2. call[q].user \in Users /\ call[q].list \in Lists
        BY <2>2, <4>1, CallTypes DEF At
      <4>3. QED
        BY <2>2, <2>4, <4>1, <4>2, ConstantsAssumption DEF TypeOK
    <3>3. QED  BY <3>1, <3>2
  <2>7. QED  BY <2>5, <2>6 DEF OwnersInv
<1>2. CASE UNCHANGED vars
  BY <1>2 DEF vars, tables, OwnersInv, At
<1>3. QED  BY <1>1, <1>2

\* A list's existence and its grants only change by a request of its owner.
THEOREM ListsObeyTheirOwner == Spec => OnlyTheOwner
<1> DEFINE Owned ==
      \A l \in Lists : (Exists(l) \/ Exists(l)') /\ (owner'[l] # owner[l] \/ Grants(l)' # Grants(l)) =>
          \E r \in Requests : /\ call[r] # NoCall /\ call'[r] = NoCall
                              /\ call[r].user \in {owner[l], owner'[l]}
<1>1. ASSUME OwnersInv, [Next]_vars PROVE [Owned]_vars
  <2>1. CASE UNCHANGED vars  BY <2>1
  <2>2. CASE Next
    <3>1. PICK r \in Requests : Handle(r) \/ \E c \in Calls : Submit(r, c)
      BY <2>2 DEF Next
    <3>2. TypeOK  BY <1>1 DEF OwnersInv
    <3>3. ASSUME UNCHANGED <<owner, acl>> PROVE Owned
      BY <3>3 DEF Grants
    <3>4. CASE \E l \in Lists : CreateList(r, l)
      <4>1. PICK l \in Lists : CreateList(r, l)  BY <3>4
      <4>2. /\ owner' = [owner EXCEPT ![l] = call[r].user]
            /\ acl' \subseteq acl \cup {PublicGrant(l)} /\ acl \subseteq acl'
            /\ call[r] # NoCall /\ call'[r] = NoCall
        BY <4>1, <3>2 DEF CreateList, Answer, At, TypeOK
      <4>3. \A k \in Lists : k # l => owner'[k] = owner[k] /\ Grants(k)' = Grants(k)
        BY <4>2, <3>2 DEF Grants, PublicGrant, TypeOK
      <4>4. call[r].user = owner'[l]  BY <4>2, <3>2 DEF TypeOK
      <4>5. QED  BY <4>2, <4>3, <4>4
    <3>5. ASSUME UpdateList(r) \/ DeleteList(r) \/ Grant(r) \/ Revoke(r) PROVE Owned
      <4> DEFINE k == call[r].list
      <4>1. call[r] # NoCall /\ call'[r] = NoCall
        BY <3>2, <3>5 DEF UpdateList, UpdateUnguarded, UpdateAnyList, DeleteList, Grant,
            GrantUnreferenced, Revoke, Answer, At, TypeOK
      <4>2. k \in Lists /\ call[r].user \in Users
        BY <3>2, <3>5, CallTypes DEF UpdateList, DeleteList, Grant, Revoke, At
      <4>3. owner[k] = call[r].user
        <5>1. CASE UpdateList(r)
          BY <1>1, <4>2, <5>1 DEF UpdateList, UpdateUnguarded, OwnersInv
        <5>2. CASE DeleteList(r) \/ Revoke(r)  BY <5>2 DEF DeleteList, Revoke
        <5>3. CASE Grant(r)
          BY <1>1, <5>3 DEF Grant, Exists, OwnersInv
        <5>4. QED  BY <3>5, <5>1, <5>2, <5>3
      <4>4. ASSUME NEW l \in Lists, l # k
            PROVE  owner'[l] = owner[l] /\ Grants(l)' = Grants(l)
        <5>1. CASE UpdateList(r)
          <6>1. UNCHANGED owner
            BY <5>1 DEF UpdateList, UpdateUnguarded, UpdateAnyList
          <6>2. \/ acl' = acl \/ acl' = acl \cup {PublicGrant(k)} \/ acl' = acl \ {PublicGrant(k)}
            BY <5>1 DEF UpdateList, UpdateUnguarded, UpdateAnyList
          <6>3. PublicGrant(k)[1] = k  BY DEF PublicGrant
          <6>4. QED  BY <4>4, <6>1, <6>2, <6>3 DEF Grants
        <5>2. CASE DeleteList(r)
          BY <4>4, <5>2, <3>2 DEF DeleteList, Grants, TypeOK
        <5>3. CASE Grant(r)
          BY <4>4, <5>3 DEF Grant, GrantUnreferenced, Grants
        <5>4. CASE Revoke(r)
          BY <4>4, <5>4 DEF Revoke, Grants
        <5>5. QED  BY <3>5, <5>1, <5>2, <5>3, <5>4
      <4>5. QED  BY <4>1, <4>2, <4>3, <4>4
    <3>6. QED
      BY <3>1, <3>3, <3>4, <3>5 DEF Handle, Submit, Fail, CheckEdit, CheckLists, FetchScore,
         CheckOwner, InsertPick, Unpick, PickInBulk, tables
  <2>3. QED  BY <1>1, <2>1, <2>2
<1>2. Spec => []OwnersInv
  BY OwnersInit, OwnersNext, TypeCorrect, PTL DEF Spec
<1>3. QED  BY <1>1, <1>2, PTL DEF Spec, OnlyTheOwner
=============================================================================
