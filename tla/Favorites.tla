----------------------------- MODULE Favorites -----------------------------
(***************************************************************************)
(* Lists, grants, picks and voting power: src/src/ports/favorites and the  *)
(* guards of src/src/controllers/handlers/favorites.                       *)
(*                                                                         *)
(* Several requests run at a time.  A statement or transaction is one step *)
(* (its statements touch the row of the list, which orders them); between  *)
(* its checks, the call to Snapshot and its transaction a request yields,  *)
(* and what it has checked may have changed.                               *)
(***************************************************************************)
EXTENDS Naturals, FiniteSets

CONSTANTS
    Requests,      \* requests under way at a time; each is used again
    Calls,         \* what clients ask for
    NoCall,
    Users, Items, Lists, Scores,
    DefaultList,   \* DEFAULT_LIST_ID, everybody's list
    DefaultUser,   \* DEFAULT_LIST_USER_ADDRESS, its owner: no user
    Everyone,      \* GRANTED_TO_ALL
    Unborn, Gone,  \* the owner of a list not created yet, or deleted
    ErrorReply,    \* an answer of Snapshot without a result
    Undefined      \* no answer, no power, no `private' in the body

ASSUME ConstantsAssumption ==
    /\ DefaultList \in Lists
    /\ 0 \in Scores /\ {Undefined, ErrorReply} \cap Scores = {}
    /\ Undefined # ErrorReply
    /\ {DefaultUser, Everyone, Unborn, Gone} \cap Users = {}
    /\ DefaultUser # Unborn /\ DefaultUser # Gone /\ Unborn # Gone
    /\ NoCall \notin Calls
    /\ \A c \in Calls :
          /\ c.user \in Users
          /\ c.op \in {"pick", "unpick", "bulk", "create", "update", "delete",
                       "grant", "revoke"}
          /\ c.op \notin {"bulk", "create"} => c.list \in Lists
          /\ c.op \in {"pick", "unpick", "bulk"} => c.item \in Items
          /\ c.op = "bulk" => c.pickedFor \subseteq Lists
          /\ c.op \in {"grant", "revoke"} =>
                <<c.permission, c.grantee>> \in {"view", "edit"} \X (Users \cup {Everyone})

VARIABLES
    owner,     \* favorites.lists: the owner of each list
    acl,       \* favorites.acl
    picks,     \* favorites.picks
    power,     \* favorites.voting
    call, pc,  \* what each request is for, and how far it is
    reply      \* what Snapshot has answered to each request

tables == <<owner, acl, picks, power>>
vars == <<tables, call, pc, reply>>

TypeOK ==
    /\ owner \in [Lists -> Users \cup {DefaultUser, Unborn, Gone}]
    /\ acl \subseteq Lists \X {"view", "edit"} \X (Users \cup {Everyone})
    /\ picks \subseteq Items \X Users \X Lists
    /\ power \in [Users -> Scores \cup {Undefined}]
    /\ call \in [Requests -> Calls \cup {NoCall}]
    /\ pc \in [Requests -> {"idle", "submitted", "allowed", "fetched"}]
    /\ reply \in [Requests -> Scores \cup {ErrorReply, Undefined}]
    /\ \A r \in Requests : reply[r] # Undefined => pc[r] = "fetched"

Init ==
    /\ owner = [l \in Lists |-> IF l = DefaultList THEN DefaultUser ELSE Unborn]
    /\ acl = {} /\ picks = {}
    /\ power = [u \in Users |-> Undefined]
    /\ call = [r \in Requests |-> NoCall]
    /\ pc = [r \in Requests |-> "idle"]
    /\ reply = [r \in Requests |-> Undefined]

-----------------------------------------------------------------------------
Exists(l) == owner[l] \notin {Unborn, Gone}
Grants(l) == {g \in acl : g[1] = l}
PublicGrant(l) == <<l, "view", Everyone>>

\* getListQuery with requiredPermission EDIT.
MayEdit(l, u) ==
    \/ owner[l] \in {u, DefaultUser}
    \/ \E to \in {u, Everyone} : <<l, "edit", to>> \in acl

\* checkNonEditableLists: its LEFT JOIN finds, among other people's lists, those
\* with a grant that is not an edit grant to u or to everyone; a list without
\* grants is not found.
NonEditable(l, u) ==
    /\ Exists(l) /\ owner[l] # u
    /\ \E g \in Grants(l) : g[2] # "edit" \/ g[3] \notin {u, Everyone}

\* getScore: `(body?.result?.vp || 0) | 0'; it throws without an answer only.
ScoreIn(answer) == IF answer = ErrorReply THEN 0 ELSE answer

PowerOrZero(u, s) == [power EXCEPT ![u] = IF s = Undefined THEN 0 ELSE s]
PowerIfKnown(u, s) == IF s = Undefined THEN power ELSE [power EXCEPT ![u] = s]

\* insertVPQuery: without a score an existing power stays and a new one is 0.
PowerWith(u, s) ==
    IF s = Undefined /\ power[u] # Undefined THEN power ELSE PowerOrZero(u, s)

At(r, op, stage) == call[r] # NoCall /\ call[r].op = op /\ pc[r] = stage
Continue(r, stage) == pc' = [pc EXCEPT ![r] = stage] /\ UNCHANGED call

\* The answer is kept for the next request (`power' outside of the handler).
AnswerOnly(r) ==
    /\ pc' = [pc EXCEPT ![r] = "idle"]
    /\ call' = [call EXCEPT ![r] = NoCall]
    /\ UNCHANGED reply

\* The request is answered, well or not.
Answer(r) ==
    /\ pc' = [pc EXCEPT ![r] = "idle"]
    /\ call' = [call EXCEPT ![r] = NoCall]
    /\ reply' = [reply EXCEPT ![r] = Undefined]

Submit(r, c) ==
    /\ pc[r] = "idle"
    /\ pc' = [pc EXCEPT ![r] = "submitted"]
    /\ call' = [call EXCEPT ![r] = c]
    /\ UNCHANGED <<tables, reply>>

\* A check, a query or an RPC fails, a transaction is undone, the process dies.
Fail(r) == call[r] # NoCall /\ Answer(r) /\ UNCHANGED tables

-----------------------------------------------------------------------------
(* Picks: addPickToList, deletePickInList, pickAndUnpickInBulk.            *)

CheckEdit(r) ==
    /\ At(r, "pick", "submitted")
    /\ MayEdit(call[r].list, call[r].user)
    /\ Continue(r, "allowed")
    /\ UNCHANGED <<tables, reply>>

\* The score is not fetched when nothing is picked.
CheckLists(r) ==
    /\ At(r, "bulk", "submitted")
    /\ \A l \in call[r].pickedFor \cup call[r].unpickedFrom :
          ~NonEditable(l, call[r].user)
    /\ Continue(r, IF call[r].pickedFor = {} THEN "fetched" ELSE "allowed")
    /\ UNCHANGED <<tables, reply>>

\* getScore, whose failure is logged, and validateItemExists.
FetchScore(r) ==
    /\ At(r, "pick", "allowed") \/ At(r, "bulk", "allowed")
    /\ \E answer \in Scores \cup {ErrorReply, Undefined} :
          reply' = [reply EXCEPT ![r] = answer]
    /\ Continue(r, "fetched")
    /\ UNCHANGED tables

\* The foreign key needs the list, the primary key that the pick is new.
InsertPick(r) ==
    LET c == call[r]
        p == <<c.item, c.user, c.list>>
    IN  /\ At(r, "pick", "fetched")
        /\ Exists(c.list) /\ p \notin picks
        /\ picks' = picks \cup {p}
        /\ power' = PowerWith(c.user, ScoreIn(reply[r]))
        /\ Answer(r)
        /\ UNCHANGED <<owner, acl>>

Unpick(r) ==
    LET c == call[r] IN
    /\ At(r, "unpick", "submitted")
    /\ picks' = picks \ {<<c.item, c.user, c.list>>}
    /\ Answer(r)
    /\ UNCHANGED <<owner, acl, power>>

\* INSERT ... SELECT takes the lists that exist by now; DELETE comes after it.
PickInBulk(r) ==
    LET c == call[r]
        new == {<<c.item, c.user, l>> : l \in {k \in c.pickedFor : Exists(k)}}
        old == {<<c.item, c.user, l>> : l \in c.unpickedFrom}
    IN  /\ At(r, "bulk", "fetched")
        /\ new \cap picks = {}
        /\ picks' = (picks \cup new) \ old
        /\ power' = IF c.pickedFor = {} THEN power ELSE PowerWith(c.user, ScoreIn(reply[r]))
        /\ Answer(r)
        /\ UNCHANGED <<owner, acl>>

-----------------------------------------------------------------------------
(* Lists: addList, updateList, deleteList.                                 *)

CreateList(r, l) ==
    /\ At(r, "create", "submitted")
    /\ owner[l] = Unborn
    /\ owner' = [owner EXCEPT ![l] = call[r].user]
    /\ acl' = IF call[r].private THEN acl ELSE acl \cup {PublicGrant(l)}
    /\ Answer(r)
    /\ UNCHANGED <<picks, power>>

\* What updateList's transaction writes before it looks whether the list is
\* this user's.  Without `private' in the body it inserts the public grant.
UpdateAnyList(r) ==
    LET c == call[r] IN
    /\ At(r, "update", "submitted")
    /\ Exists(c.list)
    /\ acl' = IF c.private # TRUE THEN acl \cup {PublicGrant(c.list)}
              ELSE IF owner[c.list] = c.user THEN acl \ {PublicGrant(c.list)}
              ELSE acl
    /\ Answer(r)
    /\ UNCHANGED <<owner, picks, power>>

UpdateUnguarded(r) ==
    /\ At(r, "update", "submitted")
    /\ owner[call[r].list] \in {call[r].user, DefaultUser}
    /\ UpdateAnyList(r)

\* updateListHandler refuses the default list, which getListQuery would find
\* for every user; for anyone else's list the transaction is undone.
UpdateList(r) ==
    /\ At(r, "update", "submitted")
    /\ call[r].list # DefaultList
    /\ UpdateUnguarded(r)

\* Grants and picks go with the list (ON DELETE CASCADE).
DeleteList(r) ==
    LET c == call[r] IN
    /\ At(r, "delete", "submitted")
    /\ owner[c.list] = c.user
    /\ owner' = [owner EXCEPT ![c.list] = Gone]
    /\ acl' = acl \ Grants(c.list)
    /\ picks' = {p \in picks : p[3] # c.list}
    /\ Answer(r)
    /\ UNCHANGED power

-----------------------------------------------------------------------------
(* Grants: createAccess, deleteAccess.                                     *)

\* getList with considerDefaultList FALSE.
CheckOwner(r) ==
    /\ At(r, "grant", "submitted")
    /\ owner[call[r].list] = call[r].user
    /\ Continue(r, "allowed")
    /\ UNCHANGED <<tables, reply>>

GrantUnreferenced(r) ==
    LET c == call[r] IN
    /\ At(r, "grant", "allowed")
    /\ acl' = acl \cup {<<c.list, c.permission, c.grantee>>}
    /\ Answer(r)
    /\ UNCHANGED <<owner, picks, power>>

\* The foreign key needs the list; an existing grant is left as it is.
Grant(r) ==
    /\ At(r, "grant", "allowed") /\ Exists(call[r].list)
    /\ GrantUnreferenced(r)

Revoke(r) ==
    LET c == call[r] IN
    /\ At(r, "revoke", "submitted")
    /\ owner[c.list] = c.user
    /\ acl' = acl \ {<<c.list, c.permission, c.grantee>>}
    /\ Answer(r)
    /\ UNCHANGED <<owner, picks, power>>

-----------------------------------------------------------------------------
Handle(r) ==
    \/ CheckEdit(r) \/ CheckLists(r) \/ FetchScore(r)
    \/ InsertPick(r) \/ Unpick(r) \/ PickInBulk(r)
    \/ \E l \in Lists : CreateList(r, l)
    \/ UpdateList(r) \/ DeleteList(r)
    \/ CheckOwner(r) \/ Grant(r) \/ Revoke(r)
    \/ Fail(r)

Next == \E r \in Requests : Handle(r) \/ \E c \in Calls : Submit(r, c)

Spec == Init /\ [][Next]_vars

-----------------------------------------------------------------------------
(* Properties.                                                             *)

\* Whoever has a pick has a voting power: getPicksStats and getPicksByItemId
\* join the two tables and would not count the pick.  It holds when Snapshot
\* fails, and on both ways to pick.
EveryPickVotes == \A p \in picks : power[p[2]] # Undefined

\* A power only changes to what Snapshot answered to a request of that user: not
\* to another user's score, and nobody's votes are reset while Snapshot is down.
OnlyScoresChangePower ==
    [][\A u \in Users : power[u] # Undefined /\ power'[u] # power[u] =>
          \E r \in Requests : /\ call[r] # NoCall /\ call[r].user = u
                              /\ ScoreIn(reply[r]) = power'[u] /\ call'[r] = NoCall]_vars

\* As insertVPQuery's comment has it, a query of Snapshot that fails does not
\* overwrite a power: an answer that is an error counts as a failure.
FailuresKeepPower ==
    [][\A u \in Users : power[u] # Undefined /\ power'[u] # power[u] =>
          \E r \in Requests : reply[r] = power'[u] /\ call'[r] = NoCall]_vars

\* A list's existence and grants change by requests of its owner only, also when
\* the write comes before the check (updateList) or long after it (createAccess);
\* so those of the default list never change.
OnlyTheOwner ==
    [][\A l \in Lists : (Exists(l) \/ Exists(l)') /\ (owner'[l] # owner[l] \/ Grants(l)' # Grants(l)) =>
          \E r \in Requests : /\ call[r] # NoCall /\ call'[r] = NoCall
                              /\ call[r].user \in {owner[l], owner'[l]}]_vars

\* No grant or pick outlives its list, though the list may be deleted between a
\* request's check and its write.
NothingOutlivesItsList ==
    /\ \A g \in acl : Exists(g[1])
    /\ \A p \in picks : Exists(p[3])

\* Who may add a pick to a list may add it in bulk: an edit grant gives as much
\* in checkNonEditableLists as in getListQuery (docs/database-schema.md).
EditorsMayPickInBulk == \A l \in Lists, u \in Users : MayEdit(l, u) => ~NonEditable(l, u)
=============================================================================
