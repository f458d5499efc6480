---------------------------- MODULE AccessToken ----------------------------
(***************************************************************************)
(* The access token of Transak that all requests, of all processes, share: *)
(* getOrRefreshAccessToken of src/src/ports/transak/component.ts.          *)
(*                                                                         *)
(* The token and the lock that guards it are keys of a cache, each with a  *)
(* time to live.  The lock is gone when its time is over, whether or not   *)
(* whoever took it is still at work, and is released by its key.           *)
(***************************************************************************)
EXTENDS Naturals

CONSTANTS
    Requests,
    LockTTL,      \* THIRTY_SECONDS_IN_MILLISECONDS
    MaxHold,      \* how long a request works under the lock: the code sets no limit
    TokenLife,    \* how long Transak lets a token live
    MaxTime, MaxTokens  \* bounds of the model

ASSUME NumbersAssumption ==
    {LockTTL, MaxHold, TokenLife, MaxTime, MaxTokens} \subseteq Nat

\* Work under the lock is shorter than its time to live.
Timely == MaxHold < LockTTL

VARIABLES
    now,
    lockedUntil,  \* the lock is there before this time
    cached,       \* the cached token and until when it is there
    issued,       \* tokens issued by Transak; a token is its number, 0 is none
    pc, force, since, token  \* of each request: since when it has the lock,
                             \* what it will return

request == <<pc, force, since, token>>
vars == <<now, lockedUntil, cached, issued, request>>

AtWork == {"locked", "fetching", "storing", "leaving"}
Token == [id : Nat, until : Nat]
NoToken == [id |-> 0, until |-> 0]

TypeOK ==
    /\ now \in Nat /\ lockedUntil \in Nat /\ issued \in Nat
    /\ cached \in Token
    /\ pc \in [Requests -> AtWork \cup {"idle", "waiting"}]
    /\ force \in [Requests -> BOOLEAN]
    /\ since \in [Requests -> Nat]
    /\ token \in [Requests -> Token]
    /\ \A r \in Requests : pc[r] = "storing" => token[r].id # 0

Init ==
    /\ now = 0 /\ lockedUntil = 0 /\ issued = 0
    /\ cached = NoToken
    /\ pc = [r \in Requests |-> "idle"]
    /\ force = [r \in Requests |-> FALSE]
    /\ since = [r \in Requests |-> 0]
    /\ token = [r \in Requests |-> NoToken]

-----------------------------------------------------------------------------
CachedNow == cached.id # 0 /\ now < cached.until
Locked == now < lockedUntil
Goto(r, there) == pc' = [pc EXCEPT ![r] = there]

\* The request is over and forgotten.
End(r) ==
    /\ Goto(r, "idle")
    /\ force' = [force EXCEPT ![r] = FALSE]
    /\ since' = [since EXCEPT ![r] = 0]
    /\ token' = [token EXCEPT ![r] = NoToken]

Ask(r) ==
    /\ pc[r] = "idle"
    /\ \E f \in BOOLEAN : force' = [force EXCEPT ![r] = f]
    /\ Goto(r, "waiting")
    /\ UNCHANGED <<now, lockedUntil, cached, issued, since, token>>

AcquireAnyway(r) ==
    /\ pc[r] = "waiting"
    /\ lockedUntil' = now + LockTTL
    /\ since' = [since EXCEPT ![r] = now]
    /\ Goto(r, "locked")
    /\ UNCHANGED <<now, cached, issued, force, token>>

\* tryAcquireLock.
Acquire(r) == ~Locked /\ AcquireAnyway(r)

WaitOn(r) == FALSE

\* The lock was taken each of the LOCK_RETRIES times: `Failed to acquire lock'.
GiveUp(r) ==
    /\ pc[r] = "waiting" /\ Locked
    /\ End(r)
    /\ UNCHANGED <<now, lockedUntil, cached, issued>>

ReadBlindly(r) ==
    /\ pc[r] = "locked"
    /\ Goto(r, "fetching")
    /\ UNCHANGED <<now, lockedUntil, cached, issued, force, since, token>>

\* The cache is read under the lock, so the token of whoever had it is seen.
Read(r) ==
    \/ ReadBlindly(r) /\ (~CachedNow \/ force[r])
    \/ /\ pc[r] = "locked"
       /\ CachedNow /\ ~force[r]
       /\ token' = [token EXCEPT ![r] = cached]
       /\ Goto(r, "leaving")
       /\ UNCHANGED <<now, lockedUntil, cached, issued, force, since>>

\* getAccessToken: Transak answers with a new token.
Fetch(r) ==
    /\ pc[r] = "fetching" /\ issued < MaxTokens
    /\ issued' = issued + 1
    /\ token' = [token EXCEPT ![r] = [id |-> issued + 1, until |-> now + TokenLife]]
    /\ Goto(r, "storing")
    /\ UNCHANGED <<now, lockedUntil, cached, force, since>>

\* The token stays in the cache as long as it lives.
Store(r) ==
    /\ pc[r] = "storing"
    /\ cached' = token[r]
    /\ Goto(r, "leaving")
    /\ UNCHANGED <<now, lockedUntil, issued, force, since, token>>

\* Transak or the cache fails; what was thrown waits for the finally block.
Throw(r) ==
    /\ pc[r] \in AtWork \ {"leaving"}
    /\ token' = [token EXCEPT ![r] = NoToken]
    /\ Goto(r, "leaving")
    /\ UNCHANGED <<now, lockedUntil, cached, issued, force, since>>

\* The lock is not deleted but left to expire.
ExpireLock(r) ==
    /\ pc[r] = "leaving"
    /\ lockedUntil' = now - LockTTL
    /\ End(r)
    /\ UNCHANGED <<now, cached, issued>>

\* tryReleaseLock, on every way out of the try block.
Leave(r) ==
    /\ pc[r] = "leaving"
    /\ lockedUntil' = 0
    /\ End(r)
    /\ UNCHANGED <<now, cached, issued>>

\* The process dies: only time takes its lock.
Die(r) ==
    /\ pc[r] # "idle"
    /\ End(r)
    /\ UNCHANGED <<now, lockedUntil, cached, issued>>

Tick ==
    /\ now < MaxTime
    /\ \A r \in Requests : pc[r] \in AtWork => now < since[r] + MaxHold
    /\ now' = now + 1
    /\ UNCHANGED <<lockedUntil, cached, issued, request>>

-----------------------------------------------------------------------------
Work(r) == Read(r) \/ Fetch(r) \/ Store(r) \/ Throw(r) \/ Leave(r)
Serve(r) == Acquire(r) \/ GiveUp(r) \/ Work(r)
Next == Tick \/ \E r \in Requests : Ask(r) \/ Serve(r) \/ Die(r)

Spec == Init /\ [][Next]_vars

\* A request goes on while its process lives: retries are counted, and a fetch
\* ends, if only by failing.
FairSpec == Spec /\ \A r \in Requests : WF_vars(Serve(r))

-----------------------------------------------------------------------------
(* Properties.                                                             *)

\* The lock does what the comment of getOrRefreshAccessToken says of it: while
\* work under it is timely, two requests are never at work at once, though
\* processes die with the lock and locks run out.
OneAtATime ==
    \A r, q \in Requests : pc[r] \in AtWork /\ pc[q] \in AtWork => r = q

\* An older token never replaces a newer one in the cache.
NewerTokens == [][cached'.id >= cached.id]_cached

\* Only the absence of a token, or force, makes Transak issue one: requests that
\* waited while another refreshed use its token.
NoNeedlessRefresh ==
    [][issued' # issued => ~CachedNow \/ \E r \in Requests : pc[r] = "fetching" /\ force[r]]_vars

\* Every request ends, also when the lock is never free for it.
EachAnswered == \A r \in Requests : pc[r] = "waiting" ~> pc[r] = "idle"
=============================================================================
