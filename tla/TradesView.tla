----------------------------- MODULE TradesView -----------------------------
(***************************************************************************)
(* The refresh of the materialized view marketplace.mv_trades              *)
(* (src/src/logic/trades/materialized-view.ts).                            *)
(*                                                                         *)
(* Writers are database transactions (POST /v1/trades, the squid indexers) *)
(* whose statements fire the trigger function refresh_trades_mv().         *)
(* Flushers are server processes, each running the 30 second job           *)
(* flushTradesMaterializedViewIfDirty().  The two paths share one row of   *)
(* mv_trades_refresh_state, here `gate'.                                   *)
(*                                                                         *)
(* Data is abstracted to the set of statements it contains: <<w, i>> is    *)
(* the i-th statement of writer w.  Time is abstracted to ages that Tick   *)
(* advances, so gate.age is now() - last_refresh.                          *)
(***************************************************************************)
EXTENDS Integers, FiniteSets

CONSTANTS
    Writers,        \* the transactions, each run once
    Flushers,       \* the server processes with a flush job
    NoOne,          \* holds a lock that is free
    MaxStatements,  \* bound: statements of one transaction
    Interval,       \* TRADES_MV_REFRESH_INTERVAL_SECONDS, in ticks
    MaxTxAge,       \* bound: ticks a transaction stays open
    MaxFlushAge     \* bound: ticks between a flush's claim and its REFRESH's end

ASSUME ConstantsAssumption ==
    /\ MaxStatements \in Nat \ {0}
    /\ Interval \in Nat
    /\ MaxTxAge \in Nat
    /\ MaxFlushAge \in Nat
    /\ Writers \cap Flushers = {}
    /\ NoOne \notin Writers \cup Flushers

VARIABLES
    committed,     \* statements of the committed transactions
    view,          \* statements the view that readers see was computed from
    gate,          \* the committed row of mv_trades_refresh_state
    rowLock,       \* the writer whose transaction has updated that row
    pendingGate,   \* the version of the row in rowLock's transaction
    viewLock,      \* the writer whose transaction has refreshed the view
    pendingView,   \* the view in viewLock's transaction
    pc,            \* what each writer is doing
    done,          \* statements each writer has executed
    txAge,         \* clock_timestamp() - now() in each writer's transaction
    flush,         \* what each flusher is doing
    flushAge,      \* ticks since each flusher's last claim
    snapshot       \* what the REFRESH of each writer or flusher will contain

vars == <<committed, view, gate, rowLock, pendingGate, viewLock, pendingView,
          pc, done, txAge, flush, flushAge, snapshot>>
locks == <<rowLock, pendingGate, viewLock, pendingView>>

Statements == Writers \X (1 .. MaxStatements)
\* An age at which the gate is open for every transaction: ages stop here.
MaxAge == Interval + MaxTxAge + 1
Older(age) == IF age < MaxAge THEN age + 1 ELSE age

Gate == [dirty : BOOLEAN, age : 0 .. MaxAge]
Active == {"running", "marking", "refreshing", "waiting"}
InFlight == {"claimed", "waiting"}

TypeOK ==
    /\ committed \subseteq Statements
    /\ view \subseteq Statements
    /\ gate \in Gate
    /\ rowLock \in Writers \cup {NoOne}
    /\ pendingGate \in Gate
    /\ viewLock \in Writers \cup {NoOne}
    /\ pendingView \subseteq Statements
    /\ pc \in [Writers -> Active \cup {"idle", "committed", "aborted"}]
    /\ done \in [Writers -> 0 .. MaxStatements]
    /\ txAge \in [Writers -> 0 .. MaxTxAge]
    /\ flush \in [Flushers -> InFlight \cup {"idle", "failed"}]
    /\ flushAge \in [Flushers -> 0 .. MaxFlushAge]
    /\ snapshot \in [Writers \cup Flushers -> SUBSET Statements]

\* ensureTradesRefreshGate inserts the row with last_refresh = '-infinity'.
Init ==
    /\ committed = {}
    /\ view = {}
    /\ gate = [dirty |-> FALSE, age |-> MaxAge]
    /\ rowLock = NoOne
    /\ pendingGate = gate
    /\ viewLock = NoOne
    /\ pendingView = {}
    /\ pc = [w \in Writers |-> "idle"]
    /\ done = [w \in Writers |-> 0]
    /\ txAge = [w \in Writers |-> 0]
    /\ flush = [f \in Flushers |-> "idle"]
    /\ flushAge = [f \in Flushers |-> 0]
    /\ snapshot = [p \in Writers \cup Flushers |-> {}]

-----------------------------------------------------------------------------
(* The writers' transactions.                                              *)

OwnFromZero(w) == {w} \X (0 .. done[w])
Own(w) == {w} \X (1 .. done[w])
RowFree(w) == rowLock \in {NoOne, w}
\* The row as w's transaction reads it: its own version, or the committed one.
Row(w) == IF rowLock = w THEN pendingGate ELSE gate
\* The gate without its interval.
StampedBefore(w) == Row(w).age > txAge[w]
\* last_refresh < now() - interval, where now() is when the transaction began.
GateOpen(w) == Row(w).age > Interval + txAge[w]

Begin(w) ==
    /\ pc[w] = "idle"
    /\ pc' = [pc EXCEPT ![w] = "running"]
    /\ UNCHANGED <<committed, view, gate, locks, done, txAge, flush, flushAge,
                   snapshot>>

\* A statement ends and its trigger's gating UPDATE (FOR UPDATE SKIP LOCKED)
\* finds the gate open: this transaction refreshes.
StatementClaims(w) ==
    /\ pc[w] = "running" /\ done[w] < MaxStatements
    /\ RowFree(w) /\ GateOpen(w)
    /\ rowLock' = w
    /\ pendingGate' = [dirty |-> FALSE, age |-> 0]
    /\ done' = [done EXCEPT ![w] = @ + 1]
    /\ pc' = [pc EXCEPT ![w] = "refreshing"]
    /\ UNCHANGED <<committed, view, gate, viewLock, pendingView, txAge, flush,
                   flushAge, snapshot>>

\* The gating UPDATE finds no row: locked by another, or refreshed lately.
StatementSkips(w) ==
    /\ pc[w] = "running" /\ done[w] < MaxStatements
    /\ ~(RowFree(w) /\ GateOpen(w))
    /\ done' = [done EXCEPT ![w] = @ + 1]
    /\ pc' = [pc EXCEPT ![w] = "marking"]
    /\ UNCHANGED <<committed, view, gate, locks, txAge, flush, flushAge,
                   snapshot>>

\* The ELSE branch, UPDATE ... SET dirty = true: it waits for the row lock and
\* keeps it until the transaction ends.
MarkDirty(w) ==
    /\ pc[w] = "marking"
    /\ RowFree(w)
    /\ rowLock' = w
    /\ pendingGate' = [Row(w) EXCEPT !.dirty = TRUE]
    /\ pc' = [pc EXCEPT ![w] = "running"]
    /\ UNCHANGED <<committed, view, gate, viewLock, pendingView, done, txAge,
                   flush, flushAge, snapshot>>

\* REFRESH takes its snapshot before it waits for the view's exclusive lock.
TakeSnapshot(w) ==
    /\ pc[w] = "refreshing"
    /\ snapshot' = [snapshot EXCEPT ![w] = committed \cup Own(w)]
    /\ pc' = [pc EXCEPT ![w] = "waiting"]
    /\ UNCHANGED <<committed, view, gate, locks, done, txAge, flush, flushAge>>

RefreshAtOnce(w) ==
    /\ pc[w] = "waiting"
    /\ viewLock = NoOne
    /\ view' = snapshot[w]
    /\ pendingView' = view'
    /\ pc' = [pc EXCEPT ![w] = "running"]
    /\ UNCHANGED <<committed, gate, rowLock, pendingGate, viewLock, done, txAge,
                   flush, flushAge, snapshot>>

\* The new contents are visible to w only, until w commits.
RefreshInTx(w) ==
    /\ pc[w] = "waiting"
    /\ viewLock = NoOne
    /\ viewLock' = w
    /\ pendingView' = snapshot[w]
    /\ pc' = [pc EXCEPT ![w] = "running"]
    /\ UNCHANGED <<committed, view, gate, rowLock, pendingGate, done, txAge,
                   flush, flushAge, snapshot>>

ReleaseLocks(w) ==
    /\ rowLock' = IF rowLock = w THEN NoOne ELSE rowLock
    /\ pendingGate' = IF rowLock = w THEN gate' ELSE pendingGate
    /\ viewLock' = IF viewLock = w THEN NoOne ELSE viewLock
    /\ pendingView' = IF viewLock = w THEN view' ELSE pendingView

Commit(w) ==
    /\ pc[w] = "running"
    /\ pc' = [pc EXCEPT ![w] = "committed"]
    /\ committed' = committed \cup Own(w)
    /\ gate' = Row(w)
    /\ view' = IF viewLock = w THEN pendingView ELSE view
    /\ ReleaseLocks(w)
    /\ UNCHANGED <<done, txAge, flush, flushAge, snapshot>>

\* A failing statement (REFRESH included), a validation error or a lost
\* connection: everything the transaction did is undone.
Rollback(w) ==
    /\ pc[w] \in Active
    /\ pc' = [pc EXCEPT ![w] = "aborted"]
    /\ UNCHANGED <<committed, view, gate, done, txAge, flush, flushAge, snapshot>>
    /\ ReleaseLocks(w)

-----------------------------------------------------------------------------
(* The flush job.                                                          *)

\* The claim, a committed statement of its own: it needs a dirty row that no
\* transaction has locked and whose interval has elapsed.
FlushClaim(f) ==
    /\ flush[f] = "idle"
    /\ rowLock = NoOne
    /\ gate.dirty /\ gate.age > Interval
    /\ gate' = [dirty |-> FALSE, age |-> 0]
    /\ pendingGate' = gate'
    /\ flush' = [flush EXCEPT ![f] = "claimed"]
    /\ flushAge' = [flushAge EXCEPT ![f] = 0]
    /\ UNCHANGED <<committed, view, rowLock, viewLock, pendingView, pc, done,
                   txAge, snapshot>>

\* The REFRESH, a second statement, begins with its snapshot ...
FlushSnapshot(f) ==
    /\ flush[f] = "claimed"
    /\ flush' = [flush EXCEPT ![f] = "waiting"]
    /\ snapshot' = [snapshot EXCEPT ![f] = committed]
    /\ UNCHANGED <<committed, view, gate, locks, pc, done, txAge, flushAge>>

\* ... and ends, when it has had the view's lock, by replacing the contents.
FlushRefresh(f) ==
    /\ flush[f] = "waiting"
    /\ viewLock = NoOne
    /\ view' = snapshot[f]
    /\ pendingView' = view'
    /\ flush' = [flush EXCEPT ![f] = "idle"]
    /\ UNCHANGED <<committed, gate, rowLock, pendingGate, viewLock, pc, done,
                   txAge, flushAge, snapshot>>

FlushFails(f) ==
    /\ flush[f] = "waiting"
    /\ flush' = [flush EXCEPT ![f] = "failed"]
    /\ UNCHANGED <<committed, view, gate, locks, pc, done, txAge, flushAge,
                   snapshot>>

\* The process dies, or the UPDATE of the catch block fails too: the claim is
\* committed and nothing marks the row again.
FlushDies(f) ==
    /\ flush[f] \in InFlight \cup {"failed"}
    /\ flush' = [flush EXCEPT ![f] = "idle"]
    /\ UNCHANGED <<committed, view, gate, locks, pc, done, txAge, flushAge,
                   snapshot>>

\* The catch block: UPDATE ... SET dirty = true, then rethrow.
FlushRemarks(f) ==
    /\ flush[f] = "failed"
    /\ rowLock = NoOne
    /\ gate' = [gate EXCEPT !.dirty = TRUE]
    /\ pendingGate' = gate'
    /\ flush' = [flush EXCEPT ![f] = "idle"]
    /\ UNCHANGED <<committed, view, rowLock, viewLock, pendingView, pc, done,
                   txAge, flushAge, snapshot>>

\* POST /v1/trades/materialized-view/recreate: drops the triggers and the view,
\* so it waits for every transaction that has fired one and for every REFRESH,
\* and populates the new view.  It leaves the gate as it is.  When it fails its
\* transaction is undone.
Recreate ==
    /\ \A w \in Writers : pc[w] \in Active => done[w] = 0
    /\ \A f \in Flushers : flush[f] # "waiting"
    /\ view' = committed
    /\ pendingView' = view'
    /\ UNCHANGED <<committed, gate, rowLock, pendingGate, viewLock, pc, done,
                   txAge, flush, flushAge, snapshot>>

\* One tick.  The bounds on transactions and flushes are assumptions on time.
Tick ==
    /\ \A w \in Writers : pc[w] \in Active => txAge[w] < MaxTxAge
    /\ \A f \in Flushers : flush[f] \in InFlight => flushAge[f] < MaxFlushAge
    /\ gate' = [gate EXCEPT !.age = Older(@)]
    /\ pendingGate' = [pendingGate EXCEPT !.age = Older(@)]
    /\ txAge' = [w \in Writers |->
                    IF pc[w] \in Active THEN txAge[w] + 1 ELSE txAge[w]]
    /\ flushAge' = [f \in Flushers |->
                    IF flush[f] \in InFlight THEN flushAge[f] + 1 ELSE flushAge[f]]
    /\ UNCHANGED <<committed, view, rowLock, viewLock, pendingView, pc, done,
                   flush, snapshot>>

-----------------------------------------------------------------------------
Write(w) ==
    \/ StatementClaims(w) \/ StatementSkips(w) \/ MarkDirty(w)
    \/ TakeSnapshot(w) \/ RefreshInTx(w)

Flush(f) ==
    \/ FlushClaim(f) \/ FlushSnapshot(f) \/ FlushRefresh(f)
    \/ FlushFails(f) \/ FlushRemarks(f)

Next ==
    \/ \E w \in Writers : Begin(w) \/ Write(w) \/ Commit(w) \/ Rollback(w)
    \/ \E f \in Flushers : Flush(f)
    \/ Recreate
    \/ Tick

Spec == Init /\ [][Next]_vars

\* Time passes; an open transaction ends; each job keeps ticking and its steps
\* are taken; the REFRESH does not fail for ever.  Nobody has to begin.
Fairness ==
    /\ WF_vars(Tick)
    /\ \A w \in Writers :
          /\ WF_vars(Write(w))
          /\ WF_vars(Commit(w))
    /\ \A f \in Flushers :
          /\ WF_vars(FlushClaim(f))
          /\ WF_vars(FlushSnapshot(f))
          /\ WF_vars(FlushRemarks(f))
          /\ SF_vars(FlushRefresh(f))

FairSpec == Spec /\ Fairness

\* The same system when a server process can die between two statements.
NextWithDeaths == Next \/ \E f \in Flushers : FlushDies(f)
FairSpecWithDeaths == Init /\ [][NextWithDeaths]_vars /\ Fairness

-----------------------------------------------------------------------------
(* Properties.                                                             *)

\* Someone has undertaken to bring the missing statement s to the view: the
\* next flush (the row is dirty), or a flush under way.
Owed(s) ==
    \/ gate.dirty
    \/ \E f \in Flushers :
          \/ flush[f] \in {"claimed", "failed"}
          \/ flush[f] = "waiting" /\ s \in snapshot[f]

\* No committed write is forgotten: whatever the view lacks is owed by the
\* trigger's dirty mark or by a flush that has claimed it.
NothingLost == \A s \in committed \ view : Owed(s)

\* From claim to end, a refresh is the only one: two flushers, or a flusher and
\* a trigger, never both refresh.
Refreshing == {w \in Writers : pc[w] \in {"refreshing", "waiting"} \/ viewLock = w}
                 \cup {f \in Flushers : flush[f] \in InFlight}
OneRefreshAtATime == \A p, q \in Refreshing : p = q

\* Committed stamps of last_refresh are more than an interval apart, whoever
\* claims and however long the claiming transaction stays open.
Debounced == [][gate'.age < gate.age => gate.age - gate'.age > Interval]_vars

\* The view is a ListingsView: readers never see a write that did not commit,
\* though triggers refresh the view in transactions that may still roll back,
\* and a refresh computed from older data never replaces a newer one.
Listings == INSTANCE ListingsView
ImplementsListings == Listings!Spec

\* Every committed write reaches the view, with no further write to help.
CatchesUp == \A s \in Statements : s \in committed ~> s \in view
=============================================================================
