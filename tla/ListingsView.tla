---------------------------- MODULE ListingsView ----------------------------
(***************************************************************************)
(* What readers of marketplace.mv_trades may rely on, whatever refreshes   *)
(* it: the view is computed from committed data, may lag behind it, never  *)
(* goes back, and eventually shows every committed write.                  *)
(* src/src/logic/trades/materialized-view.ts promises this in the comments *)
(* of ensureTradesRefreshGate and flushTradesMaterializedViewIfDirty.      *)
(***************************************************************************)
EXTENDS Naturals

CONSTANT Statements   \* the writes to the tables the view is computed from

VARIABLES committed, view

vars == <<committed, view>>

Init == committed = {} /\ view = {}

\* The view moves forward, not necessarily to the latest data.
Advance == view \subseteq view' /\ view' \subseteq committed'

\* A transaction commits; one that refreshed the view shows it at once.
Publish ==
    /\ committed' \in SUBSET Statements /\ committed \subseteq committed'
    /\ view' \in SUBSET committed'
    /\ Advance

Refresh ==
    /\ UNCHANGED committed
    /\ view' \in SUBSET committed
    /\ Advance

Next == Publish \/ Refresh

Spec == Init /\ [][Next]_vars

Show(s) == s \notin view /\ Refresh /\ s \in view'

FairSpec == Spec /\ \A s \in Statements : WF_vars(Show(s))
=============================================================================
