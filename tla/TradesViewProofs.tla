-------------------------- MODULE TradesViewProofs --------------------------
(***************************************************************************)
(* TradesView for every set of writers and flushers, every number of       *)
(* statements and every interval.  What concerns the flush job holds when  *)
(* a flush ends within the interval that its own claim opens (Timely): the *)
(* gate is a lease, not a lock.                                            *)
(***************************************************************************)
EXTENDS TradesView, TLAPS

\* A flush is over before the gate it closed opens again.
Timely == MaxFlushAge <= Interval

(***************************************************************************)
(* The inductive invariant.  LockInv: a transaction that has executed a    *)
(* statement keeps the row's lock, so transactions that write are          *)
(* serialized by the gate.                                                 *)
(***************************************************************************)
LockInv ==
    /\ rowLock = NoOne => pendingGate = gate
    /\ viewLock = NoOne => pendingView = view
    /\ viewLock # NoOne => rowLock = viewLock
    /\ \A w \in Writers :
          /\ pc[w] \in {"refreshing", "waiting"} => rowLock = w /\ viewLock = NoOne
          /\ pc[w] = "running" /\ done[w] > 0 => rowLock = w
          /\ pc[w] = "idle" => done[w] = 0
          /\ pc[w] = "marking" => done[w] > 0
          /\ rowLock = w => pc[w] \in Active /\ done[w] > 0

(***************************************************************************)
(* AgeInv: a transaction that has claimed the gate found it open, and does *)
(* not find it open again.                                                 *)
(***************************************************************************)
AgeInv ==
    \A w \in Writers :
        /\ rowLock = w /\ pendingGate.age # gate.age =>
               gate.age > Interval + txAge[w] /\ pendingGate.age <= txAge[w]
        /\ pc[w] \in {"refreshing", "waiting"} \/ viewLock = w =>
               pendingGate.age <= txAge[w]

(***************************************************************************)
(* WriterInv: what a writing transaction leaves behind is in the view it   *)
(* has refreshed, or the row is marked in the same transaction.            *)
(***************************************************************************)
WriterInv ==
    /\ view \subseteq committed
    /\ \A w \in Writers :
          /\ pc[w] = "waiting" => snapshot[w] = committed \cup Own(w)
          /\ viewLock = w => committed \subseteq pendingView
                             /\ pendingView \subseteq committed \cup Own(w)
          /\ viewLock = w /\ pc[w] = "running" /\ ~pendingGate.dirty
                => pendingView = committed \cup Own(w)
          /\ rowLock = w /\ viewLock # w /\ pc[w] \in {"running", "marking"}
                => pendingGate.dirty

(***************************************************************************)
(* FlushInv: while a flush is under way the gate is closed, so nobody else *)
(* refreshes, and whatever its snapshot misses is marked dirty.            *)
(***************************************************************************)
Alone(f) ==
    /\ gate.age = flushAge[f] /\ pendingGate.age = gate.age
    /\ viewLock = NoOne
    /\ \A w \in Writers : pc[w] \notin {"refreshing", "waiting"}
    /\ \A g \in Flushers : flush[g] \in InFlight => g = f

Misses(f) ==
    /\ view \subseteq snapshot[f] /\ snapshot[f] \subseteq committed
    /\ \A s \in committed \ snapshot[f] : gate.dirty

FlushInv ==
    \A f \in Flushers :
        /\ flush[f] \in InFlight => Alone(f)
        /\ flush[f] = "waiting" => Misses(f)

GateInv == TypeOK /\ LockInv /\ AgeInv
IInv == GateInv /\ WriterInv /\ FlushInv /\ NothingLost

-----------------------------------------------------------------------------
\* Every reachable state is well typed, writing transactions are serialized by
\* the row's lock, and a claim was made through an open gate.
LEMMA InitGate == Init => GateInv
  <1> SUFFICES ASSUME Init PROVE GateInv
    OBVIOUS
  <1> USE ConstantsAssumption DEF Init
  <1>1. TypeOK
    BY DEF TypeOK, Gate, MaxAge, Active, InFlight
  <1>2. LockInv /\ AgeInv
    BY DEF LockInv, AgeInv, Active
  <1> QED
    BY <1>1, <1>2 DEF GateInv

LEMMA NextGate == ASSUME GateInv, [Next]_vars PROVE GateInv'
  <1> USE ConstantsAssumption DEF GateInv
  <1>1. ASSUME NEW w \in Writers, Begin(w) PROVE GateInv'
    BY <1>1 DEF Begin, locks, TypeOK, LockInv, AgeInv, Gate, Active
  <1>2. ASSUME NEW w \in Writers, StatementClaims(w) PROVE GateInv'
    <2>1. TypeOK'
      BY <1>2 DEF StatementClaims, TypeOK, Gate, MaxAge, Active
    <2>2. LockInv'
      <3>1. viewLock = NoOne
        BY <1>2 DEF StatementClaims, RowFree, GateOpen, Row, TypeOK, LockInv, AgeInv, Gate
      <3> QED BY <1>2, <3>1 DEF StatementClaims, RowFree, TypeOK, LockInv, Active
    <2>3. AgeInv'
      BY <1>2 DEF StatementClaims, RowFree, GateOpen, Row, TypeOK, LockInv, AgeInv, Gate, MaxAge
    <2> QED BY <2>1, <2>2, <2>3
  <1>3. ASSUME NEW w \in Writers, StatementSkips(w) PROVE GateInv'
    BY <1>3 DEF StatementSkips, locks, TypeOK, LockInv, AgeInv, Gate, Active
  <1>4. ASSUME NEW w \in Writers, MarkDirty(w) PROVE GateInv'
    <2>1. TypeOK'
      BY <1>4 DEF MarkDirty, RowFree, Row, TypeOK, Gate, Active
    <2>2. LockInv'
      BY <1>4 DEF MarkDirty, RowFree, TypeOK, LockInv, Active
    <2>3. AgeInv'
      BY <1>4 DEF MarkDirty, RowFree, Row, TypeOK, LockInv, AgeInv, Gate
    <2> QED BY <2>1, <2>2, <2>3
  <1>5. ASSUME NEW w \in Writers, TakeSnapshot(w) PROVE GateInv'
    BY <1>5 DEF TakeSnapshot, locks, Own, Statements, TypeOK, LockInv, AgeInv, Gate, Active
  <1>6. ASSUME NEW w \in Writers, RefreshInTx(w) PROVE GateInv'
    BY <1>6 DEF RefreshInTx, TypeOK, LockInv, AgeInv, Gate, Active
  <1>7. ASSUME NEW w \in Writers, Commit(w) PROVE GateInv'
    <2>1. TypeOK'
      BY <1>7 DEF Commit, ReleaseLocks, Row, Own, Statements, TypeOK, Gate, Active
    <2>2. LockInv'
      BY <1>7 DEF Commit, ReleaseLocks, Row, TypeOK, LockInv, Active
    <2>3. AgeInv'
      BY <1>7 DEF Commit, ReleaseLocks, Row, TypeOK, AgeInv
    <2> QED BY <2>1, <2>2, <2>3
  <1>8. ASSUME NEW w \in Writers, Rollback(w) PROVE GateInv'
    BY <1>8 DEF Rollback, ReleaseLocks, TypeOK, LockInv, AgeInv, Gate, Active
  <1>9. ASSUME NEW f \in Flushers, Flush(f) PROVE GateInv'
    <2>1. CASE FlushClaim(f)
      BY <2>1 DEF FlushClaim, TypeOK, LockInv, AgeInv, Gate, MaxAge, InFlight
    <2>2. CASE FlushSnapshot(f)
      BY <2>2 DEF FlushSnapshot, locks, TypeOK, LockInv, AgeInv, InFlight
    <2>3. CASE FlushRefresh(f)
      BY <2>3 DEF FlushRefresh, TypeOK, LockInv, AgeInv
    <2>4. CASE FlushFails(f)
      BY <2>4 DEF FlushFails, locks, TypeOK, LockInv, AgeInv
    <2>5. CASE FlushRemarks(f)
      BY <2>5 DEF FlushRemarks, TypeOK, LockInv, AgeInv, Gate
    <2> QED BY <1>9, <2>1, <2>2, <2>3, <2>4, <2>5 DEF Flush
  <1>10. CASE Recreate
    BY <1>10 DEF Recreate, TypeOK, LockInv, AgeInv, Active
  <1>11. CASE Tick
    <2>1. TypeOK'
      BY <1>11 DEF Tick, Older, TypeOK, Gate, MaxAge
    <2>2. LockInv'
      BY <1>11 DEF Tick, TypeOK, LockInv
    <2>3. AgeInv'
      BY <1>11 DEF Tick, Older, TypeOK, LockInv, AgeInv, Gate, MaxAge
    <2> QED BY <2>1, <2>2, <2>3
  <1>12. CASE UNCHANGED vars
    BY <1>12 DEF vars, locks, TypeOK, LockInv, AgeInv, Own
  <1> QED
    BY <1>1, <1>2, <1>3, <1>4, <1>5, <1>6, <1>7, <1>8, <1>9, <1>10, <1>11, <1>12
    DEF Next, Write

LEMMA AlwaysGate == Spec => []GateInv
  BY InitGate, NextGate, PTL DEF Spec

\* The variables stay in their types.
THEOREM TypeCorrect == Spec => []TypeOK
  BY AlwaysGate, PTL DEF GateInv

-----------------------------------------------------------------------------
\* A transaction's statements never leave the set Own, and a transaction
\* without statements adds nothing.
LEMMA OwnFacts ==
    ASSUME TypeOK, NEW w \in Writers
    PROVE  /\ done[w] = 0 => Own(w) = {}
           /\ done' = [done EXCEPT ![w] = @ + 1] => Own(w) \subseteq Own(w)'
           /\ \A v \in Writers : done'[v] = done[v] => Own(v)' = Own(v)
  BY DEF TypeOK, Own

\* The committing transaction either has the row's lock or wrote nothing.
LEMMA CommitFacts ==
    ASSUME GateInv, NEW w \in Writers, Commit(w)
    PROVE  /\ rowLock # w => /\ viewLock # w
                             /\ committed' = committed /\ view' = view
                             /\ gate' = gate /\ pendingGate' = pendingGate
                             /\ rowLock' = rowLock /\ viewLock' = viewLock
                             /\ pendingView' = pendingView
           /\ rowLock = w => /\ gate' = pendingGate /\ pendingGate' = gate'
                             /\ rowLock' = NoOne /\ viewLock' = NoOne
           /\ committed' = committed \cup Own(w)
  <1>1. viewLock = w => rowLock = w
    BY ConstantsAssumption DEF GateInv, LockInv
  <1>2. rowLock # w => Own(w) = {}
    BY OwnFacts DEF GateInv, TypeOK, LockInv, Commit
  <1>3. rowLock = w => viewLock \in {w, NoOne}
    BY DEF GateInv, LockInv
  <1> QED
    BY <1>1, <1>2, <1>3 DEF Commit, ReleaseLocks, Row

LEMMA NextWriter ==
    ASSUME IInv, GateInv', [Next]_vars PROVE WriterInv'
  <1> USE ConstantsAssumption DEF IInv, GateInv
  <1>1. ASSUME NEW w \in Writers, Begin(w) PROVE WriterInv'
    BY <1>1 DEF Begin, locks, Own, TypeOK, LockInv, WriterInv
  <1>2. ASSUME NEW w \in Writers, StatementClaims(w) PROVE WriterInv'
    <2>1. viewLock = NoOne
      BY <1>2 DEF StatementClaims, TypeOK, LockInv
    <2>2. \A v \in Writers : pc'[v] # "waiting"
      BY <1>2 DEF StatementClaims, RowFree, TypeOK, LockInv
    <2> QED BY <1>2, <2>1, <2>2 DEF StatementClaims, TypeOK, WriterInv
  <1>3. ASSUME NEW w \in Writers, StatementSkips(w) PROVE WriterInv'
    BY <1>3, OwnFacts DEF StatementSkips, locks, TypeOK, LockInv, WriterInv
  <1>4. ASSUME NEW w \in Writers, MarkDirty(w) PROVE WriterInv'
    BY <1>4 DEF MarkDirty, RowFree, Row, Own, TypeOK, LockInv, WriterInv, Gate
  <1>5. ASSUME NEW w \in Writers, TakeSnapshot(w) PROVE WriterInv'
    BY <1>5 DEF TakeSnapshot, locks, Own, TypeOK, LockInv, WriterInv
  <1>6. ASSUME NEW w \in Writers, RefreshInTx(w) PROVE WriterInv'
    BY <1>6 DEF RefreshInTx, Own, TypeOK, LockInv, WriterInv
  <1>7. ASSUME NEW w \in Writers, Commit(w) PROVE WriterInv'
    <2>1. view' \subseteq committed'
      BY <1>7, CommitFacts DEF Commit, WriterInv
    <2>2. CASE rowLock = w
      <3>1. rowLock' = NoOne /\ viewLock' = NoOne
        BY <1>7, <2>2, CommitFacts
      <3>2. \A v \in Writers : pc'[v] # "waiting"
        BY <1>7, <2>2 DEF Commit, TypeOK, LockInv
      <3> QED BY <2>1, <3>1, <3>2 DEF WriterInv
    <2>3. CASE rowLock # w
      <3>1. UNCHANGED <<committed, view, gate, locks>>
        BY <1>7, <2>3, CommitFacts DEF locks
      <3>2. \A v \in Writers : Own(v)' = Own(v) /\ (pc'[v] = pc[v] \/ pc'[v] = "committed")
        BY <1>7 DEF Commit, Own, TypeOK
      <3>3. snapshot' = snapshot
        BY <1>7 DEF Commit
      <3> QED BY <3>1, <3>2, <3>3 DEF locks, WriterInv
    <2> QED BY <2>2, <2>3
  <1>8. ASSUME NEW w \in Writers, Rollback(w) PROVE WriterInv'
    BY <1>8 DEF Rollback, ReleaseLocks, Own, TypeOK, LockInv, WriterInv
  <1>9. ASSUME NEW f \in Flushers, Flush(f) PROVE WriterInv'
    <2>1. CASE FlushClaim(f)
      BY <2>1 DEF FlushClaim, Own, TypeOK, LockInv, WriterInv
    <2>2. CASE FlushSnapshot(f)
      BY <2>2 DEF FlushSnapshot, locks, Own, TypeOK, WriterInv
    <2>3. CASE FlushRefresh(f)
      BY <2>3 DEF FlushRefresh, Own, TypeOK, LockInv, WriterInv, FlushInv, Alone, Misses, InFlight
    <2>4. CASE FlushFails(f)
      BY <2>4 DEF FlushFails, locks, Own, WriterInv
    <2>5. CASE FlushRemarks(f)
      BY <2>5 DEF FlushRemarks, Own, WriterInv, LockInv
    <2> QED BY <1>9, <2>1, <2>2, <2>3, <2>4, <2>5 DEF Flush
  <1>10. CASE Recreate
    BY <1>10 DEF Recreate, Own, LockInv, WriterInv, Active
  <1>11. CASE Tick
    BY <1>11 DEF Tick, Own, TypeOK, Gate, WriterInv
  <1>12. CASE UNCHANGED vars
    BY <1>12 DEF vars, Own, WriterInv
  <1> QED
    BY <1>1, <1>2, <1>3, <1>4, <1>5, <1>6, <1>7, <1>8, <1>9, <1>10, <1>11, <1>12
    DEF Next, Write

-----------------------------------------------------------------------------
\* While a flush is under way no transaction finds the gate open: its age is
\* the flush's, which Timely bounds.
LEMMA GateClosedInFlight ==
    ASSUME Timely, TypeOK, FlushInv, NEW f \in Flushers, flush[f] \in InFlight
    PROVE  /\ gate.age <= Interval
           /\ \A w \in Writers : ~GateOpen(w)
  BY ConstantsAssumption DEF Timely, TypeOK, FlushInv, Alone, GateOpen, Row, Gate

LEMMA NextFlush ==
    ASSUME Timely, IInv, [Next]_vars PROVE FlushInv'
  <1> USE ConstantsAssumption DEF IInv, GateInv
  <1> DEFINE NoFlight == \A f \in Flushers : flush[f] \notin InFlight
  <1>0. ASSUME NoFlight, UNCHANGED flush PROVE FlushInv'
    BY <1>0 DEF FlushInv, InFlight
  <1>1. ASSUME NEW w \in Writers, Begin(w) PROVE FlushInv'
    BY <1>1 DEF Begin, locks, TypeOK, FlushInv, Alone, Misses
  <1>2. ASSUME NEW w \in Writers, StatementClaims(w) PROVE FlushInv'
    BY <1>0, <1>2, GateClosedInFlight DEF StatementClaims
  <1>3. ASSUME NEW w \in Writers, StatementSkips(w) PROVE FlushInv'
    BY <1>3 DEF StatementSkips, locks, TypeOK, FlushInv, Alone, Misses
  <1>4. ASSUME NEW w \in Writers, MarkDirty(w) PROVE FlushInv'
    BY <1>4 DEF MarkDirty, Row, TypeOK, FlushInv, Alone, Misses, Gate
  <1>5. ASSUME NEW w \in Writers, TakeSnapshot(w) PROVE FlushInv'
    BY <1>0, <1>5 DEF TakeSnapshot, FlushInv, Alone
  <1>6. ASSUME NEW w \in Writers, RefreshInTx(w) PROVE FlushInv'
    BY <1>0, <1>6 DEF RefreshInTx, FlushInv, Alone
  <1>7. ASSUME NEW w \in Writers, Commit(w) PROVE FlushInv'
    <2> SUFFICES ASSUME NEW f \in Flushers, flush[f] \in InFlight
                 PROVE  Alone(f)' /\ (flush[f] = "waiting" => Misses(f)')
      BY <1>7 DEF Commit, FlushInv, InFlight
    <2>1. Alone(f) /\ (flush[f] = "waiting" => Misses(f))
      BY DEF FlushInv
    <2>2. rowLock = w => pendingGate.dirty
      BY <1>7, <2>1 DEF Alone, Commit, WriterInv
    <2>3. Alone(f)'
      BY <1>7, <2>1, CommitFacts DEF Alone, Commit, TypeOK
    <2>4. view' = view
      BY <1>7, <2>1 DEF Alone, Commit
    <2>5. committed' # committed => gate'.dirty
      BY <1>7, <2>2, CommitFacts
    <2>6. gate.dirty => gate'.dirty
      BY <1>7, <2>2, CommitFacts
    <2> QED
      BY <1>7, <2>1, <2>3, <2>4, <2>5, <2>6, CommitFacts DEF Commit, Misses
  <1>8. ASSUME NEW w \in Writers, Rollback(w) PROVE FlushInv'
    BY <1>8 DEF Rollback, ReleaseLocks, TypeOK, LockInv, FlushInv, Alone, Misses
  <1>9. ASSUME NEW f \in Flushers, Flush(f) PROVE FlushInv'
    <2>1. CASE FlushClaim(f)
      <3>1. NoFlight
        BY <2>1, GateClosedInFlight DEF FlushClaim, TypeOK, Gate
      <3>2. viewLock = NoOne /\ \A w \in Writers : pc[w] \notin {"refreshing", "waiting"}
        BY <2>1 DEF FlushClaim, TypeOK, LockInv
      <3> QED BY <2>1, <3>1, <3>2 DEF FlushClaim, TypeOK, FlushInv, Alone, InFlight
    <2>2. CASE FlushSnapshot(f)
      BY <2>2 DEF FlushSnapshot, locks, TypeOK, FlushInv, Alone, Misses, InFlight, WriterInv
    <2>3. CASE FlushRefresh(f)
      BY <2>3 DEF FlushRefresh, TypeOK, FlushInv, Alone, InFlight
    <2>4. CASE FlushFails(f)
      BY <2>4 DEF FlushFails, TypeOK, FlushInv, Alone, InFlight
    <2>5. CASE FlushRemarks(f)
      BY <2>5 DEF FlushRemarks, TypeOK, LockInv, FlushInv, Alone, Misses, InFlight, Gate
    <2> QED BY <1>9, <2>1, <2>2, <2>3, <2>4, <2>5 DEF Flush
  <1>10. CASE Recreate
    BY <1>10 DEF Recreate, FlushInv, Alone
  <1>11. CASE Tick
    BY <1>11 DEF Timely, Tick, Older, MaxAge, TypeOK, Gate, FlushInv, Alone, Misses
  <1>12. CASE UNCHANGED vars
    BY <1>12 DEF vars, FlushInv, Alone, Misses
  <1> QED
    BY <1>1, <1>2, <1>3, <1>4, <1>5, <1>6, <1>7, <1>8, <1>9, <1>10, <1>11, <1>12
    DEF Next, Write

-----------------------------------------------------------------------------
LEMMA NextNothingLost ==
    ASSUME Timely, IInv, [Next]_vars PROVE NothingLost'
  <1> USE ConstantsAssumption DEF IInv, GateInv
  <1>1. ASSUME NEW w \in Writers, Commit(w) PROVE NothingLost'
    <2>1. CASE rowLock # w
      BY <1>1, <2>1, CommitFacts DEF Commit, NothingLost, Owed
    <2>2. CASE rowLock = w /\ pendingGate.dirty
      BY <1>1, <2>2, CommitFacts DEF NothingLost, Owed
    <2>3. CASE rowLock = w /\ ~pendingGate.dirty
      <3>1. viewLock = w
        BY <1>1, <2>3 DEF Commit, WriterInv
      <3>2. view' = committed'
        BY <1>1, <2>3, <3>1, CommitFacts DEF Commit, WriterInv
      <3> QED BY <3>2 DEF NothingLost
    <2> QED BY <2>1, <2>2, <2>3
  <1>2. ASSUME NEW w \in Writers, Begin(w) \/ Write(w) \/ Rollback(w)
        PROVE  NothingLost'
    <2>1. UNCHANGED <<committed, view, gate, flush>>
      BY <1>2 DEF Begin, Write, StatementClaims, StatementSkips, MarkDirty,
                  TakeSnapshot, RefreshInTx, Rollback
    <2>2. \A f \in Flushers : snapshot'[f] = snapshot[f]
      BY <1>2 DEF Begin, Write, StatementClaims, StatementSkips, MarkDirty,
                  TakeSnapshot, RefreshInTx, Rollback, TypeOK
    <2> QED BY <2>1, <2>2 DEF NothingLost, Owed
  <1>3. ASSUME NEW f \in Flushers, Flush(f) PROVE NothingLost'
    <2>1. CASE FlushClaim(f)
      BY <2>1 DEF FlushClaim, NothingLost, Owed, TypeOK
    <2>2. CASE FlushSnapshot(f)
      BY <2>2 DEF FlushSnapshot, NothingLost, Owed, TypeOK
    <2>3. CASE FlushRefresh(f)
      BY <2>3 DEF FlushRefresh, NothingLost, Owed, FlushInv, Misses
    <2>4. CASE FlushFails(f)
      BY <2>4 DEF FlushFails, NothingLost, Owed, TypeOK
    <2>5. CASE FlushRemarks(f)
      BY <2>5 DEF FlushRemarks, NothingLost, Owed, TypeOK, Gate
    <2> QED BY <1>3, <2>1, <2>2, <2>3, <2>4, <2>5 DEF Flush
  <1>4. CASE Recreate
    BY <1>4 DEF Recreate, NothingLost
  <1>5. CASE Tick
    BY <1>5 DEF Tick, NothingLost, Owed, TypeOK, Gate
  <1>6. CASE UNCHANGED vars
    BY <1>6 DEF vars, NothingLost, Owed
  <1> QED
    BY <1>1, <1>2, <1>3, <1>4, <1>5, <1>6 DEF Next

LEMMA AlwaysIInv == ASSUME Timely PROVE Spec => []IInv
  <1>1. Init => IInv
    <2> SUFFICES ASSUME Init PROVE WriterInv /\ FlushInv /\ NothingLost
      BY InitGate DEF IInv
    <2> QED
      BY ConstantsAssumption DEF Init, WriterInv, FlushInv, InFlight, NothingLost
  <1>2. IInv /\ [Next]_vars => IInv'
    BY NextGate, NextWriter, NextFlush, NextNothingLost DEF IInv
  <1> QED
    BY <1>1, <1>2, PTL DEF Spec

\* No committed write is forgotten, if every flush ends while the gate it
\* closed is still closed.
THEOREM NothingIsLost == ASSUME Timely PROVE Spec => []NothingLost
  BY AlwaysIInv, PTL DEF IInv

\* Under the same condition at most one refresh is under way.
THEOREM RefreshesAreExclusive == ASSUME Timely PROVE Spec => []OneRefreshAtATime
  <1>1. IInv => OneRefreshAtATime
    BY ConstantsAssumption
    DEF IInv, GateInv, LockInv, FlushInv, Alone, OneRefreshAtATime, Refreshing
  <1> QED
    BY <1>1, AlwaysIInv, PTL

\* Committed refreshes are more than an interval apart, timely or not.
THEOREM RefreshesAreDebounced == Spec => Debounced
  <1>1. GateInv /\ [Next]_vars
            => [gate'.age < gate.age => gate.age - gate'.age > Interval]_vars
    <2> SUFFICES ASSUME GateInv, Next, gate'.age < gate.age
                 PROVE  gate.age - gate'.age > Interval
      OBVIOUS
    <2> USE ConstantsAssumption DEF GateInv, TypeOK, Gate
    <2>1. ASSUME NEW w \in Writers, Commit(w)
          PROVE  gate.age - gate'.age > Interval
      <3>1. rowLock = w /\ gate' = pendingGate
        BY <2>1, CommitFacts
      <3> QED
        BY <3>1 DEF AgeInv
    <2>2. ASSUME NEW f \in Flushers, Flush(f)
          PROVE  gate.age - gate'.age > Interval
      BY <2>2 DEF Flush, FlushClaim, FlushSnapshot, FlushRefresh, FlushFails,
                  FlushRemarks
    <2>3. ASSUME NEW w \in Writers, Begin(w) \/ Write(w) \/ Rollback(w)
          PROVE  FALSE
      BY <2>3 DEF Begin, Write, StatementClaims, StatementSkips, MarkDirty,
                  TakeSnapshot, RefreshInTx, Rollback
    <2>4. ~Recreate /\ ~Tick
      BY DEF Recreate, Tick, Older
    <2> QED
      BY <2>1, <2>2, <2>3, <2>4 DEF Next
  <1> QED
    BY <1>1, AlwaysGate, PTL DEF Spec, Debounced

\* Readers see a ListingsView: committed data only, and never backwards.
THEOREM RefinesListings == ASSUME Timely PROVE Spec => ImplementsListings
  <1>1. Init => Listings!Init
    BY DEF Init, Listings!Init
  <1>2. ASSUME IInv, IInv', [Next]_vars PROVE [Listings!Next]_(Listings!vars)
    <2> USE ConstantsAssumption DEF IInv, GateInv
    <2>0. view' \subseteq committed' /\ committed' \subseteq Statements
      BY <1>2 DEF WriterInv, TypeOK
    <2>1. ASSUME committed \subseteq committed', view \subseteq view'
          PROVE  [Listings!Next]_(Listings!vars)
      BY <2>0, <2>1 DEF Listings!Next, Listings!Publish, Listings!Advance
    <2>2. ASSUME NEW w \in Writers, Commit(w)
          PROVE  committed \subseteq committed' /\ view \subseteq view'
      BY <1>2, <2>2, CommitFacts DEF Commit, WriterInv
    <2>3. ASSUME NEW f \in Flushers, Flush(f)
          PROVE  committed \subseteq committed' /\ view \subseteq view'
      BY <1>2, <2>3 DEF Flush, FlushClaim, FlushSnapshot, FlushRefresh, FlushFails,
                  FlushRemarks, FlushInv, Misses
    <2>4. ASSUME NEW w \in Writers, Begin(w) \/ Write(w) \/ Rollback(w)
          PROVE  committed \subseteq committed' /\ view \subseteq view'
      BY <2>4 DEF Begin, Write, StatementClaims, StatementSkips, MarkDirty,
                  TakeSnapshot, RefreshInTx, Rollback
    <2>5. Recreate \/ Tick \/ UNCHANGED vars
            => committed \subseteq committed' /\ view \subseteq view'
      BY <1>2 DEF Recreate, Tick, vars, WriterInv
    <2> QED
      BY <1>2, <2>1, <2>2, <2>3, <2>4, <2>5 DEF Next
  <1> QED
    BY <1>1, <1>2, AlwaysIInv, PTL DEF Spec, ImplementsListings, Listings!Spec
=============================================================================
