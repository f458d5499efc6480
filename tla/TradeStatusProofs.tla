-------------------------- MODULE TradeStatusProofs --------------------------
(***************************************************************************)
(* TradeStatus for all trades, callers, networks and marketplaces, and any *)
(* number of assets and executions.                                        *)
(***************************************************************************)
EXTENDS TradeStatus, FiniteSetTheorems, TLAPS

\* The executions can be counted.
Counted == TypeOK /\ IsFiniteSet(executed)

LEMMA CountedInit == Init => Counted
  BY FS_EmptySet DEF Init, Counted, TypeOK, Index

LEMMA CountedNext == Counted /\ [Next]_vars => Counted'
  <1> SUFFICES ASSUME Counted, [Next]_vars PROVE Counted'
    OBVIOUS
  <1> USE ConstantsAssumption DEF Counted, TypeOK
  <1>1. ASSUME NEW t \in Trades, Create(t) PROVE Counted'
    BY <1>1 DEF Create, indices
  <1>2. ASSUME NEW c \in Callers, Execute(c) PROVE Counted'
    <2> DEFINE n == Cardinality(executed)
    <2>1. n \in Nat /\ n < trade.uses /\ trade \in Trades
      BY <1>2, FS_CardinalityType DEF Execute, Usable
    <2>2. n + 1 \in 1 .. trade.uses
      BY <2>1
    <2>3. executed' = executed \cup {<<n + 1, c>>} /\ UNCHANGED <<trade, cancelled, indices, expired>>
      BY <1>2 DEF Execute
    <2>4. IsFiniteSet(executed')
      BY <2>3, FS_AddElement
    <2>5. executed' \subseteq (1 .. trade.uses) \X Callers
      <3> HIDE DEF n
      <3> QED
        BY <2>1, <2>2, <2>3
    <2> QED
      BY <2>1, <2>3, <2>4, <2>5 DEF indices
  <1>3. CASE Cancel \/ Expire
    BY <1>3 DEF Cancel, Expire, indices
  <1>4. ASSUME NEW n \in Networks, RaiseSignerIndex(n) PROVE Counted'
    <2>1. Current(signerIndex[n]) + 1 \in Index
      BY <1>4 DEF RaiseSignerIndex, Current, Index
    <2> QED
      BY <1>4, <2>1 DEF RaiseSignerIndex
  <1>5. ASSUME NEW m \in Marketplaces, RaiseContractIndex(m) PROVE Counted'
    <2>1. Current(contractIndex[m]) + 1 \in Index
      BY <1>5 DEF RaiseContractIndex, Current, Index
    <2> QED
      BY <1>5, <2>1 DEF RaiseContractIndex
  <1>6. CASE UNCHANGED vars
    BY <1>6 DEF vars, indices
  <1> QED
    BY <1>1, <1>2, <1>3, <1>4, <1>5, <1>6 DEF Next

LEMMA CountedAlways == Spec => []Counted
  BY CountedInit, CountedNext, PTL DEF Spec

\* Every variable has its type, and no trade is executed more often than signed.
THEOREM TypeCorrect == Spec => []TypeOK
  BY CountedAlways, PTL DEF Counted

-----------------------------------------------------------------------------
(* A join that finds the trade's own index row, or none, finds one value,  *)
(* which cancels the trade just when the chain's index is not the signed.  *)

LEMMA OneRow ==
    ASSUME NEW K, NEW keys \in SUBSET K, NEW index \in [K -> Index], NEW own \in keys,
           \A k \in keys \ {own} : index[k] = Null
    PROVE  /\ Joined(index, keys) = {index[own]}
           /\ RowsOf(index, keys, index[own]) = 1
  <1>1. Joined(index, keys) = {index[own]}
    BY DEF Joined, Found
  <1>2. CASE index[own] = Null
    BY <1>1, <1>2 DEF RowsOf
  <1>3. CASE index[own] # Null
    <2>1. {k \in keys : index[k] = index[own]} = {own}
      BY <1>3
    <2> QED
      BY <1>1, <1>3, <2>1, FS_Singleton DEF RowsOf
  <1> QED
    BY <1>2, <1>3

LEMMA DiffersFromCurrent ==
    ASSUME NEW i \in Index, NEW signed \in Nat
    PROVE  Differs(i, signed) <=> Current(i) # signed
  BY ConstantsAssumption DEF Differs, Current, Index

\* A view that was just refreshed tells which trades the chain accepts.
LEMMA CountedTells == Counted => ViewTellsUsable
  <1> SUFFICES ASSUME Counted, trade # Null, OwnIndicesOnly, trade.contract \in LowerCase
               PROVE  "open" \in ShownInView <=> Usable
    BY DEF ViewTellsUsable
  <1> DEFINE si == signerIndex[Home]
             ci == contractIndex[trade.contract]
  <1>1. trade \in Trades /\ trade.contract \in Marketplaces /\ trade.uses \in Nat
        /\ trade.signerIndex \in Nat /\ trade.contractIndex \in Nat
    BY ConstantsAssumption DEF Counted, TypeOK
  <1>2. Joined(signerIndex, Networks) = {si} /\ si \in Index
    BY OneRow, ConstantsAssumption DEF Counted, TypeOK, OwnIndicesOnly
  <1>3. Joined(contractIndex, LowerCase) = {ci} /\ ci \in Index
    <2>1. LowerCase \in SUBSET Marketplaces /\ contractIndex \in [Marketplaces -> Index]
          /\ \A m \in LowerCase \ {trade.contract} : contractIndex[m] = Null
      BY ConstantsAssumption DEF Counted, TypeOK, OwnIndicesOnly
    <2> QED
      BY <1>1, <2>1, OneRow
  <1>4. ShownInView = {ViewStatus(si, ci)}
    <2>1. ViewRows = {<<si, ci>>}
      BY <1>2, <1>3 DEF ViewRows
    <2> QED
      BY <2>1 DEF ShownInView
  <1>5. /\ Differs(si, trade.signerIndex) <=> Current(si) # trade.signerIndex
        /\ Differs(ci, trade.contractIndex) <=> Current(ci) # trade.contractIndex
    BY <1>1, <1>2, <1>3, DiffersFromCurrent
  <1>6. CountExecuted >= trade.uses <=> ~(Cardinality(executed) < trade.uses)
    BY <1>1, FS_CardinalityType DEF Counted, CountExecuted
  <1> QED
    BY <1>4, <1>5, <1>6 DEF ViewStatus, Usable

\* A refreshed view tells which trades the chain accepts, whatever has happened.
THEOREM ViewTells == Spec => []ViewTellsUsable
  BY CountedAlways, CountedTells, PTL

-----------------------------------------------------------------------------
\* For a trade of one use the groups of the other query agree with the chain.
LEMMA CountedAgrees == Counted => SingleUseAgrees
  <1> SUFFICES ASSUME Counted, trade # Null, OwnIndicesOnly, trade.uses = 1,
                      trade.signerIndex <= Current(signerIndex[Home])
               PROVE  "open" \in ShownInBase <=> Usable
    BY DEF SingleUseAgrees
  <1> DEFINE si == signerIndex[Home]
             ci == contractIndex[trade.contract]
             Of(c) == {e \in executed : e[2] = c}
  <1>1. trade \in Trades /\ trade.contract \in Marketplaces
        /\ trade.signerIndex \in Nat /\ trade.contractIndex \in Nat
    BY ConstantsAssumption DEF Counted, TypeOK
  <1>2. Joined(signerIndex, Networks) = {si} /\ si \in Index
        /\ RowsOf(signerIndex, Networks, si) = 1
    BY OneRow, ConstantsAssumption DEF Counted, TypeOK, OwnIndicesOnly
  <1>3. Joined(contractIndex, Marketplaces) = {ci} /\ ci \in Index
        /\ RowsOf(contractIndex, Marketplaces, ci) = 1
    <2>1. contractIndex \in [Marketplaces -> Index]
          /\ \A m \in Marketplaces \ {trade.contract} : contractIndex[m] = Null
      BY DEF Counted, TypeOK, OwnIndicesOnly
    <2> QED
      BY <1>1, <2>1, OneRow
  <1>4. ShownInBase = {BaseStatus(c, si, ci) : c \in GroupCallers}
    BY <1>2, <1>3 DEF ShownInBase
  <1>5. \A c : SignerIndexCancels(c, si) <=> Current(si) # trade.signerIndex
    BY <1>1, <1>2, ConstantsAssumption DEF SignerIndexCancels, Current, Index
  <1>6. Differs(ci, trade.contractIndex) <=> Current(ci) # trade.contractIndex
    BY <1>1, <1>3, DiffersFromCurrent
  <1>7. ASSUME NEW c PROVE CountInGroup(c, si, ci) >= trade.uses <=> Of(c) # {}
    <2>1. IsFiniteSet(Of(c)) /\ Cardinality(Of(c)) \in Nat
      BY FS_Subset, FS_CardinalityType DEF Counted
    <2>2. Cardinality(Of(c)) = 0 <=> Of(c) = {}
      BY <2>1, FS_EmptySet
    <2>3. CountInGroup(c, si, ci) = Cardinality(Of(c)) * Assets
      BY <1>2, <1>3, <2>1, ConstantsAssumption DEF CountInGroup
    <2>4. ASSUME NEW n \in Nat, NEW k \in Nat \ {0} PROVE n * k >= 1 <=> n # 0
      OBVIOUS
    <2> QED
      BY <2>1, <2>2, <2>3, <2>4, ConstantsAssumption
  <1>8. Cardinality(executed) < trade.uses <=> executed = {}
    BY FS_EmptySet, FS_CardinalityType DEF Counted
  <1>9. executed # {} <=> \E c \in GroupCallers : Of(c) # {}
    <2>1. \A e \in executed : e[2] \in GroupCallers /\ e \in Of(e[2])
      BY DEF GroupCallers
    <2> QED
      BY <2>1
  <1>10. GroupCallers # {} /\ (executed = {} /\ cancelled => GroupCallers = {Signer})
    BY DEF GroupCallers
  <1>11. ASSUME cancelled, NEW c \in GroupCallers PROVE c = Signer \/ Of(c) # {}
    BY <1>11 DEF GroupCallers
  <1>12. ASSUME NEW c \in GroupCallers
         PROVE  BaseStatus(c, si, ci) = "open" <=>
                    /\ ~(cancelled /\ c = Signer) /\ Current(si) = trade.signerIndex
                    /\ ~expired /\ Current(ci) = trade.contractIndex /\ Of(c) = {}
    <2> HIDE DEF Of, si, ci
    <2> QED
      BY <1>5, <1>6, <1>7 DEF BaseStatus
  <1>13. "open" \in ShownInBase <=>
             /\ Current(si) = trade.signerIndex /\ ~expired /\ Current(ci) = trade.contractIndex
             /\ \E c \in GroupCallers : ~(cancelled /\ c = Signer) /\ Of(c) = {}
    <2> HIDE DEF Of, si, ci
    <2> QED
      BY <1>4, <1>12
  <1>14. (\E c \in GroupCallers : ~(cancelled /\ c = Signer) /\ Of(c) = {})
             <=> ~cancelled /\ executed = {}
    <2>1. ASSUME NEW c \in GroupCallers, ~(cancelled /\ c = Signer), Of(c) = {}
          PROVE  ~cancelled /\ executed = {}
      <3>1. ~cancelled
        BY <1>11, <2>1
      <3> QED
        BY <2>1, <3>1 DEF GroupCallers
    <2>2. ASSUME ~cancelled, executed = {}
          PROVE  \E c \in GroupCallers : ~(cancelled /\ c = Signer) /\ Of(c) = {}
      BY <1>10, <2>2
    <2> QED
      BY <2>1, <2>2
  <1> QED
    BY <1>8, <1>13, <1>14 DEF Usable

\* The duplicate check finds an order of one use just when the chain accepts it.
THEOREM SingleUsesAgree == Spec => []SingleUseAgrees
  BY CountedAlways, CountedAgrees, PTL
=============================================================================
