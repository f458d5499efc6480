---------------------------- MODULE TradeStatus ----------------------------
(***************************************************************************)
(* The status of a trade, which the server computes twice from what the    *)
(* squid has indexed: getTradesForTypeQuery (the duplicate checks and the  *)
(* list of bids) and the definition of mv_trades (everything else).        *)
(*                                                                         *)
(* The chain makes the events: executions and a cancellation of the trade, *)
(* and the raising of a signature index, which cancels what was signed     *)
(* with a lower one.  A signer has an index on each network, a marketplace *)
(* contract has one; the trade's network has several marketplaces.  That   *)
(* the signer owns what is sent (trades_owner_ok) is not modelled.         *)
(***************************************************************************)
EXTENDS Naturals, FiniteSets

CONSTANTS
    Trades,        \* what may have been signed
    Callers,       \* who executes or cancels
    Signer,        \* who has signed
    Marketplaces,  \* the marketplaces on the trade's network
    LowerCase,     \* those whose address is configured in lower case
    Networks, Home,
    Assets,        \* rows of trade_assets of the trade
    MaxIndex,      \* bound: how high an index gets
    Null           \* no row: of signature_index, of trades

ASSUME ConstantsAssumption ==
    /\ Signer \in Callers /\ Home \in Networks /\ LowerCase \subseteq Marketplaces
    /\ Assets \in Nat \ {0} /\ MaxIndex \in Nat /\ Null \notin Nat \cup Callers \cup Trades
    /\ \A t \in Trades :
          /\ t.uses \in Nat \ {0}
          /\ t.signerIndex \in Nat /\ t.contractIndex \in Nat
          /\ t.contract \in Marketplaces

VARIABLES
    trade,          \* the row of marketplace.trades
    executed,       \* squid_trades.trade, executions: their id and caller
    cancelled,      \* squid_trades.trade: the signer has cancelled
    signerIndex,    \* squid_trades.signature_index of the signer, by network
    contractIndex,  \* squid_trades.signature_index, by marketplace
    expired         \* expires_at < now()

indices == <<signerIndex, contractIndex>>
vars == <<trade, executed, cancelled, indices, expired>>

Index == {Null} \cup (1 .. MaxIndex)

TypeOK ==
    /\ trade \in Trades \cup {Null}
    /\ IF trade = Null THEN executed = {}
       ELSE executed \subseteq (1 .. trade.uses) \X Callers
    /\ cancelled \in BOOLEAN /\ expired \in BOOLEAN
    /\ signerIndex \in [Networks -> Index]
    /\ contractIndex \in [Marketplaces -> Index]

Init ==
    /\ trade = Null
    /\ executed = {} /\ cancelled = FALSE /\ expired = FALSE
    /\ signerIndex = [n \in Networks |-> Null]
    /\ contractIndex = [m \in Marketplaces |-> Null]

-----------------------------------------------------------------------------
(* The chain.                                                              *)

Current(index) == IF index = Null THEN 0 ELSE index

\* The marketplace contract accepts the trade.  That it is effective by now is a condition that
\* neither query reads and no status tells of (addTrade only asks that the trade be effective
\* before it expires), so it is left out: usable here is open, or to be open once effective.
Usable ==
    /\ trade # Null /\ ~cancelled /\ ~expired
    /\ Current(signerIndex[Home]) = trade.signerIndex
    /\ Current(contractIndex[trade.contract]) = trade.contractIndex
    /\ Cardinality(executed) < trade.uses

\* addTrade checks neither index: it may be one that its signer has yet to reach.
Create(t) ==
    /\ trade = Null
    /\ trade' = t
    /\ UNCHANGED <<executed, cancelled, indices, expired>>

Execute(c) ==
    /\ Usable
    /\ executed' = executed \cup {<<Cardinality(executed) + 1, c>>}
    /\ UNCHANGED <<trade, cancelled, indices, expired>>

Cancel ==
    /\ trade # Null
    /\ cancelled' = TRUE
    /\ UNCHANGED <<trade, executed, indices, expired>>

RaiseSignerIndex(n) ==
    /\ Current(signerIndex[n]) < MaxIndex
    /\ signerIndex' = [signerIndex EXCEPT ![n] = Current(@) + 1]
    /\ UNCHANGED <<trade, executed, cancelled, contractIndex, expired>>

RaiseContractIndex(m) ==
    /\ Current(contractIndex[m]) < MaxIndex
    /\ contractIndex' = [contractIndex EXCEPT ![m] = Current(@) + 1]
    /\ UNCHANGED <<trade, executed, cancelled, signerIndex, expired>>

Expire ==
    /\ trade # Null
    /\ expired' = TRUE
    /\ UNCHANGED <<trade, executed, cancelled, indices>>

Next ==
    \/ \E t \in Trades : Create(t)
    \/ \E c \in Callers : Execute(c)
    \/ Cancel
    \/ \E n \in Networks : RaiseSignerIndex(n)
    \/ \E m \in Marketplaces : RaiseContractIndex(m)
    \/ Expire

Spec == Init /\ [][Next]_vars

-----------------------------------------------------------------------------
(* The two queries.  Both LEFT JOIN the index rows of the signer, of every *)
(* network, and those of the marketplaces of the trade's network, and      *)
(* group by the values they find, so a trade has a row for each of them.   *)

Found(index, keys) == {index[k] : k \in keys} \ {Null}
Joined(index, keys) == IF Found(index, keys) = {} THEN {Null} ELSE Found(index, keys)
RowsOf(index, keys, i) == IF i = Null THEN 1 ELSE Cardinality({k \in keys : index[k] = i})

Differs(i, signed) == IF i = Null THEN signed # 0 ELSE i # signed

\* COUNT(CASE ... 'executed' ...), once for each row the joins make.
CountOfRows == Assets * Cardinality(executed)
\* COUNT(DISTINCT st.id) FILTER (WHERE st.action = 'executed').
CountExecuted == Cardinality(executed)

\* The CASE of mv_trades for one of its rows.
ViewStatus(si, ci) ==
    IF \/ cancelled \/ expired
       \/ Differs(si, trade.signerIndex) \/ Differs(ci, trade.contractIndex)
    THEN "cancelled"
    ELSE IF CountExecuted >= trade.uses THEN "sold" ELSE "open"

\* Its rows: LOWER(idx.address) is compared with the addresses as configured.
ViewRows == Joined(signerIndex, Networks) \X Joined(contractIndex, LowerCase)
ShownInView == {ViewStatus(row[1], row[2]) : row \in ViewRows}

\* getTradesForTypeQuery groups by the caller of the status rows as well ...
GroupCallers ==
    LET seen == {e[2] : e \in executed} \cup (IF cancelled THEN {Signer} ELSE {})
    IN  IF seen = {} THEN {Null} ELSE seen

\* ... counts an execution once for each asset and each joined index ...
CountInGroup(c, si, ci) ==
    Cardinality({e \in executed : e[2] = c}) * Assets
        * RowsOf(signerIndex, Networks, si) * RowsOf(contractIndex, Marketplaces, ci)

SignerIndexIgnored(c, si) == FALSE

\* ... and its AND binds tighter than its OR.
SignerIndexCancels(c, si) ==
    \/ si # Null /\ si # trade.signerIndex
    \/ si = Null /\ trade.signerIndex # 0 /\ c = Signer

BaseStatus(c, si, ci) ==
    IF \/ cancelled /\ c = Signer
       \/ SignerIndexCancels(c, si)
       \/ expired \/ Differs(ci, trade.contractIndex)
    THEN "cancelled"
    ELSE IF CountInGroup(c, si, ci) >= trade.uses THEN "sold" ELSE "open"

ShownInBase ==
    {BaseStatus(c, si, ci) : c \in GroupCallers, si \in Joined(signerIndex, Networks),
                             ci \in Joined(contractIndex, Marketplaces)}

-----------------------------------------------------------------------------
(* Properties.                                                             *)

\* The only rows that the joins find are the trade's own.
OwnIndicesOnly ==
    /\ \A n \in Networks \ {Home} : signerIndex[n] = Null
    /\ \A m \in Marketplaces \ {trade.contract} : contractIndex[m] = Null

\* A refreshed view tells which trades the chain accepts, for any number of uses,
\* callers and assets: its joins neither hide nor repeat an execution.
ViewTellsUsable ==
    trade # Null /\ OwnIndicesOnly /\ trade.contract \in LowerCase =>
        ("open" \in ShownInView <=> Usable)

\* For trades of one use the other query agrees, though it splits and repeats the
\* executions: a duplicate check finds every usable order, and no other.  Trades
\* signed with an index their signer has yet to reach are excepted.
SingleUseAgrees ==
    /\ trade # Null /\ OwnIndicesOnly /\ trade.uses = 1
    /\ trade.signerIndex <= Current(signerIndex[Home])
    => ("open" \in ShownInBase <=> Usable)

\* What idx_mv_trades_id asserts, UNIQUE (id): a trade is one row of the view.
\* Where it does not hold, REFRESH fails, and the writes whose trigger runs it.
OneRowPerTrade == trade # Null => Cardinality(ViewRows) = 1
=============================================================================
