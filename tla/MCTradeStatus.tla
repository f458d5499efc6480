--------------------------- MODULE MCTradeStatus ---------------------------
EXTENDS TradeStatus

CONSTANTS v1, v2

\* Trades of one to three uses, signed with an index that is current, past or
\* yet to come.
MCTrades ==
    [uses : 1 .. 3, signerIndex : 0 .. 1, contractIndex : 0 .. 1, contract : {v2}]
=============================================================================
